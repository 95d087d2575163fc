----------------------------- MODULE UsbDisplay -----------------------------
(***************************************************************************)
(* The display service's side of the screen (UsbDisplayAdapter and         *)
(* UsbDisplayController): it listens for a remote display when the         *)
(* Phonetop service starts, adds a display device when the sink is         *)
(* connected, and tells the rest of the system by a broadcast and by a     *)
(* notification.                                                           *)
(*                                                                         *)
(* Everything runs on one handler thread; requests come from binder        *)
(* threads and callbacks from the media server as messages to its queue.   *)
(* Disposing of a remote display blocks the thread until stop() was        *)
(* answered.  A remote display is a DisplaySession: it may do whatever     *)
(* that specification allows, which is what MirrorSource implements.       *)
(*                                                                         *)
(* createWifiDisplay always returns an equal display and every connection  *)
(* comes with a new surface; so oldDisplay is null exactly when oldSurface *)
(* is, and onDisplayChanged and onDisplayConnectionFailed are never called.*)
(***************************************************************************)
EXTENDS Naturals, Sequences, FiniteSets

CONSTANTS
  MaxListens,       \* bound on the remote displays listened for
  MaxQueue,         \* bound on the queue when a request or a callback is posted
  MaxKills,         \* bound on the kills of PhonetopService's process
  MediaServerDies   \* may the media server die?

ASSUME UsbDisplayAssumption ==
  /\ MaxListens \in Nat
  /\ MaxQueue \in Nat
  /\ MaxKills \in Nat
  /\ MediaServerDies \in BOOLEAN

VARIABLES
  queue,            \* the handler's messages, oldest first
  remote,           \* per RemoteDisplay, the state of its DisplaySession
  listening,        \* those whose RTSP server got the port
  listens,          \* calls of RemoteDisplay.listen so far
  mRemoteDisplay,   \* 0 for null
  disposing,        \* the one dispose() is waiting for, or 0
  mAdvertisedDisplaySurface,   \* by the remote display it came from, 0 for null
  adapter,          \* the fields of UsbDisplayAdapter
  lastBroadcast,    \* the status the receivers were last told
  notification,     \* the state the notification shows, or "none"
  service,          \* is PhonetopService running?
  kills             \* how often its process was killed

controllerVars == <<listening, listens, mRemoteDisplay, disposing, mAdvertisedDisplaySurface>>
outsideVars    == <<lastBroadcast, notification>>
serviceVars    == <<service, kills>>
vars == <<queue, remote, controllerVars, adapter, outsideVars, serviceVars>>

RemoteDisplays == 1 .. MaxListens

RemoteState == [phase: {"none", "connected", "disconnected"},
                stop: {"no", "called", "answered"},
                fault: BOOLEAN, dead: BOOLEAN]

Remote(r) == INSTANCE DisplaySession WITH
  phase <- remote[r].phase, stop <- remote[r].stop,
  fault <- remote[r].fault, dead <- remote[r].dead

DisplayStates == {"NOT_CONNECTED", "CONNECTING", "CONNECTED"}

Status == [state: DisplayStates, remembered: BOOLEAN]

Null == [state |-> "null", remembered |-> FALSE]

Message(what)    == [what |-> what, display |-> 0, old |-> 0]
Callback(what, r) == [what |-> what, display |-> r, old |-> 0]

Messages ==
  [what: {"connect", "disconnect", "tapped", "broadcast", "notification"},
   display: {0}, old: {0}]
    \cup
  [what: {"onDisplayConnected", "onDisplayDisconnected", "onDisplayError", "advertise"},
   display: RemoteDisplays, old: 0 .. MaxListens]

AdapterFields ==
  [mDisplayDevice: 0 .. MaxListens,
   mActiveDisplayState: DisplayStates,
   remembered: BOOLEAN,
   mCurrentStatus: Status \cup {Null},
   mPendingStatusChangeBroadcast: BOOLEAN,
   mPendingNotificationUpdate: BOOLEAN]

TypeOK ==
  /\ queue \in Seq(Messages)
  /\ remote \in [RemoteDisplays -> RemoteState]
  /\ listening \subseteq Nat
  /\ listens \in Nat
  /\ mRemoteDisplay \in Nat
  /\ disposing \in 0 .. MaxListens
  /\ mAdvertisedDisplaySurface \in 0 .. MaxListens
  /\ adapter \in AdapterFields
  /\ lastBroadcast \in Status
  /\ notification \in {"none", "CONNECTING", "CONNECTED"}
  /\ service \in BOOLEAN
  /\ kills \in 0 .. MaxKills

\* Once registerLocked's runnable has made the controller; no request can overtake it.
Init ==
  /\ queue = << >>
  /\ remote = [r \in RemoteDisplays |->
                 [phase |-> "none", stop |-> "no", fault |-> FALSE, dead |-> FALSE]]
  /\ listening = {}
  /\ listens = 0
  /\ mRemoteDisplay = 0
  /\ disposing = 0
  /\ mAdvertisedDisplaySurface = 0
  /\ \E known \in BOOLEAN :
       /\ adapter = [mDisplayDevice |-> 0, mActiveDisplayState |-> "NOT_CONNECTED",
                     remembered |-> known, mCurrentStatus |-> Null,
                     mPendingStatusChangeBroadcast |-> FALSE,
                     mPendingNotificationUpdate |-> FALSE]
       /\ lastBroadcast = [state |-> "NOT_CONNECTED", remembered |-> known]
  /\ notification = "none"
  /\ service = FALSE
  /\ kills = 0

------------------------------------------------------------------------------
(* Requests, and the notification's disconnect button *)

Posted(what) == {i \in 1 .. Len(queue) : queue[i].what = what}

Post(msg) == /\ Len(queue) < MaxQueue
             /\ queue' = Append(queue, msg)

\* PhonetopService.onCreate, connectUsbDisplay
ServiceStarts ==
  /\ ~service
  /\ listens + Cardinality(Posted("connect")) < MaxListens
  /\ service' = TRUE
  /\ Post(Message("connect"))
  /\ UNCHANGED <<remote, controllerVars, adapter, outsideVars, kills>>

\* mutant: onDestroy forgets the display
ServiceStopsSilently ==
  /\ service
  /\ service' = FALSE
  /\ UNCHANGED <<queue, remote, controllerVars, adapter, outsideVars, kills>>

\* PhonetopService.onDestroy, disconnectUsbDisplay
ServiceStops ==
  /\ service
  /\ service' = FALSE
  /\ Post(Message("disconnect"))
  /\ UNCHANGED <<remote, controllerVars, adapter, outsideVars, kills>>

\* The process of the service is killed: onDestroy is not called.
ServiceKilled ==
  /\ kills < MaxKills
  /\ service
  /\ service' = FALSE
  /\ kills' = kills + 1
  /\ UNCHANGED <<queue, remote, controllerVars, adapter, outsideVars>>

\* The pending intent of the notification sends ACTION_DISCONNECT.
NotificationTapped ==
  /\ notification # "none"
  /\ Post(Message("tapped"))
  /\ UNCHANGED <<remote, controllerVars, adapter, outsideVars, serviceVars>>

------------------------------------------------------------------------------
(* Remote displays: what DisplaySession allows, and the callback it posts *)

\* a step of one remote display; TLC enumerates its next states
RemoteStep(r, step) ==
  /\ \E next \in RemoteState : remote' = [remote EXCEPT ![r] = next] /\ step
  /\ UNCHANGED <<controllerVars, adapter, outsideVars, serviceVars>>

RemoteConnects(r) ==
  /\ r \in listening
  /\ Post(Callback("onDisplayConnected", r))
  /\ RemoteStep(r, Remote(r)!Connected)

RemoteFails(r) ==
  /\ r \in listening
  /\ Post(Callback("onDisplayError", r))
  /\ RemoteStep(r, Remote(r)!Fault)

RemoteDisconnects(r) ==
  /\ queue' = Append(queue, Callback("onDisplayDisconnected", r))
  /\ RemoteStep(r, Remote(r)!Disconnected)

RemoteAnswers(r) ==
  /\ RemoteStep(r, Remote(r)!Answer)
  /\ UNCHANGED queue

\* No RemoteDisplay hears of the death of the media server.
MediaServerCrashes ==
  /\ MediaServerDies
  /\ remote' = [r \in RemoteDisplays |->
                  [remote[r] EXCEPT !.dead = @ \/ r <= listens]]
  /\ UNCHANGED <<queue, controllerVars, adapter, outsideVars, serviceVars>>

------------------------------------------------------------------------------
(* The listener of UsbDisplayAdapter, as functions of its fields *)

StatusOf(a) == [state |-> a.mActiveDisplayState, remembered |-> a.remembered]

\* mutant: the cached status is kept
ScheduleBroadcastOfCache(a) == [a EXCEPT !.mPendingStatusChangeBroadcast = TRUE]

ScheduleStatusChangedBroadcast(a) ==
  [a EXCEPT !.mCurrentStatus = Null, !.mPendingStatusChangeBroadcast = TRUE]

ScheduleUpdateNotification(a) == [a EXCEPT !.mPendingNotificationUpdate = TRUE]

SetActive(a, state) ==
  IF a.mActiveDisplayState = state THEN a
  ELSE ScheduleUpdateNotification(
         ScheduleStatusChangedBroadcast([a EXCEPT !.mActiveDisplayState = state]))

Remember(a) ==
  IF a.remembered THEN a
  ELSE ScheduleStatusChangedBroadcast([a EXCEPT !.remembered = TRUE])

OnDisplayConnecting(a) == SetActive(a, "CONNECTING")

OnDisplayConnected(a, surface) ==
  SetActive(Remember([a EXCEPT !.mDisplayDevice = surface]), "CONNECTED")

\* mutants: the device is kept; a state that WifiDisplayStatus does not have
OnDisplayDisconnectedKeepsDevice(a) == SetActive(a, "NOT_CONNECTED")
OnDisplayDisconnectedMisnamed(a) ==
  SetActive([a EXCEPT !.mDisplayDevice = 0], "DISCONNECTED")

OnDisplayDisconnected(a) ==
  SetActive([a EXCEPT !.mDisplayDevice = 0], "NOT_CONNECTED")

\* Scheduling posts to `rest' what is pending now and was not before.
PostWhen(condition, what, rest) ==
  IF condition THEN Append(rest, Message(what)) ELSE rest

Scheduled(before, after, rest) ==
  PostWhen(~before.mPendingNotificationUpdate /\ after.mPendingNotificationUpdate,
           "notification",
           PostWhen(~before.mPendingStatusChangeBroadcast /\ after.mPendingStatusChangeBroadcast,
                    "broadcast", rest))

------------------------------------------------------------------------------
(* The handler *)

\* The thread takes the next message, unless it waits in dispose().
Handling(what) ==
  /\ disposing = 0
  /\ queue # << >>
  /\ Head(queue).what = what

Handled == queue' = Tail(queue)

\* A RemoteDisplay that was not disposed of keeps the port.
HoldsPort(r) == remote[r].stop # "answered" /\ ~remote[r].dead

\* requestConnect: mRemoteDisplay is overwritten, whatever it was.
RequestConnect ==
  /\ Handling("connect")
  /\ Handled
  /\ listens' = listens + 1
  /\ mRemoteDisplay' = listens + 1
  /\ listening' = IF \E r \in listening : HoldsPort(r) THEN listening
                  ELSE listening \cup {listens + 1}
  /\ UNCHANGED <<remote, disposing, mAdvertisedDisplaySurface, adapter, outsideVars, serviceVars>>

DisconnectTapped ==
  /\ Handling("tapped")
  /\ queue' = Append(Tail(queue), Message("disconnect"))
  /\ UNCHANGED <<remote, controllerVars, adapter, outsideVars, serviceVars>>

NothingToDisconnect ==
  /\ Handling("disconnect")
  /\ mRemoteDisplay = 0
  /\ Handled
  /\ UNCHANGED <<remote, controllerVars, adapter, outsideVars, serviceVars>>

\* requestDisconnect: dispose() calls stop() and waits for its answer.
RequestDisconnect ==
  /\ Handling("disconnect")
  /\ \E r \in RemoteDisplays :
       /\ mRemoteDisplay = r
       /\ disposing' = r
       /\ \/ /\ remote[r].dead
             /\ Handled
             /\ UNCHANGED remote
          \/ \E next \in RemoteState :
               /\ remote' = [remote EXCEPT ![r] = next]
               /\ Remote(r)!Stop
               /\ queue' = IF next.phase = remote[r].phase THEN Tail(queue)
                           ELSE Append(Tail(queue), Callback("onDisplayDisconnected", r))
  /\ UNCHANGED <<listening, listens, mRemoteDisplay, mAdvertisedDisplaySurface,
                 adapter, outsideVars, serviceVars>>

\* mutant: dispose() waits until the handler has handled the callback
DisposeReturnsAfterCallback ==
  /\ disposing # 0
  /\ \A i \in DOMAIN queue : queue[i].what # "onDisplayDisconnected"
  /\ remote[disposing].stop = "answered" \/ remote[disposing].dead
  /\ disposing' = 0
  /\ mRemoteDisplay' = 0
  /\ UNCHANGED <<queue, remote, listening, listens, mAdvertisedDisplaySurface,
                 adapter, outsideVars, serviceVars>>

DisposeReturns ==
  /\ disposing # 0
  /\ remote[disposing].stop = "answered" \/ remote[disposing].dead
  /\ disposing' = 0
  /\ mRemoteDisplay' = 0
  /\ UNCHANGED <<queue, remote, listening, listens, mAdvertisedDisplaySurface,
                 adapter, outsideVars, serviceVars>>

\* RemoteDisplay.Listener.onDisplayConnected, advertiseDisplay: what changed is
\* told to the adapter by another message to the same queue.
AdvertiseDisplay ==
  /\ Handling("onDisplayConnected")
  /\ LET surface == Head(queue).display IN
       /\ mAdvertisedDisplaySurface' = surface
       /\ queue' = IF surface = mAdvertisedDisplaySurface THEN Tail(queue)
                   ELSE Append(Tail(queue), [what |-> "advertise", display |-> surface,
                                             old |-> mAdvertisedDisplaySurface])
  /\ UNCHANGED <<remote, listening, listens, mRemoteDisplay, disposing, adapter,
                 outsideVars, serviceVars>>

\* a message that changes the adapter, with what that schedules
Tell(after) ==
  /\ adapter' = after
  /\ queue' = Scheduled(adapter, after, Tail(queue))
  /\ UNCHANGED <<remote, controllerVars, outsideVars, serviceVars>>

\* the runnable of advertiseDisplay
TellAdvertised ==
  /\ Handling("advertise")
  /\ LET msg == Head(queue)
         ready == IF msg.old # 0 THEN OnDisplayDisconnected(adapter)
                                 ELSE OnDisplayConnecting(adapter)
     IN Tell(OnDisplayConnected(ready, msg.display))

\* RemoteDisplay.Listener.onDisplayDisconnected: told at once
TellDisconnected ==
  /\ Handling("onDisplayDisconnected")
  /\ Tell(OnDisplayDisconnected(adapter))

\* UsbDisplayAdapter's onDisplayError is empty.
TellError ==
  /\ Handling("onDisplayError")
  /\ Handled
  /\ UNCHANGED <<remote, controllerVars, adapter, outsideVars, serviceVars>>

\* getWifiDisplayStatusLocked
CurrentStatus == IF adapter.mCurrentStatus = Null THEN StatusOf(adapter)
                 ELSE adapter.mCurrentStatus

HandleSendStatusChangeBroadcast ==
  /\ Handling("broadcast")
  /\ Handled
  /\ IF adapter.mPendingStatusChangeBroadcast
     THEN /\ lastBroadcast' = CurrentStatus
          /\ adapter' = [adapter EXCEPT !.mPendingStatusChangeBroadcast = FALSE,
                                        !.mCurrentStatus = CurrentStatus]
     ELSE UNCHANGED <<lastBroadcast, adapter>>
  /\ UNCHANGED <<remote, controllerVars, notification, serviceVars>>

\* mutant: the update stays pending
HandleUpdateNotificationKeepsFlag ==
  /\ Handling("notification")
  /\ Handled
  /\ notification' = IF adapter.mActiveDisplayState = "NOT_CONNECTED"
                     THEN "none" ELSE adapter.mActiveDisplayState
  /\ UNCHANGED <<adapter, remote, controllerVars, lastBroadcast, serviceVars>>

HandleUpdateNotification ==
  /\ Handling("notification")
  /\ Handled
  /\ IF adapter.mPendingNotificationUpdate
     THEN /\ adapter' = [adapter EXCEPT !.mPendingNotificationUpdate = FALSE]
          /\ notification' = IF adapter.mActiveDisplayState = "NOT_CONNECTED"
                             THEN "none" ELSE adapter.mActiveDisplayState
     ELSE UNCHANGED <<notification, adapter>>
  /\ UNCHANGED <<remote, controllerVars, lastBroadcast, serviceVars>>

------------------------------------------------------------------------------

Requests == ServiceStarts \/ ServiceStops \/ ServiceKilled \/ NotificationTapped

RemoteDisplayNext ==
  \/ \E r \in RemoteDisplays : \/ RemoteConnects(r) \/ RemoteFails(r)
                               \/ RemoteDisconnects(r) \/ RemoteAnswers(r)
  \/ MediaServerCrashes

HandlerNext ==
  \/ RequestConnect \/ DisconnectTapped \/ NothingToDisconnect \/ RequestDisconnect
  \/ DisposeReturns \/ AdvertiseDisplay \/ TellAdvertised \/ TellDisconnected
  \/ TellError \/ HandleSendStatusChangeBroadcast \/ HandleUpdateNotification

Next == Requests \/ RemoteDisplayNext \/ HandlerNext

Spec == Init /\ [][Next]_vars

\* The handler thread runs, and a stop() that was called is answered, which is
\* the property StopAnswered of MirrorSource.
FairSpec ==
  /\ Spec
  /\ WF_vars(HandlerNext)
  /\ \A r \in RemoteDisplays : WF_vars(RemoteDisconnects(r) \/ RemoteAnswers(r))

------------------------------------------------------------------------------
(* Properties *)

\* There is a display device exactly while the active display is connected, in
\* whatever order the callbacks of several remote displays reach the adapter.
DeviceFollowsState ==
  adapter.mDisplayDevice # 0 <=> adapter.mActiveDisplayState = "CONNECTED"

\* A pending flag is set exactly while its message is in the queue: were it set
\* without one, no change of the status would ever be sent again.
PendingIsPosted ==
  /\ adapter.mPendingStatusChangeBroadcast <=> Posted("broadcast") # {}
  /\ adapter.mPendingNotificationUpdate <=> Posted("notification") # {}

\* The cached status is the current one, the receivers were told the current one
\* and the notification shows it, or else an update is pending.
StatusReachesOutside ==
  /\ adapter.mCurrentStatus \in {Null, StatusOf(adapter)}
  /\ adapter.mPendingStatusChangeBroadcast \/ lastBroadcast = StatusOf(adapter)
  /\ \/ adapter.mPendingNotificationUpdate
     \/ adapter.mActiveDisplayState = "NOT_CONNECTED" /\ notification = "none"
     \/ adapter.mActiveDisplayState = notification

\* A remote display that keeps the port is the one requestDisconnect disposes of:
\* as long as the service lives to its onDestroy, none is left behind.
NoOrphanedRemoteDisplay ==
  kills = 0 => \A r \in listening : HoldsPort(r) => r = mRemoteDisplay

\* Where, before, in and behind the queue, a remote display is there to be disposed of
\* or another one may be asked for.
Listens(i) ==
  \/ i = 0 /\ mRemoteDisplay # 0 /\ disposing = 0
  \/ i \in Posted("connect")
  \/ i = Len(queue) + 1 /\ ~service

\* As long as the service lives to its onDestroy, a request to disconnect comes between
\* any two of them: requestConnect overwrites no remote display.
DisconnectedBetween ==
  kills = 0 =>
    \A i, j \in 0 .. Len(queue) + 1 :
      Listens(i) /\ Listens(j) /\ i < j =>
        \E k \in Posted("disconnect") : i < k /\ k < j

\* The handler thread, which runs for the whole display service, does not stay in
\* dispose(): the callbacks it causes are posted, not waited for.
DisposeEnds == disposing # 0 ~> disposing = 0

\* In the end everyone outside knows of the state the adapter stays in.
OutsideCatchesUp ==
  <>[](/\ lastBroadcast = StatusOf(adapter)
       /\ notification = "none" <=> adapter.mActiveDisplayState = "NOT_CONNECTED")

\* What onDestroy says it does: once its request has been handled, and nothing is
\* left to be handled, the display is gone.
Disconnected == ~service /\ queue = << >> /\ disposing = 0 /\ listens > 0

DisconnectRemovesDisplay == Disconnected => adapter.mDisplayDevice = 0
==============================================================================
