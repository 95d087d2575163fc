-------------------------- MODULE UsbDisplayProofs --------------------------
(***************************************************************************)
(* What is proved of UsbDisplay for every number of remote displays, every *)
(* length of the queue, and however often the service is killed: device,   *)
(* status, broadcast and notification agree, no update is suppressed, and  *)
(* no remote display that keeps the port is overwritten.                   *)
(***************************************************************************)
EXTENDS UsbDisplay, TLAPS, SequenceTheorems, FiniteSetTheorems

------------------------------------------------------------------------------
(* Messages *)

\* The head of a queue that is not empty is a message.
LEMMA HeadInQueue ==
  ASSUME TypeOK, queue # << >>
  PROVE  Head(queue) \in Messages /\ Tail(queue) \in Seq(Messages)
BY HeadTailProperties DEF TypeOK

\* A message without a display is a message.
LEMMA MessageTyped ==
  ASSUME NEW what \in {"connect", "disconnect", "tapped", "broadcast", "notification"}
  PROVE  Message(what) \in Messages
BY DEF Message, Messages

\* A callback of a remote display is a message.
LEMMA CallbackTyped ==
  ASSUME NEW what \in {"onDisplayConnected", "onDisplayDisconnected", "onDisplayError"},
         NEW r \in RemoteDisplays
  PROVE  Callback(what, r) \in Messages
BY UsbDisplayAssumption DEF Callback, Messages, RemoteDisplays

\* Posting a message keeps the queue a sequence of messages.
LEMMA PostTyped ==
  ASSUME TypeOK, NEW msg \in Messages, Post(msg)
  PROVE  queue' \in Seq(Messages)
BY AppendProperties DEF Post, TypeOK

------------------------------------------------------------------------------
(* The functions on the adapter's fields *)

\* Setting the active display keeps the fields in their types.
LEMMA SetActiveTyped ==
  ASSUME NEW a \in AdapterFields, NEW state \in DisplayStates
  PROVE  SetActive(a, state) \in AdapterFields
BY DEF SetActive, ScheduleUpdateNotification, ScheduleStatusChangedBroadcast, AdapterFields

\* What a callback leaves the adapter in: nothing changed that is not scheduled.
Reported(a, b) ==
  /\ b \in AdapterFields
  /\ b.mCurrentStatus \in {Null, a.mCurrentStatus}
  /\ b.mCurrentStatus # Null => StatusOf(b) = StatusOf(a)
  /\ a.mPendingStatusChangeBroadcast => b.mPendingStatusChangeBroadcast
  /\ a.mPendingNotificationUpdate => b.mPendingNotificationUpdate
  /\ b.mPendingStatusChangeBroadcast \/ StatusOf(b) = StatusOf(a)
  /\ b.mPendingNotificationUpdate \/ b.mActiveDisplayState = a.mActiveDisplayState

\* Setting the active display schedules what it changes.
LEMMA SetActiveReported ==
  ASSUME NEW a \in AdapterFields, NEW state \in DisplayStates
  PROVE  Reported(a, SetActive(a, state)) /\ SetActive(a, state).mActiveDisplayState = state
         /\ SetActive(a, state).mDisplayDevice = a.mDisplayDevice
BY SetActiveTyped DEF Reported, SetActive, ScheduleUpdateNotification,
   ScheduleStatusChangedBroadcast, AdapterFields, StatusOf, Null

\* The device is not shown outside: adding or removing it need not be scheduled.
LEMMA DeviceReported ==
  ASSUME NEW a \in AdapterFields, NEW device \in 0 .. MaxListens
  PROVE  LET b == [a EXCEPT !.mDisplayDevice = device] IN Reported(a, b) /\ b.mDisplayDevice = device
BY DEF Reported, AdapterFields, StatusOf

\* Remembering a display schedules the broadcast that tells of it.
LEMMA RememberReported ==
  ASSUME NEW a \in AdapterFields
  PROVE  Reported(a, Remember(a)) /\ Remember(a).mDisplayDevice = a.mDisplayDevice
BY DEF Reported, Remember, ScheduleStatusChangedBroadcast, AdapterFields, StatusOf, Null

\* Two reported changes after each other are one.
LEMMA ReportedTransitive ==
  ASSUME NEW a \in AdapterFields, NEW b, NEW c, Reported(a, b), Reported(b, c)
  PROVE  Reported(a, c)
BY DEF Reported

\* onDisplayConnected adds the device and reports the connection.
LEMMA ConnectedReported ==
  ASSUME NEW a \in AdapterFields, NEW surface \in RemoteDisplays
  PROVE  LET b == OnDisplayConnected(a, surface) IN
         Reported(a, b) /\ b.mDisplayDevice = surface /\ b.mActiveDisplayState = "CONNECTED"
<1> DEFINE withDevice == [a EXCEPT !.mDisplayDevice = surface]
           remembering == Remember(withDevice)
<1> HIDE DEF withDevice, remembering
<1>1. Reported(a, withDevice) /\ withDevice.mDisplayDevice = surface
  BY DeviceReported, UsbDisplayAssumption DEF withDevice, RemoteDisplays
<1>2. withDevice \in AdapterFields
  BY <1>1 DEF Reported
<1>3. Reported(withDevice, remembering) /\ remembering.mDisplayDevice = surface
  BY <1>1, <1>2, RememberReported DEF remembering
<1>4. remembering \in AdapterFields
  BY <1>3 DEF Reported
<1>5. OnDisplayConnected(a, surface) = SetActive(remembering, "CONNECTED")
  BY DEF OnDisplayConnected, withDevice, remembering
<1> QED BY <1>1, <1>2, <1>3, <1>4, <1>5, SetActiveReported, ReportedTransitive DEF DisplayStates

\* onDisplayDisconnected removes the device and reports it.
LEMMA DisconnectedReported ==
  ASSUME NEW a \in AdapterFields
  PROVE  LET b == OnDisplayDisconnected(a) IN
         Reported(a, b) /\ b.mDisplayDevice = 0 /\ b.mActiveDisplayState = "NOT_CONNECTED"
<1> DEFINE without == [a EXCEPT !.mDisplayDevice = 0]
<1> HIDE DEF without
<1>1. Reported(a, without) /\ without.mDisplayDevice = 0
  BY DeviceReported, UsbDisplayAssumption DEF without
<1>2. without \in AdapterFields
  BY <1>1 DEF Reported
<1>3. OnDisplayDisconnected(a) = SetActive(without, "NOT_CONNECTED")
  BY DEF OnDisplayDisconnected, without
<1> QED BY <1>1, <1>2, <1>3, SetActiveReported, ReportedTransitive DEF DisplayStates

\* The two messages that reach the adapter change it in one of two ways.
LEMMA Told ==
  ASSUME TypeOK, TellAdvertised \/ TellDisconnected
  PROVE  /\ Reported(adapter, adapter')
         /\ adapter'.mDisplayDevice # 0 <=> adapter'.mActiveDisplayState = "CONNECTED"
         /\ queue # << >>
         /\ Head(queue).what \notin {"broadcast", "notification"}
         /\ queue' = Scheduled(adapter, adapter', Tail(queue))
         /\ UNCHANGED <<remote, controllerVars, outsideVars, serviceVars>>
<1>1. adapter \in AdapterFields
  BY DEF TypeOK
<1>2. CASE TellDisconnected
  <2>1. adapter' = OnDisplayDisconnected(adapter)
    BY <1>2 DEF TellDisconnected, Tell
  <2>2. /\ Reported(adapter, adapter')
        /\ adapter'.mDisplayDevice = 0
        /\ adapter'.mActiveDisplayState = "NOT_CONNECTED"
    BY <1>1, <2>1, DisconnectedReported
  <2> QED BY <1>2, <2>2 DEF TellDisconnected, Tell, Handling
<1>3. CASE TellAdvertised
  <2> DEFINE surface == Head(queue).display
             ready == IF Head(queue).old # 0 THEN OnDisplayDisconnected(adapter)
                                             ELSE OnDisplayConnecting(adapter)
  <2>1. adapter' = OnDisplayConnected(ready, surface)
    BY <1>3 DEF TellAdvertised, Tell
  <2>2. surface \in RemoteDisplays
    <3>1. Head(queue) \in Messages /\ Head(queue).what = "advertise"
      BY <1>3, HeadInQueue DEF TellAdvertised, Handling
    <3> QED BY <3>1 DEF Messages
  <2>3. Reported(adapter, ready)
    BY <1>1, DisconnectedReported, SetActiveReported DEF OnDisplayConnecting, DisplayStates
  <2> HIDE DEF ready, surface
  <2>4. ready \in AdapterFields
    BY <2>3 DEF Reported
  <2>5. /\ Reported(ready, adapter')
        /\ adapter'.mDisplayDevice = surface
        /\ adapter'.mActiveDisplayState = "CONNECTED"
    BY <2>1, <2>2, <2>4, ConnectedReported
  <2>6. Reported(adapter, adapter')
    BY <1>1, <2>3, <2>5, ReportedTransitive
  <2> QED BY <1>3, <2>2, <2>5, <2>6 DEF TellAdvertised, Tell, Handling, RemoteDisplays
<1> QED BY <1>2, <1>3

\* What scheduling leaves in the queue is a sequence of messages.
LEMMA ScheduledTyped ==
  ASSUME NEW a, NEW b, NEW rest \in Seq(Messages)
  PROVE  Scheduled(a, b, rest) \in Seq(Messages)
<1>1. ASSUME NEW condition, NEW what \in {"broadcast", "notification"}, NEW q \in Seq(Messages)
      PROVE  PostWhen(condition, what, q) \in Seq(Messages)
  BY <1>1, MessageTyped, AppendProperties DEF PostWhen
<1> QED BY <1>1 DEF Scheduled

------------------------------------------------------------------------------
(* Types *)

\* Each remote display keeps the types of a DisplaySession.
LEMMA RemoteTyped ==
  ASSUME TypeOK, NEW r, NEW step, RemoteStep(r, step)
  PROVE  remote' \in [RemoteDisplays -> RemoteState]
BY DEF RemoteStep, TypeOK

\* The initial state is in its type.
LEMMA InitTyped == Init => TypeOK
<1> SUFFICES ASSUME Init PROVE TypeOK
  OBVIOUS
<1> USE UsbDisplayAssumption DEF Init
<1>1. remote \in [RemoteDisplays -> RemoteState]
  BY DEF RemoteState
<1>2. adapter \in AdapterFields /\ lastBroadcast \in Status
  BY DEF AdapterFields, DisplayStates, Status
<1>3. queue \in Seq(Messages) /\ kills \in 0 .. MaxKills /\ disposing \in 0 .. MaxListens
      /\ mAdvertisedDisplaySurface \in 0 .. MaxListens
  OBVIOUS
<1> QED BY <1>1, <1>2, <1>3 DEF TypeOK

\* The requests of service and user keep the types.
LEMMA RequestsTyped ==
  ASSUME TypeOK, Requests
  PROVE  TypeOK'
<1> USE DEF controllerVars, outsideVars
<1>1. CASE ServiceStarts \/ ServiceStops
  <2>1. queue' \in Seq(Messages)
    BY <1>1, MessageTyped, PostTyped DEF ServiceStarts, ServiceStops
  <2> QED BY <1>1, <2>1 DEF ServiceStarts, ServiceStops, TypeOK
<1>2. CASE ServiceKilled
  <2>1. kills' \in 0 .. MaxKills
    BY <1>2, UsbDisplayAssumption DEF ServiceKilled, TypeOK
  <2> QED BY <1>2, <2>1 DEF ServiceKilled, TypeOK
<1>3. CASE NotificationTapped
  <2>1. queue' \in Seq(Messages)
    BY <1>3, MessageTyped, PostTyped DEF NotificationTapped
  <2> QED BY <1>3, <2>1 DEF NotificationTapped, serviceVars, TypeOK
<1> QED BY <1>1, <1>2, <1>3 DEF Requests

\* The steps of the remote displays keep the types.
LEMMA RemoteDisplaysTyped ==
  ASSUME TypeOK, RemoteDisplayNext
  PROVE  TypeOK'
<1> USE DEF controllerVars, outsideVars, serviceVars
<1>1. CASE MediaServerCrashes
  <2>1. remote' \in [RemoteDisplays -> RemoteState]
    BY <1>1 DEF MediaServerCrashes, TypeOK, RemoteState
  <2> QED BY <1>1, <2>1 DEF MediaServerCrashes, TypeOK
<1>2. ASSUME NEW r \in RemoteDisplays,
             RemoteConnects(r) \/ RemoteFails(r) \/ RemoteDisconnects(r) \/ RemoteAnswers(r)
      PROVE  TypeOK'
  <2>1. queue' \in Seq(Messages)
    BY <1>2, CallbackTyped, PostTyped, AppendProperties
       DEF RemoteConnects, RemoteFails, RemoteDisconnects, RemoteAnswers, TypeOK
  <2>2. PICK step : RemoteStep(r, step)
    BY <1>2 DEF RemoteConnects, RemoteFails, RemoteDisconnects, RemoteAnswers
  <2>3. remote' \in [RemoteDisplays -> RemoteState]
    BY <2>2, RemoteTyped
  <2> QED BY <2>1, <2>2, <2>3 DEF RemoteStep, TypeOK
<1> QED BY <1>1, <1>2 DEF RemoteDisplayNext

\* The message handled is a message, and the rest of the queue messages.
LEMMA HandlingTyped ==
  ASSUME TypeOK, NEW what, Handling(what)
  PROVE  /\ queue # << >>
         /\ Head(queue) \in Messages
         /\ Head(queue).what = what
         /\ Tail(queue) \in Seq(Messages)
BY HeadInQueue DEF Handling

\* The steps of the handler thread keep the types.
LEMMA HandlerTyped ==
  ASSUME TypeOK, HandlerNext
  PROVE  TypeOK'
<1> USE DEF controllerVars, outsideVars, serviceVars
<1>1. CASE RequestConnect
  <2>1. queue' \in Seq(Messages)
    BY <1>1, HandlingTyped DEF RequestConnect, Handled
  <2>2. listens' \in Nat /\ mRemoteDisplay' \in Nat /\ listening' \subseteq Nat
    BY <1>1 DEF RequestConnect, TypeOK
  <2> QED BY <1>1, <2>1, <2>2 DEF RequestConnect, TypeOK
<1>2. CASE DisconnectTapped
  <2>1. queue' \in Seq(Messages)
    BY <1>2, HandlingTyped, MessageTyped, AppendProperties DEF DisconnectTapped
  <2> QED BY <1>2, <2>1 DEF DisconnectTapped, TypeOK
<1>3. CASE NothingToDisconnect \/ TellError
  <2>1. queue' \in Seq(Messages)
    BY <1>3, HandlingTyped DEF NothingToDisconnect, TellError, Handled
  <2> QED BY <1>3, <2>1 DEF NothingToDisconnect, TellError, TypeOK
<1>4. CASE RequestDisconnect
  <2>1. PICK r \in RemoteDisplays :
          /\ disposing' = r
          /\ \/ Handled /\ UNCHANGED remote
             \/ \E next \in RemoteState :
                  /\ remote' = [remote EXCEPT ![r] = next]
                  /\ queue' = IF next.phase = remote[r].phase THEN Tail(queue)
                              ELSE Append(Tail(queue), Callback("onDisplayDisconnected", r))
    BY <1>4 DEF RequestDisconnect
  <2>2. queue' \in Seq(Messages)
    BY <1>4, <2>1, HandlingTyped, CallbackTyped, AppendProperties DEF RequestDisconnect, Handled
  <2>3. remote' \in [RemoteDisplays -> RemoteState]
    BY <2>1 DEF TypeOK
  <2>4. disposing' \in 0 .. MaxListens
    BY <2>1, UsbDisplayAssumption DEF RemoteDisplays
  <2> QED BY <1>4, <2>2, <2>3, <2>4 DEF RequestDisconnect, TypeOK
<1>5. CASE DisposeReturns
  BY <1>5, UsbDisplayAssumption DEF DisposeReturns, TypeOK
<1>6. CASE AdvertiseDisplay
  <2>1. Head(queue).display \in RemoteDisplays
    BY <1>6, HandlingTyped DEF AdvertiseDisplay, Messages
  <2>2. mAdvertisedDisplaySurface' \in 0 .. MaxListens
    BY <1>6, <2>1, UsbDisplayAssumption DEF AdvertiseDisplay, RemoteDisplays
  <2>3. [what |-> "advertise", display |-> Head(queue).display, old |-> mAdvertisedDisplaySurface]
          \in Messages
    BY <2>1 DEF Messages, TypeOK
  <2>4. queue' \in Seq(Messages)
    BY <1>6, <2>3, HandlingTyped, AppendProperties DEF AdvertiseDisplay
  <2> QED BY <1>6, <2>2, <2>4 DEF AdvertiseDisplay, TypeOK
<1>7. CASE TellAdvertised \/ TellDisconnected
  <2>1. adapter' \in AdapterFields
    BY <1>7, Told DEF Reported
  <2>2. queue' \in Seq(Messages)
    BY <1>7, Told, HeadInQueue, ScheduledTyped
  <2> QED BY <1>7, Told, <2>1, <2>2 DEF TypeOK
<1>8. CASE HandleSendStatusChangeBroadcast
  <2>1. queue' \in Seq(Messages)
    BY <1>8, HandlingTyped DEF HandleSendStatusChangeBroadcast, Handled
  <2>2. CurrentStatus \in Status
    BY DEF CurrentStatus, StatusOf, Status, TypeOK, AdapterFields
  <2>3. lastBroadcast' \in Status /\ adapter' \in AdapterFields
    BY <1>8, <2>2 DEF HandleSendStatusChangeBroadcast, TypeOK, AdapterFields
  <2> QED BY <1>8, <2>1, <2>3 DEF HandleSendStatusChangeBroadcast, TypeOK
<1>9. CASE HandleUpdateNotification
  <2>1. queue' \in Seq(Messages)
    BY <1>9, HandlingTyped DEF HandleUpdateNotification, Handled
  <2>2. adapter' \in AdapterFields
    BY <1>9 DEF HandleUpdateNotification, TypeOK, AdapterFields
  <2>3. notification' \in {"none", "CONNECTING", "CONNECTED"}
    BY <1>9 DEF HandleUpdateNotification, TypeOK, AdapterFields, DisplayStates
  <2> QED BY <1>9, <2>1, <2>2, <2>3 DEF HandleUpdateNotification, TypeOK
<1> QED BY <1>1, <1>2, <1>3, <1>4, <1>5, <1>6, <1>7, <1>8, <1>9 DEF HandlerNext

\* Every field and every message of the display service keeps its type.
THEOREM UsbTypeCorrect == Spec => []TypeOK
<1>1. TypeOK /\ UNCHANGED vars => TypeOK'
  BY DEF vars, controllerVars, outsideVars, serviceVars, TypeOK
<1>2. TypeOK /\ [Next]_vars => TypeOK'
  BY <1>1, RequestsTyped, RemoteDisplaysTyped, HandlerTyped DEF Next
<1> QED BY <1>2, InitTyped, PTL DEF Spec

------------------------------------------------------------------------------
(* The device, the cached status, the receivers and the notification *)

\* What every other step leaves alone
LEMMA AdapterKept ==
  ASSUME [Next]_vars
  PROVE  \/ TellAdvertised \/ TellDisconnected
         \/ HandleSendStatusChangeBroadcast \/ HandleUpdateNotification
         \/ UNCHANGED <<adapter, outsideVars>>
<1>1. CASE Requests
  BY <1>1 DEF Requests, ServiceStarts, ServiceStops, ServiceKilled, NotificationTapped
<1>2. CASE RemoteDisplayNext
  BY <1>2 DEF RemoteDisplayNext, RemoteConnects, RemoteFails, RemoteDisconnects, RemoteAnswers,
              RemoteStep, MediaServerCrashes
<1>3. CASE HandlerNext
  BY <1>3 DEF HandlerNext, RequestConnect, DisconnectTapped, NothingToDisconnect,
              RequestDisconnect, DisposeReturns, AdvertiseDisplay, TellError
<1>4. CASE UNCHANGED vars
  BY <1>4 DEF vars
<1> QED BY <1>1, <1>2, <1>3, <1>4 DEF Next

\* Device and status agree at the start.
LEMMA OutsideInit == Init => DeviceFollowsState /\ StatusReachesOutside
BY DEF Init, DeviceFollowsState, StatusReachesOutside, StatusOf

\* Device and status keep agreeing.
LEMMA OutsideStep ==
  ASSUME TypeOK, DeviceFollowsState, StatusReachesOutside, [Next]_vars
  PROVE  DeviceFollowsState' /\ StatusReachesOutside'
<1>1. CASE TellAdvertised \/ TellDisconnected
  <2>1. DeviceFollowsState'
    BY <1>1, Told DEF DeviceFollowsState
  <2>2. UNCHANGED <<lastBroadcast, notification>> /\ Reported(adapter, adapter')
    BY <1>1, Told DEF outsideVars
  <2>3. StatusReachesOutside'
    BY <2>2 DEF Reported, StatusReachesOutside, StatusOf
  <2> QED BY <2>1, <2>3
<1>2. CASE HandleSendStatusChangeBroadcast
  <2>1. CurrentStatus = StatusOf(adapter)
    BY DEF CurrentStatus, StatusReachesOutside
  <2>2. CASE adapter.mPendingStatusChangeBroadcast
    <3>1. /\ lastBroadcast' = StatusOf(adapter)
          /\ adapter' = [adapter EXCEPT !.mPendingStatusChangeBroadcast = FALSE,
                                        !.mCurrentStatus = StatusOf(adapter)]
          /\ notification' = notification
      BY <1>2, <2>1, <2>2 DEF HandleSendStatusChangeBroadcast
    <3> QED BY <3>1 DEF DeviceFollowsState, StatusReachesOutside, StatusOf, TypeOK, AdapterFields
  <2>3. CASE ~adapter.mPendingStatusChangeBroadcast
    BY <1>2, <2>3 DEF HandleSendStatusChangeBroadcast, DeviceFollowsState, StatusReachesOutside, StatusOf
  <2> QED BY <2>2, <2>3
<1>3. CASE HandleUpdateNotification
  BY <1>3 DEF HandleUpdateNotification, DeviceFollowsState, StatusReachesOutside, StatusOf, TypeOK,
              AdapterFields
<1>4. CASE UNCHANGED <<adapter, outsideVars>>
  BY <1>4 DEF outsideVars, DeviceFollowsState, StatusReachesOutside, StatusOf
<1> QED BY <1>1, <1>2, <1>3, <1>4, AdapterKept

\* There is a display device exactly while the active display is connected, in
\* whatever order the callbacks of any number of remote displays are handled.
THEOREM DeviceAlwaysFollowsState == Spec => []DeviceFollowsState
BY UsbTypeCorrect, OutsideInit, OutsideStep, PTL DEF Spec

\* The cached status is never stale, and receivers and notification show the
\* current state or an update is pending.
THEOREM StatusAlwaysReachesOutside == Spec => []StatusReachesOutside
BY UsbTypeCorrect, OutsideInit, OutsideStep, PTL DEF Spec

------------------------------------------------------------------------------
(* The pending flags.  That a flag means a message is not inductive: handling a *)
(* message resets the flag, so there must not be a second one.                  *)

Updates == {"broadcast", "notification"}

Holds(q, what) == \E i \in 1 .. Len(q) : q[i].what = what

Once(q, what) ==
  \A i, j \in 1 .. Len(q) : q[i].what = what /\ q[j].what = what => i = j

Pending(a, what) == IF what = "broadcast" THEN a.mPendingStatusChangeBroadcast
                                          ELSE a.mPendingNotificationUpdate

PendingOnce ==
  \A what \in Updates : (Pending(adapter, what) <=> Holds(queue, what)) /\ Once(queue, what)

\* the same updates wait in q2 as in q
SameUpdates(q, q2) ==
  \A what \in Updates : (Holds(q2, what) <=> Holds(q, what)) /\ (Once(q, what) => Once(q2, what))

\* Appending a message of another kind changes nothing for this kind.
LEMMA AppendOther ==
  ASSUME NEW q \in Seq(Messages), NEW msg \in Messages, NEW what, msg.what # what
  PROVE  /\ Holds(Append(q, msg), what) <=> Holds(q, what)
         /\ Once(q, what) => Once(Append(q, msg), what)
<1>1. /\ Len(Append(q, msg)) = Len(q) + 1
      /\ Len(q) \in Nat
      /\ \A i \in 1 .. Len(q) : Append(q, msg)[i] = q[i]
      /\ Append(q, msg)[Len(q) + 1] = msg
  BY AppendProperties, LenProperties
<1> QED BY <1>1 DEF Holds, Once

\* Appending the first message of a kind leaves exactly one.
LEMMA AppendUpdate ==
  ASSUME NEW q \in Seq(Messages), NEW msg \in Messages, NEW what, msg.what = what,
         ~Holds(q, what)
  PROVE  Holds(Append(q, msg), what) /\ Once(Append(q, msg), what)
<1>1. /\ Len(Append(q, msg)) = Len(q) + 1
      /\ Len(q) \in Nat
      /\ \A i \in 1 .. Len(q) : Append(q, msg)[i] = q[i]
      /\ Append(q, msg)[Len(q) + 1] = msg
  BY AppendProperties, LenProperties
<1> QED BY <1>1 DEF Holds, Once

\* What Tail does, index by index.
LEMMA TailFacts ==
  ASSUME NEW q \in Seq(Messages), q # << >>
  PROVE  /\ Len(q) \in Nat /\ Len(q) > 0
         /\ Len(Tail(q)) = Len(q) - 1
         /\ \A i \in 1 .. Len(Tail(q)) : Tail(q)[i] = q[i + 1]
         /\ q[1] = Head(q)
BY HeadTailProperties, EmptySeq, LenProperties

\* Taking a message of another kind changes nothing for this kind.
LEMMA TailOther ==
  ASSUME NEW q \in Seq(Messages), q # << >>, NEW what, Head(q).what # what
  PROVE  /\ Holds(Tail(q), what) <=> Holds(q, what)
         /\ Once(q, what) => Once(Tail(q), what)
<1>1. ASSUME Holds(q, what) PROVE Holds(Tail(q), what)
  <2>1. PICK i \in 1 .. Len(q) : q[i].what = what
    BY <1>1 DEF Holds
  <2>2. i # 1
    BY <2>1, TailFacts
  <2>3. i - 1 \in 1 .. Len(Tail(q)) /\ Tail(q)[i - 1] = q[i]
    BY <2>1, <2>2, TailFacts
  <2> QED BY <2>1, <2>3 DEF Holds
<1>2. ASSUME Holds(Tail(q), what) PROVE Holds(q, what)
  <2>1. PICK i \in 1 .. Len(Tail(q)) : Tail(q)[i].what = what
    BY <1>2 DEF Holds
  <2>2. i + 1 \in 1 .. Len(q) /\ q[i + 1] = Tail(q)[i]
    BY <2>1, TailFacts
  <2> QED BY <2>1, <2>2 DEF Holds
<1>3. ASSUME Once(q, what) PROVE Once(Tail(q), what)
  <2>1. SUFFICES ASSUME NEW i \in 1 .. Len(Tail(q)), NEW j \in 1 .. Len(Tail(q)),
                        Tail(q)[i].what = what, Tail(q)[j].what = what
                 PROVE  i = j
    BY DEF Once
  <2>2. /\ i + 1 \in 1 .. Len(q) /\ q[i + 1] = Tail(q)[i]
        /\ j + 1 \in 1 .. Len(q) /\ q[j + 1] = Tail(q)[j]
    BY TailFacts
  <2>3. i + 1 = j + 1
    BY <1>3, <2>1, <2>2 DEF Once
  <2> QED BY <2>3
<1> QED BY <1>1, <1>2, <1>3

\* Taking the only message of a kind leaves none.
LEMMA TailUpdate ==
  ASSUME NEW q \in Seq(Messages), q # << >>, NEW what, Head(q).what = what, Once(q, what)
  PROVE  ~Holds(Tail(q), what) /\ Once(Tail(q), what)
<1>1. ~Holds(Tail(q), what)
  <2>1. SUFFICES ASSUME NEW i \in 1 .. Len(Tail(q)), Tail(q)[i].what = what PROVE FALSE
    BY DEF Holds
  <2>2. i + 1 \in 1 .. Len(q) /\ q[i + 1].what = what /\ 1 \in 1 .. Len(q) /\ q[1].what = what
    BY <2>1, TailFacts
  <2>3. i + 1 = 1
    BY <2>2 DEF Once
  <2> QED BY <2>3
<1> QED BY <1>1 DEF Holds, Once

\* No update is pending and none is queued at the start.
LEMMA PendingInit == Init => PendingOnce
BY DEF Init, PendingOnce, Updates, Pending, Holds, Once

\* A step that takes and posts other messages only.
LEMMA OthersKeep ==
  ASSUME TypeOK, PendingOnce, UNCHANGED adapter, SameUpdates(queue, queue')
  PROVE  PendingOnce'
BY DEF PendingOnce, SameUpdates, Pending

\* Taking a message that is no update keeps the updates.
LEMMA TakenKeeps ==
  ASSUME TypeOK, queue # << >>, Head(queue).what \notin Updates
  PROVE  SameUpdates(queue, Tail(queue)) /\ Tail(queue) \in Seq(Messages)
BY HeadInQueue, TailOther DEF TypeOK, SameUpdates

\* Posting a message that is no update keeps the updates.
LEMMA PostedKeeps ==
  ASSUME NEW q \in Seq(Messages), NEW msg \in Messages, msg.what \notin Updates
  PROVE  SameUpdates(q, Append(q, msg))
BY AppendOther DEF SameUpdates

\* Two steps that keep the updates keep them together.
LEMMA SameUpdatesTransitive ==
  ASSUME NEW p, NEW q, NEW r, SameUpdates(p, q), SameUpdates(q, r)
  PROVE  SameUpdates(p, r)
BY DEF SameUpdates

\* The requests of service and user touch no update.
LEMMA RequestsKeep ==
  ASSUME TypeOK, Requests
  PROVE  SameUpdates(queue, queue') /\ UNCHANGED adapter
<1>1. ASSUME NEW what \in {"connect", "disconnect", "tapped"}, Post(Message(what))
      PROVE  SameUpdates(queue, queue')
  <2>1. Message(what) \in Messages /\ Message(what).what \notin Updates
    BY MessageTyped DEF Message, Updates
  <2> QED BY <1>1, <2>1, PostedKeeps DEF Post, TypeOK
<1>2. CASE ServiceStarts \/ ServiceStops \/ NotificationTapped
  BY <1>1, <1>2 DEF ServiceStarts, ServiceStops, NotificationTapped
<1>3. CASE ServiceKilled
  BY <1>3 DEF ServiceKilled, SameUpdates
<1> QED BY <1>2, <1>3 DEF Requests

\* The remote displays touch no update.
LEMMA RemoteDisplaysKeep ==
  ASSUME TypeOK, RemoteDisplayNext
  PROVE  SameUpdates(queue, queue') /\ UNCHANGED adapter
<1>1. ASSUME NEW what \in {"onDisplayConnected", "onDisplayDisconnected", "onDisplayError"},
             NEW r \in RemoteDisplays
      PROVE  SameUpdates(queue, Append(queue, Callback(what, r)))
  <2>1. Callback(what, r) \in Messages /\ Callback(what, r).what \notin Updates
    BY CallbackTyped DEF Callback, Updates
  <2> QED BY <2>1, PostedKeeps DEF TypeOK
<1>2. CASE MediaServerCrashes
  BY <1>2 DEF MediaServerCrashes, SameUpdates
<1>3. ASSUME NEW r \in RemoteDisplays, RemoteConnects(r) \/ RemoteFails(r) \/ RemoteDisconnects(r)
      PROVE  SameUpdates(queue, queue') /\ UNCHANGED adapter
  BY <1>1, <1>3 DEF RemoteConnects, RemoteFails, RemoteDisconnects, RemoteStep, Post
<1>4. ASSUME NEW r \in RemoteDisplays, RemoteAnswers(r)
      PROVE  SameUpdates(queue, queue') /\ UNCHANGED adapter
  BY <1>4 DEF RemoteAnswers, RemoteStep, SameUpdates
<1> QED BY <1>2, <1>3, <1>4 DEF RemoteDisplayNext

\* Nor do the handlers that tell the adapter nothing.
LEMMA HandlersKeep ==
  ASSUME TypeOK,
         \/ RequestConnect \/ DisconnectTapped \/ NothingToDisconnect \/ RequestDisconnect
         \/ DisposeReturns \/ AdvertiseDisplay \/ TellError
  PROVE  SameUpdates(queue, queue') /\ UNCHANGED adapter
<1>1. ASSUME NEW what, Handling(what), what \notin Updates
      PROVE  /\ SameUpdates(queue, Tail(queue))
             /\ \A msg \in Messages : msg.what \notin Updates =>
                  SameUpdates(queue, Append(Tail(queue), msg))
  <2>1. SameUpdates(queue, Tail(queue)) /\ Tail(queue) \in Seq(Messages)
    BY <1>1, TakenKeeps DEF Handling
  <2> QED BY <2>1, PostedKeeps, SameUpdatesTransitive
<1>2. CASE RequestConnect \/ NothingToDisconnect \/ TellError
  BY <1>1, <1>2 DEF RequestConnect, NothingToDisconnect, TellError, Handled, Updates
<1>3. CASE DisconnectTapped
  <2>1. Message("disconnect") \in Messages /\ Message("disconnect").what = "disconnect"
    BY MessageTyped DEF Message
  <2> QED BY <1>1, <1>3, <2>1 DEF DisconnectTapped, Updates
<1>4. CASE RequestDisconnect
  <2>1. PICK r \in RemoteDisplays : queue' \in {Tail(queue), Append(Tail(queue), Callback("onDisplayDisconnected", r))}
    BY <1>4 DEF RequestDisconnect, Handled
  <2>2. Callback("onDisplayDisconnected", r) \in Messages
        /\ Callback("onDisplayDisconnected", r).what \notin Updates
    BY CallbackTyped DEF Callback, Updates
  <2> QED BY <1>1, <1>4, <2>1, <2>2 DEF RequestDisconnect, Updates
<1>5. CASE DisposeReturns
  BY <1>5 DEF DisposeReturns, SameUpdates
<1>6. CASE AdvertiseDisplay
  <2> DEFINE msg == [what |-> "advertise", display |-> Head(queue).display,
                     old |-> mAdvertisedDisplaySurface]
  <2>1. msg \in Messages /\ msg.what \notin Updates
    BY <1>6, HandlingTyped DEF AdvertiseDisplay, Messages, TypeOK, Updates
  <2>2. queue' \in {Tail(queue), Append(Tail(queue), msg)} /\ UNCHANGED adapter
    BY <1>6 DEF AdvertiseDisplay
  <2> HIDE DEF msg
  <2> QED BY <1>1, <1>6, <2>1, <2>2 DEF AdvertiseDisplay, Updates
<1> QED BY <1>2, <1>3, <1>4, <1>5, <1>6

\* Scheduling posts a message for a flag that was not set, and only then.
LEMMA ScheduledPending ==
  ASSUME NEW a \in AdapterFields, NEW b \in AdapterFields, NEW q \in Seq(Messages),
         a.mPendingStatusChangeBroadcast => b.mPendingStatusChangeBroadcast,
         a.mPendingNotificationUpdate => b.mPendingNotificationUpdate,
         \A what \in Updates : (Pending(a, what) <=> Holds(q, what)) /\ Once(q, what)
  PROVE  LET q2 == Scheduled(a, b, q) IN
         \A what \in Updates : (Pending(b, what) <=> Holds(q2, what)) /\ Once(q2, what)
<1> DEFINE newBroadcast == ~a.mPendingStatusChangeBroadcast /\ b.mPendingStatusChangeBroadcast
           newNotification == ~a.mPendingNotificationUpdate /\ b.mPendingNotificationUpdate
           middle == PostWhen(newBroadcast, "broadcast", q)
           result == PostWhen(newNotification, "notification", middle)
<1>1. \A what \in Updates : Message(what) \in Messages /\ Message(what).what = what
  BY MessageTyped DEF Message, Updates
<1>2. /\ middle \in Seq(Messages)
      /\ b.mPendingStatusChangeBroadcast <=> Holds(middle, "broadcast")
      /\ Once(middle, "broadcast")
      /\ a.mPendingNotificationUpdate <=> Holds(middle, "notification")
      /\ Once(middle, "notification")
  <2>1. CASE newBroadcast
    <3>1. middle = Append(q, Message("broadcast"))
      BY <2>1 DEF PostWhen
    <3>2. /\ ~Holds(q, "broadcast")
          /\ a.mPendingNotificationUpdate <=> Holds(q, "notification")
          /\ Once(q, "notification")
      BY <2>1 DEF Updates, Pending
    <3>3. Message("broadcast") \in Messages /\ Message("broadcast").what = "broadcast"
      BY <1>1 DEF Updates
    <3>4. Holds(middle, "broadcast") /\ Once(middle, "broadcast")
      BY <3>1, <3>2, <3>3, AppendUpdate
    <3>5. /\ Holds(middle, "notification") <=> Holds(q, "notification")
          /\ Once(middle, "notification")
      <4>1. Message("broadcast").what # "notification"
        BY <3>3, "broadcast" # "notification"
      <4>2. /\ Holds(Append(q, Message("broadcast")), "notification") <=> Holds(q, "notification")
            /\ Once(q, "notification") => Once(Append(q, Message("broadcast")), "notification")
        BY <3>3, <4>1, AppendOther
      <4> HIDE DEF middle
      <4> QED BY <3>1, <3>2, <4>2
    <3>6. middle \in Seq(Messages)
      BY <3>1, <3>3, AppendProperties
    <3> QED BY <2>1, <3>2, <3>4, <3>5, <3>6
  <2>2. CASE ~newBroadcast
    <3>1. middle = q
      BY <2>2 DEF PostWhen
    <3> QED BY <2>2, <3>1 DEF Updates, Pending
  <2> QED BY <2>1, <2>2
<1> HIDE DEF middle
<1>3. /\ b.mPendingStatusChangeBroadcast <=> Holds(result, "broadcast")
      /\ Once(result, "broadcast")
      /\ b.mPendingNotificationUpdate <=> Holds(result, "notification")
      /\ Once(result, "notification")
  <2>1. CASE newNotification
    <3>1. result = Append(middle, Message("notification"))
      BY <2>1 DEF PostWhen
    <3>2. ~Holds(middle, "notification")
      BY <1>2, <2>1
    <3>3. Message("notification") \in Messages /\ Message("notification").what = "notification"
      BY <1>1 DEF Updates
    <3>4. Holds(result, "notification") /\ Once(result, "notification")
      BY <1>2, <3>1, <3>2, <3>3, AppendUpdate
    <3>5. /\ Holds(result, "broadcast") <=> Holds(middle, "broadcast")
          /\ Once(result, "broadcast")
      <4>1. Message("notification").what # "broadcast"
        BY <3>3, "broadcast" # "notification"
      <4>2. /\ Holds(Append(middle, Message("notification")), "broadcast") <=> Holds(middle, "broadcast")
            /\ Once(middle, "broadcast") => Once(Append(middle, Message("notification")), "broadcast")
        BY <1>2, <3>3, <4>1, AppendOther
      <4> HIDE DEF result
      <4> QED BY <1>2, <3>1, <4>2
    <3> QED BY <1>2, <2>1, <3>4, <3>5
  <2>2. CASE ~newNotification
    <3>1. result = middle
      BY <2>2 DEF PostWhen
    <3> QED BY <1>2, <2>2, <3>1
  <2> QED BY <2>1, <2>2
<1>4. Scheduled(a, b, q) = result
  BY DEF Scheduled, middle
<1> QED BY <1>3, <1>4 DEF Updates, Pending

\* Every step keeps flag and message together.
LEMMA PendingStep ==
  ASSUME TypeOK, PendingOnce, [Next]_vars
  PROVE  PendingOnce'
<1>1. CASE Requests
  BY <1>1, RequestsKeep, OthersKeep
<1>2. CASE RemoteDisplayNext
  BY <1>2, RemoteDisplaysKeep, OthersKeep
<1>3. CASE \/ RequestConnect \/ DisconnectTapped \/ NothingToDisconnect \/ RequestDisconnect
           \/ DisposeReturns \/ AdvertiseDisplay \/ TellError
  BY <1>3, HandlersKeep, OthersKeep
<1>4. CASE TellAdvertised \/ TellDisconnected
  <2>1. /\ Reported(adapter, adapter')
        /\ queue # << >> /\ Head(queue).what \notin Updates
        /\ queue' = Scheduled(adapter, adapter', Tail(queue))
    BY <1>4, Told DEF Updates
  <2>2. SameUpdates(queue, Tail(queue)) /\ Tail(queue) \in Seq(Messages)
    BY <2>1, TakenKeeps
  <2>3. \A what \in Updates : (Pending(adapter, what) <=> Holds(Tail(queue), what)) /\ Once(Tail(queue), what)
    BY <2>2 DEF SameUpdates, PendingOnce
  <2>4. adapter \in AdapterFields /\ adapter' \in AdapterFields
    BY <2>1 DEF Reported, TypeOK
  <2>5. /\ adapter.mPendingStatusChangeBroadcast => adapter'.mPendingStatusChangeBroadcast
        /\ adapter.mPendingNotificationUpdate => adapter'.mPendingNotificationUpdate
    BY <2>1 DEF Reported
  <2>6. \A what \in Updates : (Pending(adapter', what) <=> Holds(queue', what)) /\ Once(queue', what)
    BY <2>1, <2>2, <2>3, <2>4, <2>5, ScheduledPending
  <2> QED BY <2>6 DEF PendingOnce, Pending
<1>5. CASE HandleSendStatusChangeBroadcast
  <2>1. /\ queue \in Seq(Messages) /\ queue # << >> /\ Head(queue).what = "broadcast"
        /\ queue' = Tail(queue)
    BY <1>5 DEF HandleSendStatusChangeBroadcast, Handling, Handled, TypeOK
  <2>2. ~Holds(queue', "broadcast") /\ Once(queue', "broadcast")
    BY <2>1, TailUpdate DEF PendingOnce, Updates
  <2>3. /\ Holds(queue', "notification") <=> Holds(queue, "notification")
        /\ Once(queue', "notification")
    BY <2>1, TailOther DEF PendingOnce, Updates
  <2>4. /\ adapter'.mPendingStatusChangeBroadcast = FALSE
        /\ adapter'.mPendingNotificationUpdate = adapter.mPendingNotificationUpdate
    BY <1>5 DEF HandleSendStatusChangeBroadcast, TypeOK, AdapterFields
  <2>5. /\ ~Pending(adapter', "broadcast")
        /\ Pending(adapter', "notification") <=> Pending(adapter, "notification")
    BY Zenon, <2>4 DEF Pending
  <2>6. /\ Pending(adapter', "broadcast") <=> Holds(queue', "broadcast")
        /\ Pending(adapter', "notification") <=> Holds(queue', "notification")
    BY <2>2, <2>3, <2>5 DEF PendingOnce, Updates
  <2> QED BY <2>2, <2>3, <2>6 DEF PendingOnce, Updates, Pending
<1>6. CASE HandleUpdateNotification
  <2>1. /\ queue \in Seq(Messages) /\ queue # << >> /\ Head(queue).what = "notification"
        /\ queue' = Tail(queue)
    BY <1>6 DEF HandleUpdateNotification, Handling, Handled, TypeOK
  <2>2. ~Holds(queue', "notification") /\ Once(queue', "notification")
    BY <2>1, TailUpdate DEF PendingOnce, Updates
  <2>3. /\ Holds(queue', "broadcast") <=> Holds(queue, "broadcast")
        /\ Once(queue', "broadcast")
    BY <2>1, TailOther DEF PendingOnce, Updates
  <2>4. /\ adapter'.mPendingNotificationUpdate = FALSE
        /\ adapter'.mPendingStatusChangeBroadcast = adapter.mPendingStatusChangeBroadcast
    BY <1>6 DEF HandleUpdateNotification, TypeOK, AdapterFields
  <2>5. /\ ~Pending(adapter', "notification")
        /\ Pending(adapter', "broadcast") <=> Pending(adapter, "broadcast")
    BY Zenon, <2>4 DEF Pending
  <2>6. /\ Pending(adapter', "notification") <=> Holds(queue', "notification")
        /\ Pending(adapter', "broadcast") <=> Holds(queue', "broadcast")
    BY <2>2, <2>3, <2>5 DEF PendingOnce, Updates
  <2> QED BY <2>2, <2>3, <2>6 DEF PendingOnce, Updates, Pending
<1>7. CASE UNCHANGED vars
  BY <1>7 DEF vars, PendingOnce, Pending, Holds, Once
<1> QED BY <1>1, <1>2, <1>3, <1>4, <1>5, <1>6, <1>7 DEF Next, HandlerNext

\* A pending flag is set exactly while its message waits, exactly once, in the
\* queue: no update is ever suppressed, and none is sent twice.
THEOREM PendingIsAlwaysPosted == Spec => []PendingIsPosted
<1>1. PendingOnce => PendingIsPosted
  BY DEF PendingOnce, PendingIsPosted, Updates, Pending, Holds, Posted
<1> QED BY <1>1, UsbTypeCorrect, PendingInit, PendingStep, PTL DEF Spec
------------------------------------------------------------------------------
(* The requests in the queue *)

At(q, what) == {i \in 1 .. Len(q) : q[i].what = what}

\* The ends of the queue where a remote display is, or may be asked for.
Ends == {e \in {"front", "back"} : \/ e = "front" /\ mRemoteDisplay # 0 /\ disposing = 0
                                   \/ e = "back" /\ ~service}

Wanted(ends, q, i) ==
  \/ i = 0 /\ "front" \in ends
  \/ i \in At(q, "connect")
  \/ i = Len(q) + 1 /\ "back" \in ends

Between(ends, q) ==
  \A i, j \in 0 .. Len(q) + 1 :
    Wanted(ends, q, i) /\ Wanted(ends, q, j) /\ i < j =>
      \E k \in At(q, "disconnect") : i < k /\ k < j

\* The invariant, of ends and queue.
LEMMA BetweenIs == DisconnectedBetween <=> (kills = 0 => Between(Ends, queue))
BY DEF DisconnectedBetween, Between, Listens, Wanted, Ends, At, Posted

\* Where the messages are once one is posted.
LEMMA AtAppended ==
  ASSUME NEW q \in Seq(Messages), NEW msg \in Messages, NEW what
  PROVE  /\ Append(q, msg) \in Seq(Messages) /\ Len(Append(q, msg)) = Len(q) + 1
         /\ At(Append(q, msg), what) =
              IF msg.what = what THEN At(q, what) \cup {Len(q) + 1} ELSE At(q, what)
<1>1. /\ Append(q, msg) \in Seq(Messages) /\ Len(Append(q, msg)) = Len(q) + 1 /\ Len(q) \in Nat
      /\ \A i \in 1 .. Len(q) : Append(q, msg)[i] = q[i]
      /\ Append(q, msg)[Len(q) + 1] = msg
  BY AppendProperties, LenProperties
<1>2. 1 .. Len(q) + 1 = (1 .. Len(q)) \cup {Len(q) + 1}
  BY <1>1
<1> QED BY <1>1, <1>2 DEF At

\* Where they are once the first is taken.
LEMMA AtTail ==
  ASSUME NEW q \in Seq(Messages), q # << >>
  PROVE  /\ Tail(q) \in Seq(Messages) /\ Len(Tail(q)) = Len(q) - 1 /\ Len(q) \in Nat
         /\ \A what : \A i \in Nat : i \in At(Tail(q), what) <=> i # 0 /\ i + 1 \in At(q, what)
         /\ \A what : 1 \in At(q, what) <=> Head(q).what = what
<1>1. /\ Tail(q) \in Seq(Messages) /\ Len(Tail(q)) = Len(q) - 1 /\ Len(q) \in Nat /\ Len(q) # 0
      /\ \A i \in 1 .. Len(q) - 1 : Tail(q)[i] = q[i + 1]
      /\ Head(q) = q[1]
  BY HeadTailProperties, LenProperties, EmptySeq
<1> QED BY <1>1 DEF At

\* There are finitely many.
LEMMA AtFinite ==
  ASSUME NEW q \in Seq(Messages), NEW what
  PROVE  IsFiniteSet(At(q, what)) /\ Cardinality(At(q, what)) \in Nat
<1>1. IsFiniteSet(1 .. Len(q))
  BY FS_Interval, LenProperties
<1> QED BY <1>1, FS_Subset, FS_CardinalityType DEF At

\* Posting a request to connect adds one.
LEMMA ConnectCounted ==
  ASSUME NEW q \in Seq(Messages), NEW msg \in Messages, msg.what = "connect"
  PROVE  Cardinality(At(Append(q, msg), "connect")) = Cardinality(At(q, "connect")) + 1
<1>1. At(Append(q, msg), "connect") = At(q, "connect") \cup {Len(q) + 1}
  BY AtAppended
<1>2. Len(q) + 1 \notin At(q, "connect")
  BY LenProperties DEF At
<1> QED BY <1>1, <1>2, AtFinite, FS_AddElement

\* Taking one takes it away, and no message taken adds one.
LEMMA TailCounted ==
  ASSUME NEW q \in Seq(Messages), q # << >>
  PROVE  /\ Cardinality(At(Tail(q), "connect")) <= Cardinality(At(q, "connect"))
         /\ Head(q).what = "connect" =>
              Cardinality(At(Tail(q), "connect")) + 1 <= Cardinality(At(q, "connect"))
<1> DEFINE S == At(Tail(q), "connect")
           T == At(q, "connect") \ {1}
           shift == [i \in S |-> i + 1]
<1>1. IsFiniteSet(T) /\ Cardinality(T) \in Nat
      /\ Cardinality(At(q, "connect")) = Cardinality(T) + IF Head(q).what = "connect" THEN 1 ELSE 0
  <2>1. IsFiniteSet(At(q, "connect")) /\ Cardinality(At(q, "connect")) \in Nat
    BY AtFinite
  <2>2. IsFiniteSet(T) /\ Cardinality(T) = IF 1 \in At(q, "connect") THEN Cardinality(At(q, "connect")) - 1
                                           ELSE Cardinality(At(q, "connect"))
    BY <2>1, FS_RemoveElement
  <2>3. Cardinality(T) \in Nat
    BY <2>2, FS_CardinalityType
  <2>4. 1 \in At(q, "connect") <=> Head(q).what = "connect"
    BY AtTail
  <2> HIDE DEF T
  <2> QED BY <2>1, <2>2, <2>3, <2>4
<1>2. shift \in Injection(S, T)
  <2>1. \A i \in S : i \in Nat /\ i # 0 /\ i + 1 \in At(q, "connect")
    <3>1. \A i \in S : i \in Nat
      BY DEF At
    <3> QED BY <3>1, AtTail
  <2>2. shift \in [S -> T]
    BY <2>1
  <2>3. \A i, j \in S : shift[i] = shift[j] => i = j
    BY <2>1
  <2> QED BY <2>2, <2>3 DEF Injection, IsInjective
<1> HIDE DEF S, T, shift
<1>3. Cardinality(S) <= Cardinality(T) /\ Cardinality(S) \in Nat
  BY <1>1, <1>2, FS_Injection, FS_CardinalityType
<1> QED BY <1>1, <1>3 DEF S

\* What happens to the queue asks for nothing more.
Quieter(p, q) ==
  /\ \A ends : Between(ends, p) => Between(ends, q)
  /\ Cardinality(At(q, "connect")) <= Cardinality(At(p, "connect"))

\* Fewer ends have less between them.
LEMMA FewerEnds ==
  ASSUME NEW some, NEW all, some \subseteq all, NEW q, Between(all, q)
  PROVE  Between(some, q)
BY DEF Between, Wanted

\* A message that is no request to connect, posted
LEMMA PostQuiet ==
  ASSUME NEW q \in Seq(Messages), NEW msg \in Messages, msg.what # "connect"
  PROVE  Quieter(q, Append(q, msg))
<1> DEFINE q2 == Append(q, msg)
<1>1. /\ q2 \in Seq(Messages) /\ Len(q2) = Len(q) + 1 /\ Len(q) \in Nat
      /\ At(q2, "connect") = At(q, "connect")
      /\ At(q, "disconnect") \subseteq At(q2, "disconnect")
      /\ At(q, "connect") \subseteq 1 .. Len(q)
  BY AtAppended, LenProperties DEF At
<1> HIDE DEF q2
<1>2. ASSUME NEW ends, Between(ends, q),
             NEW i \in 0 .. Len(q2) + 1, NEW j \in 0 .. Len(q2) + 1,
             Wanted(ends, q2, i), Wanted(ends, q2, j), i < j
      PROVE  \E k \in At(q2, "disconnect") : i < k /\ k < j
  <2>1. i \in 0 .. Len(q) /\ Wanted(ends, q, i)
    BY <1>1, <1>2 DEF Wanted
  <2>2. PICK j0 \in 0 .. Len(q) + 1 : j0 <= j /\ Wanted(ends, q, j0) /\ i < j0
    <3>1. CASE j = Len(q) + 2
      <4>1. "back" \in ends
        BY <1>1, <1>2, <3>1 DEF Wanted
      <4> QED BY <1>1, <2>1, <3>1, <4>1 DEF Wanted
    <3>2. CASE j # Len(q) + 2
      BY <1>1, <1>2, <3>2 DEF Wanted
    <3> QED BY <3>1, <3>2
  <2>3. PICK k \in At(q, "disconnect") : i < k /\ k < j0
    BY <1>2, <2>1, <2>2 DEF Between
  <2>4. k \in 1 .. Len(q)
    BY DEF At
  <2> QED BY <1>1, <2>2, <2>3, <2>4
<1> QED BY <1>1, <1>2, AtFinite DEF Between, Quieter, q2

\* A request to disconnect, posted, separates what is there from what may come.
LEMMA PostDisconnect ==
  ASSUME NEW q \in Seq(Messages), NEW msg \in Messages, msg.what = "disconnect",
         NEW before, NEW after, after \subseteq before \cup {"back"}, Between(before, q)
  PROVE  Between(after, Append(q, msg))
<1> DEFINE q2 == Append(q, msg)
<1>1. /\ q2 \in Seq(Messages) /\ Len(q2) = Len(q) + 1 /\ Len(q) \in Nat
      /\ At(q2, "connect") = At(q, "connect")
      /\ At(q2, "disconnect") = At(q, "disconnect") \cup {Len(q) + 1}
      /\ At(q, "connect") \subseteq 1 .. Len(q)
  BY AtAppended, LenProperties DEF At
<1> HIDE DEF q2
<1>2. ASSUME NEW i \in 0 .. Len(q2) + 1, NEW j \in 0 .. Len(q2) + 1,
             Wanted(after, q2, i), Wanted(after, q2, j), i < j
      PROVE  \E k \in At(q2, "disconnect") : i < k /\ k < j
  <2>1. i \in 0 .. Len(q) /\ Wanted(before, q, i)
    BY <1>1, <1>2 DEF Wanted
  <2>2. CASE j = Len(q) + 2
    <3>1. Len(q) + 1 \in At(q2, "disconnect") /\ i < Len(q) + 1 /\ Len(q) + 1 < j
      BY <1>1, <2>1, <2>2
    <3> QED BY <3>1
  <2>3. CASE j # Len(q) + 2
    <3>1. Wanted(before, q, j) /\ j \in 0 .. Len(q) + 1
      BY <1>1, <1>2, <2>3 DEF Wanted
    <3> QED BY <1>1, <1>2, <2>1, <3>1 DEF Between
  <2> QED BY <2>2, <2>3
<1> QED BY <1>2 DEF Between, q2

\* A request to connect, posted when one may come
LEMMA PostConnect ==
  ASSUME NEW q \in Seq(Messages), NEW msg \in Messages, msg.what = "connect",
         NEW before, NEW after, "back" \in before, after \subseteq before \ {"back"},
         Between(before, q)
  PROVE  Between(after, Append(q, msg))
<1> DEFINE q2 == Append(q, msg)
<1>1. /\ q2 \in Seq(Messages) /\ Len(q2) = Len(q) + 1 /\ Len(q) \in Nat
      /\ At(q2, "connect") = At(q, "connect") \cup {Len(q) + 1}
      /\ At(q2, "disconnect") = At(q, "disconnect")
      /\ At(q, "connect") \subseteq 1 .. Len(q)
  <2>1. msg.what # "disconnect"
    OBVIOUS
  <2> QED BY <2>1, AtAppended, LenProperties DEF At
<1> HIDE DEF q2
<1>2. ASSUME NEW i \in 0 .. Len(q2) + 1, NEW j \in 0 .. Len(q2) + 1,
             Wanted(after, q2, i), Wanted(after, q2, j), i < j
      PROVE  \E k \in At(q2, "disconnect") : i < k /\ k < j
  <2>1. \A n \in {i, j} : n \in 0 .. Len(q) + 1 /\ Wanted(before, q, n)
    BY <1>1, <1>2 DEF Wanted
  <2> QED BY <1>1, <1>2, <2>1 DEF Between
<1> QED BY <1>2 DEF Between, q2

\* A message taken: whatever was wanted is one place nearer.
LEMMA TakeMessage ==
  ASSUME NEW q \in Seq(Messages), q # << >>,
         NEW before, NEW after,
         "front" \in after => \/ Head(q).what = "connect"
                              \/ Head(q).what # "disconnect" /\ "front" \in before,
         "back" \in after => "back" \in before,
         Between(before, q)
  PROVE  Between(after, Tail(q))
<1> DEFINE t == Tail(q)
<1>1. /\ Len(t) = Len(q) - 1 /\ Len(q) \in Nat /\ Len(q) # 0
      /\ \A what : \A i \in Nat : i \in At(t, what) <=> i # 0 /\ i + 1 \in At(q, what)
      /\ \A what : 1 \in At(q, what) <=> Head(q).what = what
      /\ \A what : At(q, what) \subseteq 1 .. Len(q)
  BY AtTail, EmptySeq, LenProperties DEF At
<1> HIDE DEF t
<1>2. ASSUME NEW i \in 0 .. Len(t) + 1, NEW j \in 0 .. Len(t) + 1,
             Wanted(after, t, i), Wanted(after, t, j), i < j
      PROVE  \E k \in At(t, "disconnect") : i < k /\ k < j
  <2>1. j + 1 \in 0 .. Len(q) + 1 /\ Wanted(before, q, j + 1)
    BY <1>1, <1>2 DEF Wanted
  <2>2. PICK i0 \in {0, i + 1} : /\ i0 \in 0 .. Len(q) + 1 /\ Wanted(before, q, i0)
                                 /\ i0 = 0 => i = 0 /\ 1 \notin At(q, "disconnect")
    BY <1>1, <1>2 DEF Wanted
  <2>3. PICK k \in At(q, "disconnect") : i0 < k /\ k < j + 1
    BY <1>2, <2>1, <2>2 DEF Between
  <2>4. k \in Nat /\ k # 1 /\ k # 0 /\ i < k - 1 /\ k - 1 < j
    BY <1>1, <2>2, <2>3
  <2>5. k - 1 \in At(t, "disconnect")
    BY <1>1, <2>3, <2>4
  <2> QED BY <2>4, <2>5
<1> QED BY <1>2 DEF Between, t

\* At the head there is no request to connect while there is a remote display.
LEMMA ConnectNotWanted ==
  ASSUME NEW q \in Seq(Messages), q # << >>, Head(q).what = "connect", NEW ends, Between(ends, q)
  PROVE  "front" \notin ends
<1>1. 1 \in At(q, "connect") /\ Len(q) \in Nat /\ Len(q) # 0
  BY AtTail, EmptySeq
<1>2. Wanted(ends, q, 1) /\ 1 \in 0 .. Len(q) + 1 /\ 0 \in 0 .. Len(q) + 1
  BY <1>1 DEF Wanted
<1>3. ~\E k \in At(q, "disconnect") : 0 < k /\ k < 1
  BY DEF At
<1> QED BY <1>2, <1>3 DEF Between, Wanted

\* A message that is no request, taken
LEMMA TakeQuiet ==
  ASSUME NEW q \in Seq(Messages), q # << >>, Head(q).what \notin {"connect", "disconnect"}
  PROVE  Quieter(q, Tail(q))
BY TakeMessage, TailCounted DEF Quieter

LEMMA QuieterTransitive ==
  ASSUME NEW p \in Seq(Messages), NEW q \in Seq(Messages), NEW r \in Seq(Messages),
         Quieter(p, q), Quieter(q, r)
  PROVE  Quieter(p, r)
BY AtFinite DEF Quieter

\* What is scheduled is no request.
LEMMA ScheduleQuiet ==
  ASSUME NEW a, NEW b, NEW q \in Seq(Messages)
  PROVE  Quieter(q, Scheduled(a, b, q))
<1>1. ASSUME NEW condition, NEW what \in {"broadcast", "notification"}, NEW p \in Seq(Messages)
      PROVE  Quieter(p, PostWhen(condition, what, p)) /\ PostWhen(condition, what, p) \in Seq(Messages)
  <2>1. Message(what) \in Messages /\ Message(what).what # "connect"
    BY MessageTyped DEF Message
  <2>2. Quieter(p, p)
    BY AtFinite DEF Quieter
  <2> QED BY <2>1, <2>2, PostQuiet, AppendProperties DEF PostWhen
<1> QED BY <1>1, QuieterTransitive DEF Scheduled

------------------------------------------------------------------------------
(* Every step, on the queue *)

\* The steps other than those that handle or post a request
LEMMA OthersQuiet ==
  ASSUME TypeOK, [Next]_vars
  PROVE  \/ ServiceStarts \/ ServiceStops \/ RequestConnect \/ NothingToDisconnect
         \/ RequestDisconnect \/ DisconnectTapped
         \/ Quieter(queue, queue')
<1>1. queue \in Seq(Messages)
  BY DEF TypeOK
<1>2. Quieter(queue, queue)
  BY <1>1, AtFinite DEF Quieter
<1>3. ASSUME NEW what, Handling(what), what \notin {"connect", "disconnect"}
      PROVE  /\ Quieter(queue, Tail(queue)) /\ Tail(queue) \in Seq(Messages)
             /\ \A msg \in Messages : msg.what # "connect" => Quieter(queue, Append(Tail(queue), msg))
  <2>1. queue # << >> /\ Head(queue).what = what /\ Tail(queue) \in Seq(Messages)
    BY <1>3, HandlingTyped
  <2>2. Quieter(queue, Tail(queue))
    BY <1>1, <1>3, <2>1, TakeQuiet
  <2>3. ASSUME NEW msg \in Messages, msg.what # "connect"
        PROVE  Quieter(queue, Append(Tail(queue), msg))
    BY <1>1, <2>1, <2>2, <2>3, PostQuiet, QuieterTransitive, AppendProperties
  <2> QED BY <2>1, <2>2, <2>3
<1>4. CASE NotificationTapped
  <2>1. Message("tapped") \in Messages /\ Message("tapped").what # "connect"
    BY MessageTyped DEF Message
  <2> QED BY <1>1, <1>4, <2>1, PostQuiet DEF NotificationTapped, Post
<1>5. CASE RemoteDisplayNext
  <2>1. ASSUME NEW what \in {"onDisplayConnected", "onDisplayDisconnected", "onDisplayError"},
               NEW r \in RemoteDisplays
        PROVE  Quieter(queue, Append(queue, Callback(what, r)))
    <3>1. Callback(what, r) \in Messages /\ Callback(what, r).what # "connect"
      BY CallbackTyped DEF Callback
    <3> QED BY <1>1, <3>1, PostQuiet
  <2> QED BY <1>2, <1>5, <2>1 DEF RemoteDisplayNext, RemoteConnects, RemoteFails,
          RemoteDisconnects, RemoteAnswers, MediaServerCrashes, Post
<1>6. CASE TellAdvertised \/ TellDisconnected
  <2>1. queue' = Scheduled(adapter, adapter', Tail(queue)) /\ Tail(queue) \in Seq(Messages)
    BY <1>6, Told, HeadInQueue
  <2>2. Quieter(queue, Tail(queue))
    BY <1>3, <1>6 DEF TellAdvertised, TellDisconnected
  <2> QED BY <1>1, <2>1, <2>2, ScheduleQuiet, ScheduledTyped, QuieterTransitive
<1>7. CASE TellError \/ HandleSendStatusChangeBroadcast \/ HandleUpdateNotification
  BY <1>3, <1>7 DEF TellError, HandleSendStatusChangeBroadcast, HandleUpdateNotification, Handled
<1>8. CASE AdvertiseDisplay
  <2> DEFINE msg == [what |-> "advertise", display |-> Head(queue).display,
                     old |-> mAdvertisedDisplaySurface]
  <2>1. msg \in Messages /\ msg.what # "connect"
    BY <1>8, HandlingTyped DEF AdvertiseDisplay, Messages, TypeOK
  <2>2. Handling("onDisplayConnected") /\ queue' \in {Tail(queue), Append(Tail(queue), msg)}
    BY <1>8 DEF AdvertiseDisplay
  <2> HIDE DEF msg
  <2> QED BY <1>3, <2>1, <2>2
<1>9. CASE ServiceKilled \/ DisposeReturns \/ UNCHANGED vars
  BY <1>2, <1>9 DEF ServiceKilled, DisposeReturns, vars
<1> QED BY <1>4, <1>5, <1>6, <1>7, <1>8, <1>9 DEF Next, Requests, HandlerNext

\* What changes the fields of the controller, and what the count of the kills
LEMMA WhoChanges ==
  ASSUME [Next]_vars
  PROVE  /\ RequestConnect \/ UNCHANGED <<listens, listening>>
         /\ RequestConnect \/ DisposeReturns \/ UNCHANGED mRemoteDisplay
         /\ RequestDisconnect \/ DisposeReturns \/ UNCHANGED disposing
         /\ ServiceStarts \/ ServiceStops \/ ServiceKilled \/ UNCHANGED service
         /\ (ServiceKilled /\ kills' = kills + 1) \/ UNCHANGED kills
BY DEF Next, vars, Requests, RemoteDisplayNext, HandlerNext, controllerVars, outsideVars,
   serviceVars, ServiceStarts, ServiceStops, ServiceKilled, NotificationTapped,
   RemoteConnects, RemoteFails, RemoteDisconnects, RemoteAnswers, RemoteStep,
   MediaServerCrashes, RequestConnect, DisconnectTapped, NothingToDisconnect, RequestDisconnect,
   DisposeReturns, AdvertiseDisplay, TellAdvertised, TellDisconnected, Tell, TellError,
   HandleSendStatusChangeBroadcast, HandleUpdateNotification

\* There is a remote display left for every request to connect, and dispose() is called
\* of mRemoteDisplay only.
ListensLeft ==
  /\ listens + Cardinality(Posted("connect")) <= MaxListens
  /\ listening \subseteq 1 .. listens
  /\ disposing # 0 => disposing = mRemoteDisplay

\* Every step leaves one for each.
LEMMA ListensLeftStep ==
  ASSUME TypeOK, ListensLeft, [Next]_vars
  PROVE  ListensLeft'
<1>1. /\ queue \in Seq(Messages) /\ listens \in Nat /\ listening \subseteq 1 .. listens
      /\ listens + Cardinality(At(queue, "connect")) <= MaxListens
      /\ Cardinality(At(queue, "connect")) \in Nat /\ MaxListens \in Nat
      /\ disposing # 0 => disposing = mRemoteDisplay
  BY AtFinite, UsbDisplayAssumption DEF TypeOK, ListensLeft, Posted, At
<1>2. queue' \in Seq(Messages) /\ Cardinality(At(queue', "connect")) \in Nat
  <2>1. TypeOK'
    BY RequestsTyped, RemoteDisplaysTyped, HandlerTyped
       DEF Next, vars, controllerVars, outsideVars, serviceVars, TypeOK
  <2> QED BY <2>1, AtFinite DEF TypeOK
<1>3. RequestConnect \/ UNCHANGED <<listens, listening>>
  BY WhoChanges
<1>4. disposing' # 0 => disposing' = mRemoteDisplay'
  <2>1. CASE RequestConnect
    BY <2>1 DEF RequestConnect, Handling
  <2>2. CASE RequestDisconnect
    BY <2>2 DEF RequestDisconnect
  <2>3. CASE DisposeReturns
    BY <2>3 DEF DisposeReturns
  <2>4. CASE UNCHANGED <<disposing, mRemoteDisplay>>
    BY <1>1, <2>4
  <2> QED BY <2>1, <2>2, <2>3, <2>4, WhoChanges
<1>5. listens' + Cardinality(At(queue', "connect")) <= MaxListens
      /\ listening' \subseteq 1 .. listens'
  <2>1. CASE RequestConnect
    <3>1. queue # << >> /\ Head(queue).what = "connect" /\ queue' = Tail(queue)
          /\ listens' = listens + 1 /\ listening' \subseteq listening \cup {listens + 1}
      BY <2>1 DEF RequestConnect, Handling, Handled
    <3>2. Cardinality(At(queue', "connect")) + 1 <= Cardinality(At(queue, "connect"))
      BY <1>1, <3>1, TailCounted
    <3> QED BY <1>1, <1>2, <3>1, <3>2
  <2>2. CASE ServiceStarts
    <3>1. /\ queue' = Append(queue, Message("connect")) /\ UNCHANGED <<listens, listening>>
          /\ listens + Cardinality(At(queue, "connect")) < MaxListens
      BY <2>2 DEF ServiceStarts, Post, controllerVars, Posted, At
    <3>2. Message("connect") \in Messages /\ Message("connect").what = "connect"
      BY MessageTyped DEF Message
    <3>3. Cardinality(At(queue', "connect")) = Cardinality(At(queue, "connect")) + 1
      BY <1>1, <3>1, <3>2, ConnectCounted
    <3> QED BY <1>1, <3>1, <3>3
  <2>3. CASE /\ ~RequestConnect
             /\ \/ ServiceStops \/ NothingToDisconnect \/ RequestDisconnect \/ DisconnectTapped
                \/ Quieter(queue, queue')
    <3>1. Cardinality(At(queue', "connect")) <= Cardinality(At(queue, "connect"))
      <4>1. CASE ServiceStops
        <5>1. Message("disconnect") \in Messages /\ Message("disconnect").what # "connect"
          BY MessageTyped DEF Message
        <5> QED BY <1>1, <4>1, <5>1, PostQuiet DEF ServiceStops, Post, Quieter
      <4>2. CASE NothingToDisconnect \/ RequestDisconnect \/ DisconnectTapped
        <5>1. queue # << >> /\ Tail(queue) \in Seq(Messages)
          BY <4>2, HandlingTyped DEF NothingToDisconnect, RequestDisconnect, DisconnectTapped
        <5>2. Cardinality(At(Tail(queue), "connect")) <= Cardinality(At(queue, "connect"))
          BY <1>1, <5>1, TailCounted
        <5>3. \/ queue' = Tail(queue)
              \/ \E msg \in Messages : msg.what # "connect" /\ queue' = Append(Tail(queue), msg)
          <6>1. Message("disconnect") \in Messages /\ Message("disconnect").what # "connect"
            BY MessageTyped DEF Message
          <6>2. \A r \in RemoteDisplays :
                  LET msg == Callback("onDisplayDisconnected", r)
                  IN  msg \in Messages /\ msg.what # "connect"
            BY CallbackTyped DEF Callback
          <6>3. CASE NothingToDisconnect \/ DisconnectTapped
            BY <6>1, <6>3 DEF NothingToDisconnect, DisconnectTapped, Handled
          <6>4. CASE RequestDisconnect
            BY <6>2, <6>4 DEF RequestDisconnect, Handled
          <6> QED BY <4>2, <6>3, <6>4
        <5>4. Cardinality(At(Tail(queue), "connect")) \in Nat
          BY <5>1, AtFinite
        <5>5. Cardinality(At(queue', "connect")) <= Cardinality(At(Tail(queue), "connect"))
          <6>1. CASE queue' = Tail(queue)
            BY <5>4, <6>1
          <6>2. ASSUME NEW msg \in Messages, msg.what # "connect", queue' = Append(Tail(queue), msg)
                PROVE  Cardinality(At(queue', "connect")) <= Cardinality(At(Tail(queue), "connect"))
            <7>1. Quieter(Tail(queue), Append(Tail(queue), msg))
              BY <5>1, <6>2, PostQuiet
            <7> QED BY <6>2, <7>1 DEF Quieter
          <6> QED BY <5>3, <6>1, <6>2
        <5> QED BY <1>1, <1>2, <5>2, <5>4, <5>5
      <4>3. CASE Quieter(queue, queue')
        BY <4>3 DEF Quieter
      <4> QED BY <2>3, <4>1, <4>2, <4>3
    <3>2. UNCHANGED <<listens, listening>>
      BY <1>3, <2>3
    <3> QED BY <1>1, <1>2, <3>1, <3>2
  <2> QED BY <2>1, <2>2, <2>3, OthersQuiet
<1> QED BY <1>4, <1>5 DEF ListensLeft, Posted, At

\* Every step keeps a request to disconnect between two remote displays.
LEMMA BetweenStep ==
  ASSUME TypeOK, DisconnectedBetween, [Next]_vars
  PROVE  DisconnectedBetween'
<1> SUFFICES ASSUME kills' = 0 PROVE Between(Ends, queue)'
  BY DEF DisconnectedBetween, Between, Listens, Wanted, Ends, At, Posted
<1>1. kills = 0 /\ ~ServiceKilled
  <2>1. kills \in Nat /\ kills + 1 # 0
    BY UsbDisplayAssumption DEF TypeOK
  <2>2. ServiceKilled => kills' = kills + 1
    BY DEF ServiceKilled
  <2> QED BY <2>1, <2>2, WhoChanges
<1>2. Between(Ends, queue) /\ queue \in Seq(Messages)
  BY <1>1, BetweenIs DEF TypeOK
<1>3. CASE ServiceStarts
  <2>1. Message("connect") \in Messages /\ Message("connect").what = "connect"
    BY MessageTyped DEF Message
  <2>2. "back" \in Ends /\ Ends' \subseteq Ends \ {"back"} /\ queue' = Append(queue, Message("connect"))
    BY <1>3 DEF ServiceStarts, Post, controllerVars, Ends
  <2>3. Between(Ends', queue')
    BY <1>2, <2>1, <2>2, PostConnect
  <2> QED BY <2>3 DEF Between, Wanted, At
<1>4. CASE ServiceStops
  <2>1. Message("disconnect") \in Messages /\ Message("disconnect").what = "disconnect"
    BY MessageTyped DEF Message
  <2>2. Ends' \subseteq Ends \cup {"back"} /\ queue' = Append(queue, Message("disconnect"))
    BY <1>4 DEF ServiceStops, Post, controllerVars, Ends
  <2>3. Between(Ends', queue')
    BY <1>2, <2>1, <2>2, PostDisconnect
  <2> QED BY <2>3 DEF Between, Wanted, At
<1>5. CASE RequestConnect
  <2>1. queue # << >> /\ Head(queue).what = "connect" /\ queue' = Tail(queue)
    BY <1>5 DEF RequestConnect, Handling, Handled
  <2>2. "back" \in Ends' => "back" \in Ends
    BY <1>5 DEF RequestConnect, serviceVars, Ends
  <2>3. Between(Ends', queue')
    BY <1>2, <2>1, <2>2, TakeMessage
  <2> QED BY <2>3 DEF Between, Wanted, At
<1>6. CASE NothingToDisconnect
  <2>1. queue # << >> /\ queue' = Tail(queue) /\ "front" \notin Ends' /\ Ends' \subseteq Ends
    BY <1>6 DEF NothingToDisconnect, Handling, Handled, controllerVars, serviceVars, Ends
  <2>2. Between(Ends', queue')
    BY <1>2, <2>1, TakeMessage
  <2> QED BY <2>2 DEF Between, Wanted, At
<1>7. CASE RequestDisconnect
  <2>1. /\ queue # << >> /\ Tail(queue) \in Seq(Messages)
        /\ "front" \notin Ends' /\ Ends' \subseteq Ends
    BY <1>7, HandlingTyped DEF RequestDisconnect, RemoteDisplays, serviceVars, Ends
  <2>2. PICK r \in RemoteDisplays :
          queue' \in {Tail(queue), Append(Tail(queue), Callback("onDisplayDisconnected", r))}
    BY <1>7 DEF RequestDisconnect, Handled
  <2>3. Between(Ends', Tail(queue))
    BY <1>2, <2>1, TakeMessage
  <2>4. Callback("onDisplayDisconnected", r) \in Messages
        /\ Callback("onDisplayDisconnected", r).what # "connect"
    BY CallbackTyped DEF Callback
  <2>5. Between(Ends', queue')
    BY <2>1, <2>2, <2>3, <2>4, PostQuiet DEF Quieter
  <2> QED BY <2>5 DEF Between, Wanted, At
<1>8. CASE DisconnectTapped
  <2>1. /\ queue # << >> /\ Tail(queue) \in Seq(Messages) /\ Head(queue).what = "tapped"
        /\ queue' = Append(Tail(queue), Message("disconnect")) /\ Ends' = Ends
    BY <1>8, HandlingTyped DEF DisconnectTapped, controllerVars, serviceVars, Ends
  <2>2. Message("disconnect") \in Messages /\ Message("disconnect").what # "connect"
    BY MessageTyped DEF Message
  <2>3. Between(Ends', Tail(queue))
    BY <1>2, <2>1, TakeMessage
  <2>4. Between(Ends', queue')
    BY <2>1, <2>2, <2>3, PostQuiet DEF Quieter
  <2> QED BY <2>4 DEF Between, Wanted, At
<1>9. CASE /\ Quieter(queue, queue')
           /\ ~(ServiceStarts \/ ServiceStops \/ RequestConnect \/ RequestDisconnect)
  <2>1. Ends' \subseteq Ends
    BY <1>1, <1>9, WhoChanges DEF DisposeReturns, Ends
  <2>2. Between(Ends', queue')
    BY <1>2, <1>9, <2>1, FewerEnds DEF Quieter
  <2> QED BY <2>2 DEF Between, Wanted, At
<1> QED BY <1>3, <1>4, <1>5, <1>6, <1>7, <1>8, <1>9, OthersQuiet

------------------------------------------------------------------------------
(* The port *)

\* No step of a remote display takes the port back.
LEMMA PortsGivenUp ==
  ASSUME TypeOK, [Next]_vars, NEW r \in RemoteDisplays, HoldsPort(r)'
  PROVE  HoldsPort(r)
<1>1. remote \in [RemoteDisplays -> RemoteState]
  BY DEF TypeOK
<1>2. ASSUME NEW s \in RemoteDisplays, NEW next \in RemoteState,
             remote' = [remote EXCEPT ![s] = next],
             \/ Remote(s)!Connected \/ Remote(s)!Fault \/ Remote(s)!Disconnected
             \/ Remote(s)!Answer \/ Remote(s)!Stop
      PROVE  HoldsPort(r)
  <2>1. remote'[s].stop = "answered" \/ remote[s].stop # "answered"
    BY <1>1, <1>2 DEF Remote!Connected, Remote!Fault, Remote!Disconnected, Remote!Answer, Remote!Stop
  <2>2. remote'[s].dead = remote[s].dead
    BY <1>1, <1>2 DEF Remote!Connected, Remote!Fault, Remote!Disconnected, Remote!Answer, Remote!Stop
  <2>3. r # s => remote'[r] = remote[r]
    BY <1>1, <1>2
  <2> QED BY <2>1, <2>2, <2>3 DEF HoldsPort
<1>3. CASE MediaServerCrashes
  <2>1. remote'[r].stop = remote[r].stop /\ (remote[r].dead => remote'[r].dead)
    BY <1>1, <1>3 DEF MediaServerCrashes, RemoteState
  <2> QED BY <2>1 DEF HoldsPort
<1>4. CASE \E s \in RemoteDisplays : \/ RemoteConnects(s) \/ RemoteFails(s)
                                     \/ RemoteDisconnects(s) \/ RemoteAnswers(s)
  BY <1>2, <1>4 DEF RemoteConnects, RemoteFails, RemoteDisconnects, RemoteAnswers, RemoteStep
<1>5. CASE RequestDisconnect
  <2>1. CASE UNCHANGED remote
    BY <2>1 DEF HoldsPort
  <2> QED BY <1>2, <1>5, <2>1 DEF RequestDisconnect
<1>6. CASE UNCHANGED remote
  BY <1>6 DEF HoldsPort
<1> QED BY <1>3, <1>4, <1>5, <1>6 DEF Next, vars, Requests, RemoteDisplayNext, HandlerNext,
        ServiceStarts, ServiceStops, ServiceKilled, NotificationTapped, RequestConnect,
        DisconnectTapped, NothingToDisconnect, DisposeReturns, AdvertiseDisplay, TellAdvertised,
        TellDisconnected, Tell, TellError, HandleSendStatusChangeBroadcast, HandleUpdateNotification

\* No step leaves a remote display behind.
LEMMA OrphanStep ==
  ASSUME TypeOK, ListensLeft, DisconnectedBetween, NoOrphanedRemoteDisplay, [Next]_vars
  PROVE  NoOrphanedRemoteDisplay'
<1> SUFFICES ASSUME kills' = 0, NEW r \in listening', HoldsPort(r)'
             PROVE  r = mRemoteDisplay'
  BY DEF NoOrphanedRemoteDisplay
<1>1. kills = 0
  <2>1. kills \in Nat /\ kills + 1 # 0
    BY UsbDisplayAssumption DEF TypeOK
  <2> QED BY <2>1, WhoChanges
<1>2. /\ listening \subseteq 1 .. listens /\ 1 .. listens \subseteq RemoteDisplays
      /\ disposing # 0 => disposing = mRemoteDisplay
  <2>1. /\ Cardinality(At(queue, "connect")) \in Nat /\ listens \in Nat
        /\ listens + Cardinality(At(queue, "connect")) <= MaxListens
    BY AtFinite DEF ListensLeft, TypeOK, Posted, At
  <2> QED BY <2>1, UsbDisplayAssumption DEF ListensLeft, RemoteDisplays
<1>3. CASE RequestConnect
  <2>1. /\ queue # << >> /\ Head(queue).what = "connect" /\ disposing = 0
        /\ listening' \subseteq listening \cup {listens + 1} /\ mRemoteDisplay' = listens + 1
    BY <1>3 DEF RequestConnect, Handling
  <2>2. mRemoteDisplay = 0
    <3>1. "front" \notin Ends
      BY <1>1, <2>1, BetweenIs, ConnectNotWanted DEF TypeOK
    <3> QED BY <2>1, <3>1 DEF Ends
  <2>3. ASSUME r \in listening PROVE FALSE
    <3>1. HoldsPort(r)
      BY <1>2, <2>3, PortsGivenUp
    <3> QED BY <1>1, <1>2, <2>2, <2>3, <3>1 DEF NoOrphanedRemoteDisplay
  <2> QED BY <2>1, <2>3
<1>4. CASE ~RequestConnect
  <2>1. UNCHANGED listening
    BY <1>4, WhoChanges
  <2>2. HoldsPort(r) /\ r = mRemoteDisplay
    BY <1>1, <1>2, <2>1, PortsGivenUp DEF NoOrphanedRemoteDisplay
  <2>3. CASE DisposeReturns
    BY <1>2, <2>2, <2>3 DEF DisposeReturns, HoldsPort
  <2>4. CASE UNCHANGED mRemoteDisplay
    BY <2>2, <2>4
  <2> QED BY <1>4, <2>3, <2>4, WhoChanges
<1> QED BY <1>3, <1>4

LEMMA PortInit == Init => ListensLeft /\ DisconnectedBetween /\ NoOrphanedRemoteDisplay
<1> SUFFICES ASSUME Init PROVE ListensLeft /\ DisconnectedBetween /\ NoOrphanedRemoteDisplay
  OBVIOUS
<1>1. queue = << >> /\ Len(queue) = 0 /\ mRemoteDisplay = 0 /\ listening = {} /\ listens = 0
      /\ disposing = 0
  BY DEF Init
<1>2. \A what : Posted(what) = {}
  BY <1>1 DEF Posted
<1>3. ListensLeft
  BY <1>1, <1>2, FS_EmptySet, UsbDisplayAssumption DEF ListensLeft
<1> QED BY <1>1, <1>2, <1>3 DEF DisconnectedBetween, Listens, NoOrphanedRemoteDisplay

\* As long as the service lives to its onDestroy, a request to disconnect comes between
\* any two remote displays (PhonetopService.onCreate and onDestroy, requestDisconnect).
THEOREM AlwaysDisconnectedBetween == Spec => []DisconnectedBetween
BY PortInit, BetweenStep, UsbTypeCorrect, PTL DEF Spec

\* requestConnect never overwrites a remote display that keeps the port: for any number
\* of starts and stops of the service, any order of requests and callbacks in the queue
\* and any conduct of the remote displays, as long as the service is not killed.
THEOREM NoRemoteDisplayOrphaned == Spec => []NoOrphanedRemoteDisplay
BY PortInit, BetweenStep, ListensLeftStep, OrphanStep, UsbTypeCorrect, PTL DEF Spec
==============================================================================
