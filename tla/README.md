# Phonetop: verification project

Phonetop turns an Android phone into a desktop.  The phone's screen goes, as an
H.264 stream negotiated over RTSP, to a Linux computer with a monitor, keyboard
and mouse; the events of keyboard and mouse go back to the phone.  This directory
holds TLA+ modules that model the parts of the system with a protocol in them, the
TLC configurations that check them, and theorems TLAPS proves about them.

Everything is run from this directory, e.g. `tlc -workers 2 -config Link.cfg
PhonetopLink` and `tlapm MirrorSourceProofs.tla`.  `PROJECT.json` lists the runs, the
definitions with the source lines they stand for, the seeded bugs (mutants) that
show each property can fail, the hazards of the code and the findings.

Short names used below, all under `src/`:

| name | path |
|---|---|
| source | `frameworks/frameworks/av/media/libstagefright/wifi-display/source/WifiDisplaySource.cpp` |
| adapter, controller | `frameworks/frameworks/base/services/java/com/android/server/display/UsbDisplayAdapter.java`, `UsbDisplayController.java` |
| client | `phonetopclient/*.cpp` |
| app | `phonetop/src/org/secmem232/phonetop/android/` |

## 1. Inventory

### The parts and how they interact

```
 phone                                                      Linux computer
 MainActivity -bind-> PhonetopService --------- TCP 6155 --- main.cpp, InputClient
                        | connectUsbDisplay                     | START/SLEEP
                        v                                       v
 UsbDisplayAdapter/Controller --RemoteDisplay--> WifiDisplaySource --RTSP-- RtspClient
       ^                         (binder)            |    |
       '------- onDisplayConnected/Disconnected/Error'    '--> PlaybackSession, HDCP
```

| component | state it keeps | operations | hard behaviour | what makes it correct |
|---|---|---|---|---|
| Mirroring source (`WifiDisplaySource`) | `mState` (12 states), the client, its playback session, the map of response handlers, HDCP flags, pending delayed messages, the reply owed to `stop()` | start, stop, pause, resume; connection, error, 5 response handlers, 7 request handlers; reaper, keep-alive, teardown timeout, delayed finish; notifications of the playback session and of HDCP | five independent posters to one looper queue; a failed `CHECK` kills the media server; messages of a client outlive it in the queue | CHECKs hold, `stop()` is answered exactly once and after everything is gone, the media does what the RTSP state says, a silent sink is dropped, no connection leaks |
| RTSP client (`RtspClient`, `rtsp`) | a socket, the counter `RtspState` 0..8, a reader thread | connect, react to each packet by counting, write PLAY/PAUSE from the main thread | two threads write one stream; a response to anything advances the handshake; errors end the thread, the process or neither | the counter agrees with the source; the last monitor command wins |
| USB display (`UsbDisplayAdapter`, `UsbDisplayController`) | the remote display, the advertised fields, the device, active display, cached status, two pending flags | connect, disconnect, five listener callbacks, two handler messages | requests, callbacks and self-posted messages in one queue; `dispose()` blocks it | device, status, broadcast and notification agree; no display is left behind |
| Phonetop service and binder | server socket, connection, input handler, saved input method, preferences; several instances after one another | onCreate, onDestroy, the server thread, stopSelf, monitor on/off | a server thread in `accept()` against `onDestroy`, with shared fields and no lock; a kill skips `onDestroy` and Android starts a second instance; a timer thread sends SLEEP and START | what onCreate changes is changed back; sockets are closed and the event loop ends; the last switch wins |
| Input on the phone (`PhonetopInputHandler`, JNI) | current event type, uinput file | read 16 bytes, map, inject | short reads | events stay aligned |
| Input on Linux (`InputClient`, `main`) | descriptors, sleep flag, three threads | send keyboard, mouse, pipe events; close | three threads close shared descriptors; end of file on the pipe | no event after a close; whole events only |
| Hangul input method (`HangulAutomata`, `HardKeyboard`) | composition buffer and state; the text being composed | append, delete, commit; every key and callback | the editor reports its cursor late, when more keys were typed; many cases | no letter is lost, deleting undoes typing, editor and input method agree on what is being composed |
| Activity, UI handler | views, binder, preferences | switch, monitor box, restore, leave; three messages | the activity is gone while messages for it are queued; preferences survive a kill; binder calls before the service is ready | the switch shows the service; what was on when it ends is off |
| DisplayManagerService and the other patched framework files | AOSP's | four forwarding methods and a few changed lines | - | - |
| Media player (`phonetop.c` in the vendored ffmpeg) | ffplay's | plays, writes mouse events to a pipe | - | - |

Shared behind all of them: `ANetworkSession`, `ALooper`, `PlaybackSession`, the HDCP
module and `RemoteDisplay` are Android's and not in the repository; they are
modelled from how the code here uses them and marked external in the map.

### Hazards

`PROJECT.json` lists 40 of them with their lines.  The ones that shaped the models:

* messages of a client are handled after `stop()`, the reaper or an error has
  disconnected it (source 654, 1056, 1209);
* a lost client connects again while `mState` still says it is there (source 241);
* `stop()` passes through up to four waits (TEARDOWN, its timeout, the playback
  session, HDCP), and a reply must be posted once on each path;
* two chains of delayed messages re-post themselves (reaper, keep-alive): one
  missed re-post and a dead sink stays for ever;
* M4 response and HDCP notification come in either order;
* the client counts responses without looking at them;
* the adapter learns of a connection by two messages and of a disconnection by one;
* `onDestroy` of the service looks at fields the server thread is about to assign: the
  server socket, the connection, the input handler (PhonetopService 90-94, 118-129);
* a killed service never restores the input method, and its successor saves the one it
  finds as the user's;
* the boxes of the activity call a service that has no input handler yet, and messages
  outlive the activity they were posted to;
* the timer of the first start sends SLEEP and START after later uses of the box;
* a report of the editor's cursor is handled when the text it is about has changed.

## 2. Modules

| module | models | lines of the code |
|---|---|---|
| `ANetworkSession` | the network session, external: ordered streams, one notification per event, notifications that outlive their session | used by the source |
| `WifiDisplaySource` | every handler of the source | `WifiDisplaySource.cpp` 48-1780 |
| `DisplaySession` | abstract: what the display service may rely on | `IRemoteDisplayClient`, the reply to `stop()` |
| `MirrorSource` | the source with an arbitrary sink | + `MCMirrorSource` for TLC's sinks |
| `RtspClient` | the reader thread, the writes of the main thread, the process | `RtspClient.cpp`, `rtsp.cpp`, `main.cpp` |
| `PhonetopLink` | source and client composed over one `ANetworkSession`, with the monitor commands | |
| `UsbDisplay` | adapter and controller over `DisplaySession`s | both Java files, the service's two calls |
| `PhonetopService` | the instances of the service, their server threads, and the activity manager behind them | `PhonetopService.java`, the life of `PhonetopInputHandler.java` |
| `MainActivity` | switch, monitor box, binder, UI handler, timers; extends `PhonetopService` | `MainActivity.java`, `UIHandler.java`, `PhonetopServiceConnection.java`, `PhonetopServiceBinder.java` |
| `InputClient` | the process on the Linux side as the input server sees it; extends `PhonetopService` | `input.cpp`, `main.cpp` |
| `InputLink` | activity, service and Linux process composed | |
| `HangulAutomata` | the composition automaton as functions of a record | `HangulAutomata.java` |
| `HardKeyboard` | the input method, the editor and its late reports, over the automaton | `HardKeyboard.java` |
| `WifiDisplaySourceProofs` | lemmas about the handlers of the source, whatever drives it | |
| `MirrorSourceProofs`, `MirrorSourceRefinement` | theorems about `MirrorSource`: types and safety; that it implements `DisplaySession` | |
| `PhonetopLinkProofs` | theorems about `PhonetopLink`: types, safety of the source with this client, the order of the client's connections | |
| `UsbDisplayProofs` | theorems about `UsbDisplay`: what is shown outside, which remote display holds the port | |
| `InputLinkProofs`, `InputLinkSafety` | theorems about `InputLink`: types, order of the instances and the input method; the sockets, the event loop, the preference and the monitor box | |
| `HardKeyboardProofs` | theorems about `HardKeyboard`: the shape of the automaton, deleting, the letters kept, what fits is composed, the editor | |

**Composition.**  `MirrorSource` and `PhonetopLink` both EXTEND `WifiDisplaySource`;
the first adds a sink that may send anything in any order once it is the client, the
second the sink of the repository.  Properties and inductive invariants of the source are
stated in `WifiDisplaySource`, so that both compositions use them.
`MirrorSource` implements `DisplaySession` (run `source_one_sink`, theorem
`SourceImplementsSession`), and `UsbDisplay` is
built on one `DisplaySession` per remote display (`INSTANCE ... WITH`), so that the
display service is checked against whatever the source may do and not against one
instance of it.

### WifiDisplaySource

The variables keep the names of the fields.  All handlers run on one looper thread:
each is one action.  What is concurrent is who posts when; network notifications keep
their order (`inbox` is a sequence), everything else (delayed messages, notifications
of the playback session and of HDCP, calls of the display service) is delivered at any
moment.  A handler with several outcomes is several actions (`SetupRefused`,
`SetupFailed`, `SetupAccepted`, `SetupAbort`), each guarded by the conditions of its
path in the code.

* A CHECK some order of events makes fail is an action of its own that stops the
  model with `life` naming it (`ClientConnectedAbort`, `M4Abort`, `SetupAbort`,
  `M16ResponseAbort`).  The CHECKs no order makes fail are the invariant `ChecksHold`.
* A message is a record of what the control flow reads: `good` stands for a Session
  header and contents the handler accepts, `body` for a status and contents.
* Time is a nondeterministic delay: a delayed message is delivered some time after it
  was posted.  "30 seconds without a lifesign" is the flag `lifesign`, which may expire
  at any moment.
* `mNextCSeq` is bounded by `MaxCSeq`: only actions the source could repeat for ever
  on its own (`Pause`, `Resume`, `KeepAlive`) or the sink could provoke for ever are held
  back.

### RtspClient and PhonetopLink

The client is modelled by what it reads of a packet, which is little: OPTIONS,
GET_PARAMETER, SET_PARAMETER by count, and a response by nothing.  Writing to a
connection the phone has closed has three outcomes (lost, exception, SIGPIPE).  Three
pieces of it are undefined or unending in the code and modelled as such: an error
response makes `setHeader` write past an array of three strings (the process goes on
or dies); at end of stream `ReadRtspPacket` never returns (`reader = "spinning"`); an
exception in the main thread is not caught (the process dies).

`PhonetopLink` assumes delays of seconds to be longer than a round trip: a keep-alive is
sent when no message is under way, and a lifesign expires only when the client does
not answer any more.  `MirrorSource` does not assume this.

### UsbDisplay

One queue of the handler thread; requests, callbacks and the two messages the adapter
posts to itself are taken in order.  `dispose()` is two actions (`RequestDisconnect`,
`DisposeReturns`) between which the thread takes nothing.  The fields of the adapter are
one record, so that a listener callback, which runs several private methods, is a
function from record to record.  The name and address of the display are constants of
`createWifiDisplay`, which is why `onDisplayChanged` and `onDisplayConnectionFailed` are
never called and why "changed" reduces to the surface.  What is assumed of the Java
class `RemoteDisplay`: its callbacks are posted to the handler; one that is not disposed
of stays alive, and while it holds the port a second `listen` gets a display that never
connects.

### PhonetopService, MainActivity, InputClient and InputLink

An instance of the service is a record: its fields, and `thread`, how far its server
thread is.  The fields are read and written by both threads without a lock, so every
assignment of the server thread another thread can see is a step.  `onDestroy` is two
steps: it first tells the input handler, then closes what it finds in the fields
(`CloseSockets`); the server thread may run between them.

The main thread takes commands of the activity manager (`commands`, FIFO) and messages
of the UI handler (`uiMessages`, FIFO) in any interleaving: a command travels through
another process and may arrive later than a message that was posted after it.  A
binding is reported once its instance was created.  `conn` is the connection `accept()`
returns, or before that the first that waits in the backlog of the server socket;
`queued` says that the Linux side is behind that one.  Closing a connection is seen by
the other side although the phone also switches tethering off.  An activity is
destroyed before the next one is created, and starts without saved instance state.

Two history variables state conditions of properties.  `overtaken` holds the instances
whose thread took the server socket, the connection or the preference after `onDestroy`
had looked for it.  `switched` says whether the box was used since the switch with a
service to tell, and whether the last time was under a timer of a first start of that
service.

What the activity shows and what it lets the user do are two things: `screen` is the
text, `enabled` whether the boxes can be used.  CONNECTED changes both, CONNECTING only the
first, CLOSE both again.  An activity that is destroyed with a CLOSE queued still gets it:
the listener of its box then resets the saved preference (`Leave`), and that of a switch
that is on unbinds once more and throws (`LeaveFails`).  Two timers of one instance with
the same to send next are one record, so that their sends may coincide but not repeat.

An exception nobody catches ends the process: `StartFails` (streams of a connection that
is closed), `UseBoxTooEarly` and `HandleCloseFails` (no input handler yet), `LeaveFails`
(unbinding twice).  `ProcessDies` may also happen at any moment; Android then creates the
next instance of a service that was started.

### HangulAutomata and HardKeyboard

A character is the record of its parts (`cho`, `jung`, `jong`, -1 for none) instead of a
code point, which is a bijection on what `makeHangul` can return; letters keep their
code points, because the tables are about them.  The automaton is a record and each
method a function from record to record; `CHOOSE` picks from tables in which a pair or
its composition occurs once.

Of the editor the model has the text it has marked as being composed (`span`) and the
reports of its cursor that are under way.  A report only says whether the cursor was
behind the span.  Committed text is not modelled: the properties are about what is
being composed, and `LettersKept` relates what is completed to what was typed.

## 3. Runs

Deadlock is checked in `input_link` and `input_restore`, where the user can always do
something.  The other systems may stop (a source that was answered and released, a
process that is dead, a service nobody starts again, an editor whose reports are at the
bound), and their runs do not check it.

| run | bounds | what it asks |
|---|---|---|
| `source_one_sink` | 1 connection, CSeq 3, 1 queued, sink of the handshake with and without HDCP; 219 k states | `Stages`, `SetupTriggerNotLost`, `StopAnsweredOnce`, `ImplementsDisplaySession`; under fairness `StopAnswered`, `SilentSinkDropped` |
| `source_two_clients` | 2 connections, CSeq 2, 2 queued; 2.4 M | `TypeOK`, `ChecksHold`, `NoLeakedConnection`, `StopNeverUndone` |
| `source_unruly_sink` | 1 connection, CSeq 3, all methods, wrong sessions, errors and silence; 3.3 M | `MediaFollowsState`, `WatchdogArmed` |
| `link` | 1 connection, 3 commands at any time, `stop()`; 1.1 M | `StagesAgree`, `MonitorFollowsCommand`, `Undisturbed`, under fairness `LinkGetsReady` |
| `link_faults` | 2 connections, 2 commands, process ends and restarts, failed SETUP; 1.7 M | `TypeOK`, `MonitorFollowsCommand`, `ConnectionsInTurn`, `Obedience` |
| `usb_display` | 2 remote displays, queue of 2 when a request comes, 1 kill, death of the media server; 71 k | `TypeOK`, `DeviceFollowsState`, `PendingIsPosted`, `StatusReachesOutside`, `NoOrphanedRemoteDisplay`, `DisconnectedBetween`, under fairness `DisposeEnds`, `OutsideCatchesUp` |
| `hangul` | 13 letters, 2 reports under way; 26 k | `KeyboardTypeOK`, `EditorAgrees`, `DeleteUndoesAppend`, `LettersKept`, `ComposesWhatItCan` |
| `input_link` | 2 instances of the service; 2.9 M | `TypeOK`, `DestroyReleases`, `LoopIsTold`, `InputMethodRestored`, `PreferenceHasOwner`, `OnlyTimerOverridesBox` |
| `link_reconnect`, `link_disconnected`, `usb_late_connect`, `input_restore` | small | violated, see Findings |

**Why the bounds are enough.**  The source serves one client at a time and refuses the
second, so two connections give every combination (accepted, refused, lost and
followed by another).  Two queued notifications give a stale message behind the one
that makes it stale.  CSeq 3 is enough for M1, M3 and one more request under way, and
handlers that answer go on beyond the bound; the handshake to PLAYING needs no more
than what the sink sends of its own accord.  Three commands give every sequence in
which a command finds the state of the one before the last.  Two remote displays give
the old one with the new one; a third adds no relation between them.  Two instances of the service
give the old one, still in its server thread or in `onDestroy`, beside the new one, and
the restart after a kill.  The 13 letters have one of every kind the automaton tells
apart: consonants that start, end and do both, that make each kind of cluster, that can
end no syllable, and vowels that are composed as first, as second and not at all.  Two
late reports give one about a text that two keys have changed since.  The proofs of
section 5 do not depend on any bound.

**What the properties say**, beyond their comments in the modules:

* `MediaFollowsState` and `MonitorFollowsCommand` are the two halves of "the switch in the
  app decides what the monitor shows".  They depend on PAUSED being accepted for PLAY
  (a change of this repository against AOSP) and on PAUSE being ignored otherwise.
* `ConnectionsInTurn` ties the source's view of connections to the client's: whatever client
  process ended and was started again, the queue tells of its connections one after the other.
* `Obedience` says why the monitor obeys although client and source count steps by responses
  and the commands of the main thread fall anywhere into the handshake: at every state of it,
  which requests and answers are still under way, each at most once, and that the last
  command not handled is the one that counts.
* `Undisturbed` says why the client, which counts responses and looks into none, counts right
  when no command falls into the handshake: one request is under way, or its one answer, and
  the source is at the stage that belongs to it.
* `DisconnectedBetween` is what keeps `requestConnect` from overwriting a remote display that
  holds the port: it looks at the queue, where connect and disconnect wait their turn.
* `WatchdogArmed` says that neither chain of delayed messages breaks off while there is a
  sink with a playback session; with it, `SilentSinkDropped` follows from the looper alone.
* `DestroyReleases` and `LoopIsTold` are the two things a service that is gone may leave
  behind: a port no later instance can bind, and a thread that reads a closed socket for
  ever.  Both happen to the instances in `overtaken` (Findings), and to no other.
* `PreferenceHasOwner` says who may have written "connected" into the preferences when the
  activity reads them at its next start.
* `OnlyTimerOverridesBox` relates the box to what the Linux side was told last, in all cases.
  A box that says on is obeyed, or a timer is still to send START; one that was switched
  off with no timer about is obeyed; and one that was switched off under a timer is
  overridden: when the timer is done the monitor is on and the box says off, until one of
  them changes.  The last is what the code does, and nothing else does the same.
* `InputMethodRestored` says which input method the user has when no service is there: his
  own if none was ever killed, HardKeyboard if one was, since every later instance saves
  what it finds and restores that.
* `SetupTriggerNotLost` is an invariant and an action property.  The trigger is deferred only
  while HDCP is being initialized (`DeferralWaits`), and the step that ends the deferral
  sends it to the client, if there still is one (`DeferralEnds`).
* `LettersKept` and `ComposesWhatItCan` bound the automaton from both sides: it loses no
  letter, and it completes no character as long as a longer one exists.
* `StopAnswered` is what `UsbDisplayController` waits for inside `dispose()`, and the
  premise of `DisposeEnds`.

**Fairness.**  `MirrorSource!FairSpec`: weak fairness of what the looper and the modules
behind it always do, delivering the delayed messages and notifications and destroying
the playback session.  Nothing is assumed of the sink, the network or the display
service.  `PhonetopLink!FairSpec`: both ends run (start is delivered, notifications are
handled, the playback session announces itself, `main` retries the connection every
second, the reader reads).  `UsbDisplay!FairSpec`: the handler thread runs, and a
`stop()` that was called is answered, which is `StopAnswered`.  `InputLink` and `HardKeyboard`
state no fairness: what they promise is safety, and the code does not keep the one
liveness property one would ask for (the server thread of a service that is gone ends),
for the reason given under Findings.

**Mutants.**  Each property of a passing run has a mutated definition in the module it
is about, next to the definition it mutates (comment `mutant:`), with which TLC finds
the property violated: a timeout that is not posted, a reaper that does not re-post
itself, a refused connection that is not closed, a client reset to -1, a handshake
counter that skips a step.

## 4. Findings

1. `link_reconnect` (code bug).  `kWhatError` forgets the client and leaves `mState`; the
   server keeps listening.  A restarted client connects and `CHECK_EQ(mState,
   AWAITING_CLIENT_CONNECTION)` (source 241) aborts the media server.
2. `link_disconnected` (code bug).  `stop()` during the handshake disconnects the client
   while its response to M3 or its SETUP is queued; `CHECK_EQ(sessionID,
   mClientSessionID)` (654, 1209) aborts.  The reaper has the same effect on an answer to
   a keep-alive (1056).
3. `usb_late_connect` (code bug).  `onDisplayDisconnected` is told to the adapter at once,
   `onDisplayConnected` by a second message: when both callbacks are queued the adapter
   hears them in the wrong order and keeps a device for a display that is gone.

4. `input_restore` (code and comment diverge).  `restoreUI` is there to show the state of the
   service (MainActivity 93 and 239), but decides by a preference that only `onDestroy` of
   the service resets.  After a kill the screen says connected while the new instance
   still waits for its client.

The race of `onDestroy` with the server thread (the instances in `overtaken`) is the
reason for the exceptions in `DestroyReleases` and `LoopIsTold`: a server socket made or a
connection accepted after `onDestroy` had looked for it is never closed, the port stays
blocked for the next instance, and a loop that is not told spins on its closed socket.
The code says nothing about it that a run could refute.

Smaller things met while modelling the input path: between the CLOSE message and
`stopSelf()` a new activity may bind the instance that is about to stop; the boxes are
enabled by the message that precedes the input handler; an activity that leaves with a
CLOSE queued unbinds twice.  In the input method: a final consonant that can end no
syllable (as after a composed vowel, where every consonant is taken for a final one) is
not shown, and lost when another consonant follows; `switchLanguage` with a syllable
being composed leaves it marked, so that the next letter replaces it; `handleBackspace`
deletes a syllable as a whole, so that `deleteCharacter` only runs with more than one
character, where it finds an empty automaton.

Smaller things met while modelling the display: the comment at `mAdvertisedDisplay` (controller 96)
says the fields are what the adapter was told last, but `onDisplayDisconnected` does not
reset them, so a second connection is announced by one more `onDisplayDisconnected`
instead of `onDisplayConnecting`; a source whose server could not be created advances to
AWAITING_CLIENT_CONNECTION all the same.

## 5. Proofs

Checked by TLAPS: about `MirrorSource` for every number of connections, every bound,
every set of requests and every way of answering; about `PhonetopLink` for every number of
client processes, commands and messages, with and without faults; about `UsbDisplay` for every number
of remote displays, every bound on the queue and on the kills of the service; about
`InputLink` for every number of instances of the service; about `HardKeyboard` for every
set of letters of the layout and any number of late reports.

| module | theorem | states |
|---|---|---|
| `MirrorSourceProofs` | `TypeCorrect` | `Spec => []TypeOK` |
| | `StagesInvariant` | `Spec => [](TypeOK /\ Stages)`, the invariant most others rest on |
| | `ChecksNeverFail` | `Spec => []ChecksHold`: the CHECKs of `kWhatStop`, of the TEARDOWN paths and of `onPlayRequest`, and the unchecked uses of `mPlaybackSession` |
| | `StopIsAnsweredOnce` | `Spec => []StopAnsweredOnce` |
| | `StopIsNeverUndone` | `Spec => StopNeverUndone` |
| | `ConnectionsInvariant` | `Spec => []Connections`, the invariant the next three rest on |
| | `NoConnectionLeaks` | `Spec => []NoLeakedConnection` |
| | `WatchdogIsArmed` | `Spec => []WatchdogArmed` |
| | `MediaFollowsTheState` | `Spec => []MediaFollowsState` |
| `MirrorSourceRefinement` | `SourceImplementsSession` | `Spec => ImplementsDisplaySession` |
| | `SetupTriggerIsNotLost` | `Spec => SetupTriggerNotLost` |
| `PhonetopLinkProofs` | `LinkTypeCorrect` | `Spec => []TypeOK` |
| | `LinkStages`, `LinkConnections` | `Spec => [](TypeOK /\ Stages)`, `Spec => [](TypeOK /\ Connections)` |
| | `LinkSafety` | `Spec => [](ChecksHold /\ StopAnsweredOnce /\ NoLeakedConnection)` |
| | `LinkWatchdog` | `Spec => []WatchdogArmed` |
| | `LinkInTurn` | `Spec => []ConnectionsInTurn` |
| | `LinkMedia` | `Spec => []MediaFollowsState` |
| | `LinkObedience` | `Spec => []Obedience`, the invariant the next rests on |
| | `MonitorObeys` | `Spec => []MonitorFollowsCommand` |
| | `LinkUndisturbed` | `Spec /\ [][~(Faults /\ SetupFailed)]_allVars => []Undisturbed`, the invariant the next two rest on |
| | `StagesAlwaysAgree` | `Spec /\ [][~(Faults /\ SetupFailed)]_allVars => []StagesAgree` |
| | `StagesAgreeWithoutFaults` | `Spec => []StagesAgree` if `Faults = FALSE` |
| `UsbDisplayProofs` | `UsbTypeCorrect` | `Spec => []TypeOK` |
| | `DeviceAlwaysFollowsState` | `Spec => []DeviceFollowsState` |
| | `StatusAlwaysReachesOutside` | `Spec => []StatusReachesOutside` |
| | `PendingIsAlwaysPosted` | `Spec => []PendingIsPosted` |
| | `AlwaysDisconnectedBetween` | `Spec => []DisconnectedBetween` |
| | `NoRemoteDisplayOrphaned` | `Spec => []NoOrphanedRemoteDisplay` |
| `InputLinkProofs` | `LinkTypeCorrect` | `Spec => []TypeOK` |
| | `InputMethodIsRestored` | `Spec => []InputMethodRestored` |
| `InputLinkSafety` | `DestroyAlwaysReleases` | `Spec => []DestroyReleases` |
| | `LoopIsAlwaysTold` | `Spec => []LoopIsTold` |
| | `PreferenceAlwaysHasOwner` | `Spec => []PreferenceHasOwner` |
| | `OnlyTimerEverOverridesBox` | `Spec => []OnlyTimerOverridesBox` |
| `HardKeyboardProofs` | `KeyboardTypeCorrect` | `Spec => []KeyboardTypeOK`: the automaton has the shape `IsAutomaton` |
| | `EditorAlwaysAgrees` | `Spec => []EditorAgrees` |
| | `DeleteAlwaysUndoes` | `Spec => []DeleteUndoesAppend` |
| | `LettersAlwaysKept` | `Spec => []LettersKept` |
| | `AlwaysComposesWhatItCan` | `Spec => []ComposesWhatItCan` |

**Assumptions.**  Of `MirrorSource`: `MaxSessions`, `MaxCSeq`, `MaxInbox`, `MaxUnread` are naturals,
`Requests` are requests and `Answers` among the four ways of answering.  Of `PhonetopLink`:
`MaxSessions`, `MaxCSeq`, `MaxCommands` are naturals, `Faults` and `Stops` Booleans.  Of `UsbDisplay`:
its bounds are naturals and `MediaServerDies` is a Boolean.  Of `InputLink`: `MaxInstances` is
a natural.  Of `HardKeyboard`: `Letters` are letters of the two-set layout and
`MaxReports` is a natural.  TLC checks them in every run.

**The argument for the source.**  None of the safety properties is inductive: "`stop()`
is answered once" needs to know that the three waits of a stop exclude one another,
which needs to know that the playback session is destroyed only in STOPPING, which
needs to know when there is one.  The invariant `Stages` says just this, in four parts:
`PlayCheck` (a session that plays or is paused is established), `StopStages` (where a
stop is, and that it waits for one thing at a time), `SessionStages` (a playback session
exists from SETUP until it was destroyed), `DisplayStages` (what was told to the display
service).  It is checked by TLC (`source_one_sink`) and proved inductive under `TypeOK`.
The handlers that touch none of its variables are split off first (`BystandersStages`,
`SinkStages`); `finishStop`, which four handlers end in, has lemmas of its own
(`FinishStopStages`, `FinishStopState`).

What a handler does to types, stages, connections, watchdog and media does not depend on
who is at the other end.  So `WifiDisplaySourceProofs` proves it of `SourceNext` alone
(`SourceStepTyped`, `SourceStagesStep`, `SourceConnectionsStep`, `SourceWatchdogStep`,
`SourceMediaStep`), and the modules about the two compositions add the steps of their sink.

**Connections, watchdog and media.**  `NoLeakedConnection` says what the network keeps; it is
not inductive, since refusing a connection closes the one in the notification, which might be
the client's, and accepting one might take a connection that is closed.  `Connections` adds
that the client's connection is open, that identifiers are given in order, and that the first
thing the queue says of a connection is that it is there, while it is open.  The watchdog needs
it too: a keep-alive that cannot be sent is not posted again, and to an open connection it can
be sent.

`MediaFollowsState` fails if a PLAY or PAUSE of a connection that is lost is taken for one of
its successor.  The step (`SourceMediaStep`) therefore assumes `RequestIsClients`: the
request at the head of the queue is the client's.  In `MirrorSource` that is the
invariant `RequestsOfClient`.  In `PhonetopLink` a client may write before it is spoken to, and
the reason is another: `ConnectionsInTurn`.  A process makes its connection when the one
before is closed and its error is in the queue, so identifiers in the queue ascend, none is
below the client's, and between a request of a newer connection and a client that is still
the old one stands the error of the old one.  `TurnOfWrites` and `TurnOfConnect` are the
steps of the client (`ReaderDoes`, `CommandDoes` and `ConnectDoes` put its actions in
three forms); for the steps of the source it is enough that they take the head of the queue
and close connections.

**The last command wins.**  `MonitorFollowsCommand` speaks of states in which nothing is under
way; to get there one must say what is under way in all others.  `Obedience` does, for a
client that is `Healthy`.  Until the source has taken its connection it has written commands
at most (`Unheard`).  From then on, and until a teardown (`Heard`), there is a `Conversation`:

* `OpenedOnce`: the client's OPTIONS follows the source's M1 and precedes its M3, and there is
  one of each;
* `InStep`: who waits for an answer has asked, and the keep-alive, which the client would take
  for another M3 and start over, finds it in state 8;
* `PlayFollowsSetup`: no PLAY that was written before the SETUP leaves the session waiting;
* `LastOrderStands`: the last PLAY or PAUSE not handled is `Order`, what was commanded last,
  or there is none and the media do it.

The last needs the other three: a PLAY that comes before SETUP is refused, and only a client
that still is to send its own PLAY after it makes good for that.  A keep-alive to a client in
a middle state would make it count the next answers wrong.  `MediaBegins` and `ClientBegins`
say how a session and a client process start; that PLAY is accepted in PAUSED and that a PAUSE
is ignored only where nothing streams is used where the source handles them.

The proof has two sides.  A step of the client reads the head of what it was told (`ReadOne`) and
appends at most two requests; a step of the source takes the head of the queue and tells
nothing or one thing.  What such steps do to `Asked`, `Told` and `Answered` is said once
(`AskedThen`, `ToldThen`, `AskedAfter`), then each part of `Conversation` has its lemma for
each side; `HeardCases` lists the handlers a source that is heard can run.

**The client counts right.**  `StagesAgree` looks at states 7 and 8 only; that it holds there
depends on every state before.  `HandshakeInTurn` lists them: in states 2, 6 and 7 the one
request of that state is in the queue and nothing has been answered (`AsksOnly`, `~Answered`),
or the queue asks for nothing and the one answer is in the stream (`Silent`, `AnsweredOnce`);
in state 2 the client ignores the answer, and what counts is that M3 comes right behind it
(`M3Follows`); in all other states before 8 nothing is asked and nothing is answered.  Each
form names the stage the source has reached.  It needs `Conversation`, which says when M3 and
the keep-alive can be read, `FreshClient`, by which a new client's SETUP is not refused as
a second one, and `UnheardIsSilent`, by which nothing was asked before the source listened.  `TurnKept`
collects what leaves it as it is; `ReaderKeepsTurn` and `SourceKeepsTurn` have a case for each
packet and each handler.

Two conditions are in the statement because the code needs them.  A command that comes early
puts a second request into the handshake, and its refusal counts as an answer: `early`.  And
when the source cannot make the playback session it refuses the SETUP (`SetupFailed`): the client
counts the refusal, asks for PLAY and is in state 7 with a source that has no session.  TLC shows
this in 16 states when `link` runs with `Faults = TRUE`; so the theorem excludes that step,
and nothing else, from the behaviours of `Spec`.  `MonitorObeys` holds with both.

The refinement maps `display` to the phase of the session and the reply token and reply
count to its view of `stop()` (`StopSeen`).  Most handlers change none of these
(`UnseenStep`) or only report an error (`ErrorSeen`); a failing CHECK is the session's
death (`AbortSeen`).  What is left are the handlers that end in `finishStop`, and there
`Stages` gives the abstract guards: the disconnect is told once, and before the reply.

**The argument for the display.**  The callbacks are functions on the adapter's record.
`Reported(a, b)` says what such a function may do: whatever it changes of what is shown
outside, it leaves the update pending and the cached status invalid.  It is transitive
(`ReportedTransitive`) and each listener method has it, so `OutsideStep` has four cases
instead of one per path.  `PendingIsPosted` alone is not inductive: handling a message
clears the flag, and only if it was the one message of its kind is the queue free of it
afterwards.  The invariant proved is `PendingOnce`, flag if and only if message, and at
most one message.  `SameUpdates` splits off every step that posts or takes something
else; the rest are facts about `Append` and `Tail`.

That no remote display is left behind depends on the queue: connect overwrites
`mRemoteDisplay`, so between any two there must be a disconnect, wherever they wait.
`DisconnectedBetween` says it of all places at which a remote display exists or may be asked
for: the one that exists, the connects in the queue, and the service that may start next.
`Between` states it of a sequence and the two ends, and `PostQuiet`, `PostConnect`,
`PostDisconnect` and `TakeMessage` are its laws for appending and taking; a message that is
neither leaves it alone (`OthersQuiet`).  `ListensLeft` (what was listened for and is asked
for stays within the bound) makes the remote display that is stored one the model has.

**The argument for the input link.**  What happens to one instance depends on there being
at most one that was created and not destroyed, and that depends on the order of the
activity manager's commands.  `Order` says it: the queued commands alternate between
creating an instance and destroying the same one, later instances are unborn, and the
first and the last command fit the instance that is there (`FirstCommand`, `LastCommand`,
`OneCreated`).  With it, `UsersInputMethod` is inductive: the method in use
while no instance is there, and the one saved by an instance that is, are the user's until
one was killed and HardKeyboard ever after.  `Lives` collects types, `Order` and `UsersInputMethod`.

`InputLinkSafety` then looks at one instance at a time.  `Stage` says which fields a thread
that is so far has set; `Late` and `ToldToStop` what `onDestroy` has done to an instance
that was not overtaken.  `Kept(j)` is what a step leaves alone of an instance it is not
about, so that each step needs an argument for one instance only.  The preference and
the box have invariants of their own.  `Owner` says who may have written the preference.
`Box` says what the service of the binder was told: with a timer still to send START,
anything; else what the box says, or, after it was used under a timer, START.  It has to
follow the timer through both sends (`TimerBox`) and the box through every use of it, on
and off, before, between and after them (`BoxUsed`).

**The argument for the input method.**  What a letter does to the automaton is first put
in one form: it `Joins` the character in the buffer, or completes one and `Starts` the
next.  `ConsonantOutcome` and `VowelOutcome` list the ways, with the state each needs;
`Consonants` and `Vowels` show that `AppendLetter` has no other, from the tables and the
shape of the buffer.  Both the shape of what is left behind (`AppendShape`) and what
`deleteCharacter` makes of it (`ConsonantUndone`, `VowelUndone`) follow from the list
alone.  The outcomes also name what is completed, so `LettersKept` is a comparison of two
short sequences for each of them, with `decode` of a composed part given by `LettersOf`.
`ComposesWhatItCan` is the other direction: vowels are no consonants, so keys with a vowel
in them split into the three parts of a character in one way only (`KeysAreTold`), and a
character that has the new letter tells where it goes.  `TakesConsonant` and `TakesVowel`
name the states this leaves (`ConsonantFits`, `VowelFits`), and in these `AppendLetter`
completes nothing (`ConsonantTaken`, `VowelTaken`) and hides nothing.
`EditorAgrees` is not inductive, as it says nothing while reports are under way:
`Composing` (what the automaton works on is all that is composed) and `Marked` (where
editor and input method differ, a report that ends the composition is still to come)
are.

**Only model-checked.**  Liveness and fairness (`StopAnswered`, `SilentSinkDropped`,
`LinkGetsReady`, `DisposeEnds`, `OutsideCatchesUp`), which the prover does not reach.
Everything else the passing runs check, invariants, action properties and the refinement, is
stated by a theorem.

## 6. Not modelled, and why

* `PlaybackSession` and the media path: not in the repository, or pure data.
* The parsing of RTSP texts and of the M3 body: reduced to the outcomes the control
  flow tells apart.
* `kWhatBinaryData`: forwards interleaved media, changes no state of the source.
* DisplayManagerService and the patched framework files: forwarding code in copies
  of AOSP files.
* rename/forget and resume of the USB display: no caller reaches them.
* The sender threads of the Linux side and their closing of shared descriptors, the
  framing and mapping of input events, the uinput device: they copy bytes, and what can
  go wrong there (short reads, end of file on the pipe) is listed under hazards with the
  reason why no property is asked.
* The boxes of mouse and keyboard, which repeat the monitor's; tethering and rotation,
  which run shell commands or write a file.
* Caps lock, dead keys and shift states of the keyboard; `setBuffer`, `encode` and
  `countCharacter`, which have no caller.
* The preference screens, the pointer view, the shell commands, ffplay.

Nearly all of the 907 000 lines under `src/` are the vendored ffmpeg of the Linux side and
copies of AOSP files.  The program's own code (the app, the client and the display files that are not
AOSP's) is some 8 000 lines, a third of them user interface and tables; what keeps state
there and is not listed here is in the map.  The share of all of `src/` the map covers
says nothing about this and stays below one per cent.

## 7. Plan

Done, in this order: `ANetworkSession`, `WifiDisplaySource`, `DisplaySession`,
`MirrorSource` and its proofs, `RtspClient`, `PhonetopLink`, `UsbDisplay` and its proofs,
`HangulAutomata` and `HardKeyboard` and their proofs, `PhonetopService`, `MainActivity`,
`InputClient`, `InputLink` and its proofs.

What is left is what the prover does not reach, the liveness properties of section 5, and the
hazards without a property, each listed in `PROJECT.json` with the reason.
