--------------------------- MODULE DisplaySession ---------------------------
(***************************************************************************)
(* What the display service may rely on when it listens for a remote       *)
(* display (IRemoteDisplayClient and the reply to stop()): the display is  *)
(* announced at most once and only before it is reported gone; it is       *)
(* reported gone only after stop() was called, and exactly once; stop() is *)
(* answered once, and only after that report.  Errors are reported at any  *)
(* time before the answer or after it, and change nothing else.  The       *)
(* process that runs the session may die at any moment.                    *)
(***************************************************************************)

VARIABLES
  phase,      \* "none", "connected", "disconnected": the callbacks so far
  stop,       \* "no", "called", "answered"
  fault,      \* an error was reported
  dead        \* the process died

vars == <<phase, stop, fault, dead>>

TypeOK ==
  /\ phase \in {"none", "connected", "disconnected"}
  /\ stop \in {"no", "called", "answered"}
  /\ fault \in BOOLEAN
  /\ dead \in BOOLEAN

Init == phase = "none" /\ stop = "no" /\ fault = FALSE /\ dead = FALSE

Connected ==
  /\ ~dead
  /\ phase = "none" /\ phase' = "connected"
  /\ stop # "answered"
  /\ UNCHANGED <<stop, fault, dead>>

Fault ==
  /\ ~dead
  /\ fault' = TRUE
  /\ UNCHANGED <<phase, stop, dead>>

\* stop() is called; with no playback session to wind down the report and even
\* the answer follow in the same step.
Stop ==
  /\ ~dead
  /\ stop = "no"
  /\ \/ stop' = "called" /\ phase' \in {phase, "disconnected"}
     \/ stop' = "answered" /\ phase' = "disconnected"
  /\ UNCHANGED <<fault, dead>>

Disconnected ==
  /\ ~dead
  /\ stop = "called"
  /\ phase # "disconnected" /\ phase' = "disconnected"
  /\ stop' \in {"called", "answered"}
  /\ UNCHANGED <<fault, dead>>

Answer ==
  /\ ~dead
  /\ stop = "called" /\ phase = "disconnected"
  /\ stop' = "answered"
  /\ UNCHANGED <<phase, fault, dead>>

Die == ~dead /\ dead' = TRUE /\ UNCHANGED <<phase, stop, fault>>

Next == Connected \/ Fault \/ Stop \/ Disconnected \/ Answer \/ Die

Spec == Init /\ [][Next]_vars
==============================================================================
