\* A sink that goes through the handshake, with and without content protection.
CONSTANTS
  MaxSessions = 1
  MaxCSeq = 3
  MaxInbox = 1
  MaxUnread = 1
  Requests <- PlayingSink
  Answers = {"plain", "hdcp"}
SPECIFICATION FairSpec
INVARIANTS Stages StopAnsweredOnce
PROPERTIES SetupTriggerNotLost ImplementsDisplaySession StopAnswered SilentSinkDropped
CHECK_DEADLOCK FALSE
