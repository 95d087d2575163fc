\* A sink that sends anything at any moment and answers with errors or not at all.
CONSTANTS
  MaxSessions = 1
  MaxCSeq = 3
  MaxInbox = 1
  MaxUnread = 1
  Requests <- UnrulySink
  Answers = {"plain", "hdcp", "error", "ignore"}
SPECIFICATION Spec
INVARIANTS MediaFollowsState WatchdogArmed
CHECK_DEADLOCK FALSE
