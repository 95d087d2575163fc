\* The client process ends and is started again.
CONSTANTS
  MaxSessions = 2
  MaxCSeq = 8
  MaxCommands = 1
  Faults = TRUE
  Stops = FALSE
SPECIFICATION Spec
INVARIANT ClientMayReconnect
CHECK_DEADLOCK FALSE
