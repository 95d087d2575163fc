\* The source disconnects a client whose messages are still in the looper's queue.
CONSTANTS
  MaxSessions = 1
  MaxCSeq = 8
  MaxCommands = 1
  Faults = FALSE
  Stops = TRUE
SPECIFICATION Spec
INVARIANT DisconnectedClientIsSilent
CHECK_DEADLOCK FALSE
