\* The client process ends and is started again, a playback session fails.
CONSTANTS
  MaxSessions = 2
  MaxCSeq = 8
  MaxCommands = 2
  Faults = TRUE
  Stops = TRUE
SPECIFICATION Spec
INVARIANTS TypeOK MonitorFollowsCommand ConnectionsInTurn Obedience
CHECK_DEADLOCK FALSE
