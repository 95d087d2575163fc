\* The handshake and three monitor commands at any moment, with stop() at any moment.
CONSTANTS
  MaxSessions = 1
  MaxCSeq = 8
  MaxCommands = 3
  Faults = FALSE
  Stops = TRUE
SPECIFICATION FairSpec
INVARIANTS StagesAgree MonitorFollowsCommand Undisturbed
PROPERTY LinkGetsReady
CHECK_DEADLOCK FALSE
