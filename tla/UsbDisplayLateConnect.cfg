\* A display gets connected while it is disconnected.
CONSTANTS
  MaxListens = 1
  MaxQueue = 3
  MaxKills = 0
  MediaServerDies = FALSE
SPECIFICATION Spec
INVARIANT DisconnectRemovesDisplay
CHECK_DEADLOCK FALSE
