\* The service is killed once, the media server dies, the button is pressed.
CONSTANTS
  MaxListens = 2
  MaxQueue = 2
  MaxKills = 1
  MediaServerDies = TRUE
SPECIFICATION FairSpec
INVARIANTS TypeOK DeviceFollowsState PendingIsPosted StatusReachesOutside NoOrphanedRemoteDisplay
  DisconnectedBetween
PROPERTIES DisposeEnds OutsideCatchesUp
CHECK_DEADLOCK FALSE
