\* Two connections, one after or beside the other, and notifications of both queued.
CONSTANTS
  MaxSessions = 2
  MaxCSeq = 2
  MaxInbox = 2
  MaxUnread = 1
  Requests <- PlayingSink
  Answers = {"plain"}
SPECIFICATION Spec
INVARIANTS TypeOK ChecksHold NoLeakedConnection
PROPERTY StopNeverUndone
CHECK_DEADLOCK FALSE
