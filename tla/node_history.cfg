SPECIFICATION HistorySpec
CONSTANTS
  Dialogs = {d1}
  NoDialog = NoDialog
  UserOps = {"create", "close", "remove", "text", "contact"}
  PeerActions <- Action
  Faults <- AllFaults
  Overlap = TRUE
  MaxSeq = 2
  MaxPeerSeq = 1
  UlongMax = 9
INVARIANTS TypeOK FreshSnapshotsFit HandlerGuardsOwnMessage
PROPERTIES StatusFollowsMachine CountersNeverFall SendsOnlyWhatStatusAllows
CHECK_DEADLOCK FALSE
