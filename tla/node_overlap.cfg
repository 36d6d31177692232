SPECIFICATION FairSpec
CONSTANTS
  Dialogs = {d1}
  NoDialog = NoDialog
  UserOps = {"create", "close", "contact"}
  PeerActions = {"CREATE_DIALOG", "VERIFY_KEY"}
  Faults = {"restart"}
  Overlap = TRUE
  MaxSeq = 2
  MaxPeerSeq = 2
  UlongMax = 9
PROPERTIES OperationsFinish PendingResolved
CHECK_DEADLOCK FALSE
