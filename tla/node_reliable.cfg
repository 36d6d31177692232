SPECIFICATION FairSpec
CONSTANTS
  Dialogs = {d1}
  NoDialog = NoDialog
  UserOps <- AllOps
  PeerActions <- Action
  Faults = {}
  Overlap = FALSE
  MaxSeq = 3
  MaxPeerSeq = 3
  UlongMax = 9
PROPERTIES FirstRequestResolves ImplementsSerial
CHECK_DEADLOCK FALSE
