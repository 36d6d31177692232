SPECIFICATION Spec
CONSTANTS
  Dialogs = {d1}
  NoDialog = NoDialog
  UserOps = {"create"}
  PeerActions = {"VERIFY_KEY", "ACCEPT_DIALOG", "MESSAGE"}
  Faults = {}
  Overlap = FALSE
  MaxSeq = 3
  MaxPeerSeq = 3
  UlongMax = 9
INVARIANTS TextShownOnce
CHECK_DEADLOCK FALSE
