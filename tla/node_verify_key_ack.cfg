SPECIFICATION Spec
CONSTANTS
  Dialogs = {d1}
  NoDialog = NoDialog
  UserOps = {}
  PeerActions = {"CREATE_DIALOG"}
  Faults = {}
  Overlap = FALSE
  MaxSeq = 2
  MaxPeerSeq = 1
  UlongMax = 9
INVARIANTS VerifyKeyConfirmationSurvives
CHECK_DEADLOCK FALSE
