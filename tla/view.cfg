SPECIFICATION Spec
CONSTANTS
  Dialogs = {d1, d2, d3}
  NoDialog = NoDialog
  Gui = gui
  Work = work
  Channel = channel
  Budget = 6
INVARIANTS TypeOK RowsFollowMessages TextStoredWhereSent ActiveFollowsSelection NothingMissed
SYMMETRY DialogSymmetry
CHECK_DEADLOCK FALSE
