SPECIFICATION Spec
CONSTANTS
  Names = {n1, n2}
  Gui = gui
  Work = work
  Timer = timer
  None = None
  GuiTasks <- AllTasks
  ConnectResults <- AllResults
  SendFails = TRUE
  WriterFirst = FALSE
  GuiBudget = 3
  Budget = 1
INVARIANTS TypeOK UsesOpenChannel OneInAdapter ThreadLivesWithChannel OnlyRemovalDeadlocks
CHECK_DEADLOCK FALSE
