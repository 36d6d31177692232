SPECIFICATION FairSpec
CONSTANTS
  Names = {n1, n2}
  Gui = gui
  Work = work
  Timer = timer
  None = None
  GuiTasks = {"add"}
  ConnectResults = {"yes"}
  SendFails = FALSE
  WriterFirst = FALSE
  GuiBudget = 2
  Budget = 1
PROPERTIES ListenerReturns SendsReturn
CHECK_DEADLOCK FALSE
