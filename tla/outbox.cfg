CONSTANTS
  Starts = {FALSE}
  Desktops <- Pair
  Fields <- OneField
  MaxSeq = 2
  MaxEdits = 1
  MaxFaults = 0
  MaxRequeues = 1
  Synchronised = TRUE
  MidApply = FALSE
  Patient = FALSE
  Wipes = FALSE
SPECIFICATION Spec
PROPERTIES DesktopEditsWin
CHECK_DEADLOCK FALSE
