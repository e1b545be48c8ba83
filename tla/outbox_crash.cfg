CONSTANTS
  Starts = {TRUE}
  Desktops <- Alone
  Fields <- OneField
  MaxSeq = 2
  MaxEdits = 1
  MaxFaults = 1
  MaxRequeues = 1
  Synchronised = TRUE
  MidApply = TRUE
  Patient = FALSE
  Wipes = FALSE
SPECIFICATION Spec
PROPERTIES DesktopEditsWin
CHECK_DEADLOCK FALSE
