CONSTANTS
  Starts = {TRUE, FALSE}
  Desktops <- Alone
  Fields <- OneField
  MaxSeq = 2
  MaxEdits = 2
  MaxFaults = 1
  MaxRequeues = 2
  Synchronised = TRUE
  MidApply = TRUE
  Patient = TRUE
  Wipes = TRUE
SPECIFICATION Spec
INVARIANTS TypeOK
PROPERTIES DesktopEditsWin TextIsKept NoticesAreTrue CreatedOnce DraftsSettle
CHECK_DEADLOCK FALSE
