CONSTANTS
  Interval = 2
  Debounce = 1
  Base = 3
  MaxBackoff = 4
  Cooldown = 3
  Gap = 1
  Steps <- TicksAndNaps
  OnSave = TRUE
  OnLaunch = TRUE
  Cap = 3
  MaxFaults = 2
  MaxSetBacks = 0
  MaxOthers = 1
SPECIFICATION FairSpec
INVARIANTS
  TypeOK
  SyncNowUnblocks
PROPERTIES
  NoChurn
  PendingGoesOut
