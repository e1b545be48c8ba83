CONSTANTS
  Entries = {e1}
  Retention = 4
  MaxAdvance = 1
  MaxSkew = 1
  Start = 8
  End = 12
  Offsets <- Wrong
  PeerStamps <- OldAndNew
SPECIFICATION FairSpec
INVARIANT TypeOK
PROPERTIES LocalTrashIsKept RightClocksKeepAll DueIsSwept
