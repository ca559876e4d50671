SPECIFICATION FairSpec
CONSTANTS
  c1 = c1
  u1 = u1
  admin = admin
  None = None
  Users = {c1}
  Names = {admin, u1}
  Default = admin
  Size = 2
  HandMade <- Handmade
  HandWritten = {}
  MaxVersion = 2
  MaxFaults = 1
INVARIANTS TypeOK OrphanIsRecorded ReadyIsSaved
PROPERTIES HandMadeSpared AccountsSettle
CHECK_DEADLOCK FALSE
