SPECIFICATION FairSpec
CONSTANTS
  p1 = p1
  p2 = p2
  NoPod = NoPod
  Pods = {p1}
  Specs <- ManySpecs
  MaxRuns = 4
  MaxWrites = 1
  MaxSlots = 2
  MaxEdits = 1
  MaxFaults = 1
INVARIANTS TypeOK SnapshotIsNew NoAbandonedUpload CountDescribesLocation
PROPERTIES NoHotLoop ImplementsCatalog DueIsTaken
CHECK_DEADLOCK FALSE
