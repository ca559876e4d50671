SPECIFICATION FairSpec
CONSTANTS
  s1 = s1
  s2 = s2
  Size = 2
  MinSize = 1
  Sentinels = {s1, s2}
  Quorum = 1
  MaxAddr = 3
  MaxEdits = 1
  MaxFaults = 1
INVARIANTS TypeOK OneWriteEndpoint
PROPERTIES MasterIsSpared ScaleDownSparesMaster RoutingConverges
