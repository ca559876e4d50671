SPECIFICATION Spec
CONSTANTS
  c1 = c1
  c2 = c2
  r1 = r1
  r2 = r2
  s1 = s1
  s2 = s2
  Old = Old
  Lost = Lost
  None = None
  Redis = {r1, r2}
  Sentinels = {s1}
  Restores = {c1}
  Populated = {Old, c1}
  Quorum = 1
  Forced = {1}
  Timeout = 1
  MaxGen = 1
  MaxFailovers = 0
  MaxFaults = 0
INVARIANT QuiesceHeld
