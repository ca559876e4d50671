SPECIFICATION FairSpec
CONSTANTS
  r1 = r1
  r2 = r2
  s1 = s1
  s2 = s2
  A = A
  B = B
  C = C
  NoPass = NoPass
  Invalid = Invalid
  Missing = Missing
  Redis = {r1}
  Sentinels = {s1}
  Passwords = {A, B, C}
  InitialPw = A
  Fresh = TRUE
  MaxVersion = 3
  MaxFaults = 1
PROPERTY RotationConverges
INVARIANTS TypeOK LinksUp OldPasswordRevoked NoStampAheadOfPush
