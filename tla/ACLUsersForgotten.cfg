SPECIFICATION Spec
CONSTANTS
  c1 = c1
  u1 = u1
  admin = admin
  None = None
  Users = {c1}
  Names = {admin, u1}
  Default = admin
  Size = 1
  HandMade = {}
  HandWritten = {admin}
  MaxVersion = 2
  MaxFaults = 1
PROPERTY ForgottenWhenPersisted
CHECK_DEADLOCK FALSE
