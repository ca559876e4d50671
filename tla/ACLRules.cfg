SPECIFICATION Spec
CONSTANTS
  Command <- Commands4
  Category <- Categories4
  Members <- Members4
  Scoped <- Scoped4
  AllowedCommands = {"get"}
  DataCategories <- Data4
  FloorCommands <- Floor4
  Pattern = {"app"}
  Password = {"p1", "p2"}
  NoPw = "none"
  Prior <- Prior4
  MaxEdits = 2
  MaxApplied = 2
INVARIANTS Confined ExactlyAsDeclared
CHECK_DEADLOCK FALSE
