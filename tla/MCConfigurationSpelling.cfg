CONSTANTS
  Processes = {"p1"}
  Directories = {"home"}
  HomeDirectory = "home"
  Files = {{"a", "A"}}
  Values = {"plain"}
  Factory = "plain"
  OldFormats = {"v20"}
  MaxDeliveries = 0
  MaxCrashes = 0
SPECIFICATION Spec
INVARIANT DeletedDefaultIsCleared
CHECK_DEADLOCK FALSE
