CONSTANTS
  Processes = {"p1", "p2"}
  Directories = {"home"}
  HomeDirectory = "home"
  Files = {{"a"}}
  Values = {"plain"}
  Factory = "plain"
  OldFormats = {"v20"}
  MaxDeliveries = 1
  MaxCrashes = 1
SPECIFICATION Spec
INVARIANT NoTornConfiguration
PROPERTIES DamagedFilesAreKept BackupsAreKept
CHECK_DEADLOCK FALSE
