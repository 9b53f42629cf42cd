CONSTANTS
  Processes = {"p1"}
  Directories = {"home"}
  HomeDirectory = "home"
  Files = {{"a"}}
  Values = {"plain", "tuned"}
  Factory = "plain"
  OldFormats = {"v20"}
  MaxDeliveries = 1
  MaxCrashes = 0
SPECIFICATION Spec
PROPERTY UpgradeKeepsOriginal
CHECK_DEADLOCK FALSE
