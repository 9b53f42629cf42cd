CONSTANTS
  Processes = {"p1"}
  Directories = {"home", "other"}
  HomeDirectory = "home"
  Files = {{"a", "A"}}
  Values = {"plain", "tuned"}
  Factory = "plain"
  OldFormats = {"v20"}
  MaxDeliveries = 1
  MaxCrashes = 1
SPECIFICATION Spec
INVARIANTS TypeOK MemoryMatchesPreferences
PROPERTIES OutcomesAreTrue UpgradesAreBackedUp
CHECK_DEADLOCK FALSE
