CONSTANTS
  Scripts = {a, b}
  External = {b}
  NoScript = NoScript
  MaxRequests = 2
  MaxEdits = 1
  MaxOutages = 1
SPECIFICATION FairSpec
INVARIANTS BusyScriptsAreOperatedOn UnloadedScriptsOwnNoControls
PROPERTIES OperationsEnd ConfigurationsEnd
