CONSTANTS
  Paths <- MCPaths
  LowPath = "low"
  HighPath = "high"
  Gated = {"gated"}
  Values <- MCValues
  Minimum <- MCMinimum
  Maximum <- MCMaximum
  Initial <- MCInitial
  MaxWrites = 3
  Menus = {m1, m2, m3}
  NoMenu = NoMenu
  Cheating = {m3}
  MaxToggles = 3
  MaxFailures = 2
SPECIFICATION FairSumSpec
INVARIANTS NoWriteIsLost PresetsStayOrdered SettledReadsAreFresh OriginalIsTheGames OffMeansOff
PROPERTIES NoWriteWhileUnavailable EveryWriteIsServed EnabledTakesEffect DisabledRestores
CHECK_DEADLOCK FALSE
