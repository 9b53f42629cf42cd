CONSTANTS
  Processes = {p, q}
  Copies = {c1, c2, d}
  Home <- Spread
  NoCopy = NoCopy
  MaxExits = 2
SPECIFICATION FairSpec
INVARIANTS OneInstancePerProcess AnsweredJarsAreWhole TemporaryFilesAreExclusive
PROPERTIES WholeJarStays MarkersAreUsedOrReturned
CHECK_DEADLOCK FALSE
