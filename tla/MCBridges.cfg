CONSTANTS
  w1 = w1
  Players = {p1, p2}
  NoPlayer = NoPlayer
  MaxFaults = 2
  MaxRequests = 4
  Hands = {h1, h2}
  Weapons = {w1, w2}
  NoWeapon = NoWeapon
  Capacity <- MCCapacity
  Environments = {e1, e2}
  OwnWeight = 2
  Factors = {2, 3}
  MaxWeight = 8
  Top = 2
  Blocking = {TRUE, FALSE}
  Persons = {p1}
  Places = {h1, h2}
  Things = {h1}
  Medicines = {w1, w2}
  Shaders = {w1, w2}
  Windows = {e1, e2}
  FewFaults = 1
  SomeRequests = 3
  FewRequests = 2
  MaxTexts = 3
  MaxQuantity = 2
  MaxItems = 3
  MaxKinds = 2
SPECIFICATION Spec
INVARIANTS BridgesTypeOK OriginalsAreTheGames OffMeansRestored ServerIsTold BooksAreRight DeliveriesAreTrue
CHECK_DEADLOCK FALSE
