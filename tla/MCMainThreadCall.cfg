CONSTANTS
  NoItem = NoItem
  Callers = {c1, c2}
  Items = {i1, i2, i3}
SPECIFICATION FairSpec
INVARIANTS SlotHoldsTheOpenCall VerdictsAreTrue
PROPERTIES ImplementsContract EveryCallConcludes
CHECK_DEADLOCK FALSE
