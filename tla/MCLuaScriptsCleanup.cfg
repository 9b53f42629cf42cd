CONSTANTS
  Scripts = {a, b}
  External = {}
  NoScript = NoScript
  MaxRequests = 2
  MaxEdits = 1
  MaxOutages = 0
SPECIFICATION Spec
INVARIANT StoredCleanupsAreCalled
