CONSTANTS
  Scripts = {a, b}
  External = {}
  NoScript = NoScript
  MaxRequests = 2
  MaxEdits = 3
  MaxOutages = 0
SPECIFICATION Spec
INVARIANTS OperationKeepsItsRecord 
PROPERTY ConfigurationIsApplied
SYMMETRY Interchangeable
