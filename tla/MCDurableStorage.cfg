SPECIFICATION Spec
CONSTANTS
  registry = registry
  gate = gate
  v1 = v1
  v2 = v2
  w1 = w1
  w2 = w2
  Keys <- MCKeys
  Registry = registry
  Vals <- MCVals
  Default = v1
  None = None
  Writes <- MCWrites
  MaxMaps = 3
INVARIANTS
  FileFollowsStores
PROPERTY OldOrNew
SYMMETRY MCSymmetry
