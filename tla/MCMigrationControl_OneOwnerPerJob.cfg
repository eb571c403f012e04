SPECIFICATION Spec
SYMMETRY Symmetry
CONSTANTS
  Calls = {c1, c2}
  Jobs = {j1, j2}
  NoCall = NoCall
  NoJob = NoJob
  Steps = 1
  MaxLost = 0
INVARIANTS
  OneOwnerPerJob
