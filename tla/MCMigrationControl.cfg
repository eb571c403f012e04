\* Two calls in flight over two job rows, one import step, one lost write; no
\* symmetry, because of the liveness property.
SPECIFICATION FairSpec
CONSTANTS
  Calls = {c1, c2}
  Jobs = {j1, j2}
  NoCall = NoCall
  NoJob = NoJob
  Steps = 1
  MaxLost = 1
INVARIANTS
  TypeOK
  OneActivePerKind
  FailClosed
  SnapshotHasEvidence
  ActiveJobOwned
  InterruptedHasNoRunner
  CancelsPointAtRunner
PROPERTIES
  JobTerminates
