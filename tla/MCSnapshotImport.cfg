\* Three runs of one or more jobs: stopped, failing a statement, or joined by
\* somebody who signs in as ann or creates the space S.
SPECIFICATION Spec
CONSTANTS
  Sources <- SomeSources
  Included <- WholeOrRest
  Local = {"ann", "S"}
  MaxRuns = 3
  MaxFaults = 2
INVARIANTS
  TypeOK
  CountersExact
  CompleteJobLanded
  CompleteJobPasses
  MappingNamesRow
  AccessNotWidened
CHECK_DEADLOCK FALSE
