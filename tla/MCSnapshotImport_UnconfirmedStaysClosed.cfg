\* A page that only a user who is gone may see is open once it is imported.
SPECIFICATION Spec
CONSTANTS
  Sources <- GoneOnly
  Included <- WholeOrRest
  Local = {}
  MaxRuns = 1
  MaxFaults = 0
INVARIANTS
  UnconfirmedStaysClosed
CHECK_DEADLOCK FALSE
