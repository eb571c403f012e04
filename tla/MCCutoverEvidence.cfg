\* Two decisions race each other, a reconciliation and a second snapshot.
SPECIFICATION Spec
SYMMETRY Symmetry
CONSTANTS
  m1 = m1
  o1 = o1
  m2 = m2
  Items <- Found
  JobOf <- FoundBy
  CategoryOf <- CountedIn
  MaxJobs = 2
  Decisions = {"OPEN", "RESOLVED"}
  Calls = {c1, c2}
  Runners = {g1}
INVARIANTS
  TypeOK
PROPERTIES
  ReopenedCounts
  TreeExactAfterDecision
  ChecksFollowItems
