\* Two clients, two calls at a time, the second failure locks a client out.
SPECIFICATION FairSpec
CONSTANTS
  Clients = {k1, k2}
  Calls = {c1, c2}
  Limit = 2
  Window = 2
INVARIANTS
  LimiterTypeOK
  GuessesBounded
PROPERTIES
  LockEnds
