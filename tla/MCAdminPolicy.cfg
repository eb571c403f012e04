\* The administrator of the bootstrap, who is also a legacy user, and a user of
\* the identity provider; logins, updates, new keys and rotations race each
\* other.  A request goes on when its session has ended, so one token is enough
\* for both users to have one under way.
SPECIFICATION Spec
SYMMETRY Symmetry
CONSTANTS
  Users = {root, ext}
  Root = root
  OidcUsers = {ext}
  LegacyUsers = {root}
  Tokens = {t1}
  Keys = {k1, k2, k3}
  Calls = {c1, c2}
  NoUser = NoUser
  NoKey = NoKey
INVARIANTS
  TypeOK
  AdministratorRemains
  RotatedOnce
PROPERTIES
  DisableRevokes
