\* An administrator is demoted by the identity provider while an update of the
\* other one is under way.
SPECIFICATION Spec
CONSTANTS
  Users = {root, ext}
  Root = root
  OidcUsers = {ext}
  LegacyUsers = {}
  Tokens = {t1}
  Keys = {}
  Calls = {c1, c2}
  NoUser = NoUser
  NoKey = NoKey
PROPERTIES
  UpdateKeepsAdministrator
