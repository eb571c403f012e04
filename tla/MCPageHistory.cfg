\* Sources with any numbers under two editors, who also race each other on a
\* page of their own, the import stopping and resuming at will; and two
\* snapshots of the chain.
SPECIFICATION Spec
SYMMETRY Symmetry
CONSTRAINT Scope
CONSTANTS
  Contents = {1, 2}
  StringOrder <- Lexicographic
  Sources <- WildSources
  Jobs = {j1, j2}
  Editors = {e1, e2}
  NewPages = {n1}
  MaxEdits = 3
  MaxVersions = 4
INVARIANTS
  TypeOK
  EditsBuildOnPredecessor
  ImportedPagesReadable
  CompleteImportIsFaithful
  HashCheckIsSound
PROPERTIES
  EditsAreImmutable
  ImplementsLog
CHECK_DEADLOCK FALSE
