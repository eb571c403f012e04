\* The import of a page resumes after an edit.
SPECIFICATION Spec
CONSTANTS
  Contents = {1, 2}
  StringOrder <- Lexicographic
  Sources <- ChainSource
  Jobs = {j1}
  Editors = {e1}
  NewPages = {}
  MaxEdits = 1
  MaxVersions = 4
PROPERTIES
  EditsStayCurrent
CHECK_DEADLOCK FALSE
