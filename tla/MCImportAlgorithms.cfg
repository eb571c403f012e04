\* Every source of three records with versions 0 to 3, and every body of a few
\* tags and words.
SPECIFICATION Spec
CONSTANTS
  Contents = {9, 10, 11}
  StringOrder <- Lexicographic
  MaxVersion = 3
  Alphabets <- BodyAlphabets
INVARIANTS
  ChainsBecomePages
  PageIsChainEnd
  MissingNumbersFilledIn
  PlanIsComplete
  WordsKept
  WordsSeparated
  EditorShowsText
  UsesReported
CHECK_DEADLOCK FALSE
