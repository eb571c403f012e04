\* Bodies the decoder rejects.
SPECIFICATION Spec
CONSTANTS
  Contents = {9, 10, 11}
  StringOrder <- Lexicographic
  MaxVersion = 0
  Alphabets <- BodyAlphabets
INVARIANTS
  FallbackKeepsText
CHECK_DEADLOCK FALSE
