SPECIFICATION Spec
CONSTANTS
  Alphabet = {0, 1, 2, 9}
  MaxLength = 5
  SizeBits = 8
  Throws <- IsBad
  Holds <- Odd
  Parts = {"algorithms", "vector"}
  vector1 = vector1
  vector2 = vector2
  value1 = value1
  value2 = value2
  Beyond = {}
  Fails <- NoCell
INVARIANTS
  ReadersAgree
  WritersAgree
  SortsAgree
  CombinatorsAnswerOnce
  LiveCells
  LikeStdVector
SYMMETRY Symmetry
CHECK_DEADLOCK FALSE
