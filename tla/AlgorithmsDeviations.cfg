SPECIFICATION Spec
CONSTANTS
  Alphabet = {0, 1, 2, 9}
  MaxLength = 4
  SizeBits = 8
  Throws <- IsBad
  Holds <- Odd
  Parts = {"algorithms"}
  vector1 = vector1
  vector2 = vector2
  value1 = value1
  value2 = value2
  Beyond = {}
  Fails <- SecondCell
INVARIANTS
  NthElementPartitions
  OverlapSearched
  ComparesLexicographically
  PartialSortEnds
  SecondRangeRead
  ScanOfAnyOperation
  MergeIsStable
  AllOfAnswersOnce
  PlacementTellsFailure
  ClauseFailureIsAnswered
  StableSortKeepsOrder
CHECK_DEADLOCK FALSE
