SPECIFICATION SortedSpec
CONSTANTS
  Members = {1, 2, 3}
  Scores = {1, 2}
  maxLevel = 3
  MaxNodes = 3
  Nil = Nil
INVARIANTS
  LevelsInOrder
  RankIsPosition
  RangeIsSlice
  SearchStartsRight
CHECK_DEADLOCK FALSE
