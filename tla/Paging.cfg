SPECIFICATION Spec
CONSTANTS
  Width = 3
  Values <- MCValues
  Texts <- MCTexts
  Format <- MCFormat
  extractor <- MCExtractor
  PageSize = 2
  MaxWrites = 2
INVARIANTS
  TypeOK
  SeenInOrder
  NoRowSkipped
CHECK_DEADLOCK FALSE
