SPECIFICATION Spec
CONSTANTS
  IntBits = 8
  NULL = NULL
  UNINIT = UNINIT
  Cap = 3
  BufferBytes = {97, 98}
  MaxSrc = 4
  Bytes = {97, 98, 200}
  MaxLen = 6
  MaxFails = 2
  MaxNodes = 4
  MaxContents = 6
  NONE = NONE
INVARIANTS
  CopiesRight
  NewStringsRight
  SearchesRight
  NumbersComeBack
  ListsInOrder
  ContentsAccounted
