SPECIFICATION FairSpec
CONSTANTS
  n1 = n1
  n2 = n2
  n3 = n3
  n4 = n4
  NULL = NULL
  Node <- Nodes3
  List <- Lists
INVARIANTS
  Represents
  ReaderSeesWhatStays
PROPERTIES
  WalkEnds
  ReaderReturns
