SPECIFICATION FairSpec
CONSTANTS
  p1 = p1
  p2 = p2
  A = A
  B = B
  C = C
  l1 = l1
  l2 = l2
  l3 = l3
  d1 = d1
  d2 = d2
  Places = {p1}
  Titles = {A, B}
  DefaultTitles = {A}
  ListIds = {l1, l2}
  DocIds = {d1, d2}
  MaxId = 3
  NoKey = NoKey
  NoPlace = NoPlace
  NoTitle = NoTitle
  InitHistory <- OneSaved
  InitLists <- OneSavedLists
  LateReads = {"lists"}
  FailingReads = {"saveIds"}
  MaxPurges = 1
  MaxEdits = 2
INVARIANTS
  DefaultListsSurvive
PROPERTIES
  DoubledOnlyUnknown
  
