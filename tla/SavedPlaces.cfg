SPECIFICATION Spec
CONSTANTS
  p1 = p1
  p2 = p2
  A = A
  B = B
  C = C
  l1 = l1
  l2 = l2
  l3 = l3
  d1 = d1
  d2 = d2
  Places = {p1, p2}
  Titles = {A, B, C}
  DefaultTitles = {A}
  ListIds = {l1, l2, l3}
  DocIds = {d1, d2}
  MaxId = 2
  NoKey = NoKey
  NoPlace = NoPlace
  NoTitle = NoTitle
  InitHistory <- TwoSaved
  InitLists <- TwoSavedLists
  LateReads = {}
  FailingReads = {}
  MaxPurges = 2
  MaxEdits = 2
INVARIANTS
  TypeOK
  CopiesKnowTheirDoc
PROPERTIES
  FreshStepsStayIntact
