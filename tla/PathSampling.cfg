SPECIFICATION Spec
CONSTANTS
  Points <- Road
  Dist <- RoadDist
  Values <- OneTwo
  MaxStep = 2
  MaxPath = 5
INVARIANTS
  TypeOK
  SamplesSpread
  RadiiCovered
  PickerInStep
