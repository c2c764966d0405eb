CONSTANTS
    p = p
    q = q
    Places <- MCPlaces
    MaxWrites = 3
    MaxOthers = 1
    MaxBreaks = 2
SPECIFICATION Spec
SYMMETRY PlaceSymmetry
INVARIANTS TypeOK CaughtUp
PROPERTIES CacheNeverGoesBack AckDoesNotFlicker
CHECK_DEADLOCK FALSE
