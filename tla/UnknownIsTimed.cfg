CONSTANTS
    places = places
    lists = lists
    Queries <- MCQueries
    Deniable <- MCDeniable
    MaxGets = 2
    MaxEvents = 1
SPECIFICATION Spec
INVARIANTS UnknownIsTimed
CHECK_DEADLOCK FALSE
