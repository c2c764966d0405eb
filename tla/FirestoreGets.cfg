CONSTANTS
    places = places
    lists = lists
    Queries <- MCQueries
    Deniable <- MCDeniable
    MaxGets = 2
    MaxEvents = 2
SPECIFICATION FairSpec
INVARIANTS WellFormed AnsweredOnce CurrentIsOfThisListen
PROPERTIES EveryGetAnswered
CHECK_DEADLOCK FALSE
