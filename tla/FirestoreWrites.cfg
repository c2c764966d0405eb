CONSTANTS
    ann = ann
    ben = ben
    Users <- MCUsers
    FirstUser = ann
    MaxPending = 2
    MaxWrites = 3
    MaxWaits = 1
    MaxEvents = 2
SPECIFICATION FairSpec
INVARIANTS WellFormed StreamSpeaksForUser WaitersHearTheTruth
PROPERTIES WritesKeepTheirOrder NoWriteWaitsForEver
CHECK_DEADLOCK FALSE
