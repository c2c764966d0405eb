CONSTANTS
    ann = ann
    ben = ben
    Users <- MCUsers
    FirstUser = ann
    MaxPending = 2
    MaxWrites = 3
    MaxWaits = 0
    MaxEvents = 0
SPECIFICATION Spec
INVARIANTS ErrorIsOfTheRequest
CHECK_DEADLOCK FALSE
