SPECIFICATION Spec
CONSTANTS
    u1 = u1
    u2 = u2
    t1 = t1
    t2 = t2
    t3 = t3
    Users = {u1, u2}
    NoUser = NoUser
    Texts = {t1}
    NoText = NoText
    MaxShown = 2
    MaxReads = 3
    MaxSets = 2
    MaxStored = 1
    MaxOdd = 1
CONSTRAINT FewOddities
CHECK_DEADLOCK FALSE
INVARIANTS
    DefaultsOnce
    OwnData
