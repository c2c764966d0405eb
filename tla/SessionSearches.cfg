SPECIFICATION FairSpec
CONSTANTS
    u1 = u1
    u2 = u2
    t1 = t1
    t2 = t2
    t3 = t3
    Users = {u1}
    NoUser = NoUser
    Texts = {t1, t2, t3}
    NoText = NoText
    MaxShown = 2
    MaxReads = 2
    MaxSets = 1
    MaxStored = 4
    MaxOdd = 1
CONSTRAINT FewOddities
CHECK_DEADLOCK FALSE
INVARIANTS
    IdsIncrease
    TypeOK
PROPERTY PanelArrives
