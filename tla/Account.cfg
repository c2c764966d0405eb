SPECIFICATION FairSpec
CONSTANTS
    u1 = u1
    u2 = u2
    e1 = e1
    e2 = e2
    Users = {u1, u2}
    NoUser = NoUser
    Emails = {e1, e2}
    NoEmail = NoEmail
    MaxTasks = 2
    MaxScreens = 2
    MaxOdd = 1
CONSTRAINT FewOddities
INVARIANTS
    TypeOK
    EveryAccountHasDoc
    DocsAgree
    MapKnowsUser
PROPERTIES
    KeepsPromise
    SubmitArrives
