SPECIFICATION Spec
CONSTANTS
    t1 = t1
    t2 = t2
    t3 = t3
    at = at
    token = token
    Tasks <- MCTasks
    Direct = {at}
    Cells = {token}
    CellOf <- MCCellOf
    MethodOf <- MCMethodOf
    Offers <- MCOffers
    MaxVersion = 1
INVARIANTS
    TypeOK
    SingleFetch
    ClonesAgree
    NoLostWakeup
    FetcherFresh
PROPERTIES
    EveryCallAnswered
    ImplementsOnceRegister
CHECK_DEADLOCK FALSE
