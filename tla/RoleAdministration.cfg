\* Three racing requests on accounts and roles, a pool of two sessions.
SPECIFICATION FairSpec
CONSTANTS
    Users = {"ann", "bob", "eve"}
    InitialUsers = {"ann", "bob"}
    InitialAdmins = {"ann"}
    Requests = {1, 2, 3}
    Orders <- RacingOrders
    PoolSize = 2
INVARIANTS
    TypeOK
    ChangesAddUp
    OneAccountPerName
    TrailTruthful
    NoCircularWait
PROPERTIES
    RunsOnce
    ImplementsStore
    RequestsEnd
CHECK_DEADLOCK FALSE
