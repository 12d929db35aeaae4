\* Two requests of one user whose roles, account and tokens come and go.
SPECIFICATION FairSpec
CONSTANTS
    Users = {"bob"}
    InitialUsers = {}
    InitialAdmins = {}
    Requests = {1, 2}
    Methods = {"GET", "PATCH"}
    ServiceNames = {"service-a", "overlong"}
    Auditable = {"service-a"}
    BucketSize = 1
INVARIANTS
    TypeOK
    RightsHeld
    ForwardsArePaid
    DecisionStands
    SignalsAddUp
PROPERTY EndsOrWaits
CHECK_DEADLOCK FALSE
