\* A refusal of a request whose service name no audit event accepts.
SPECIFICATION Spec
CONSTANTS
    Users = {"bob"}
    InitialUsers = {"bob"}
    InitialAdmins = {}
    Requests = {1}
    Methods = {"GET"}
    ServiceNames = {"service-a", "overlong"}
    Auditable = {"service-a"}
    BucketSize = 1
INVARIANT OutcomePreserved
CHECK_DEADLOCK FALSE
