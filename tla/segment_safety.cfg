SPECIFICATION Spec
CONSTANTS
    NTurns = 2
    Resources = {1, 2}
    ResourceOf <- Shared
    MaxAttempts = 2
    MaxFailures = 1
    MaxCrashes = 1
    MaxKills = 1
    MaxArchives = 0
INVARIANTS
    TypeOK
    NothingMasked
    ApprovedIsDriven
    OneActivePerResource
    EffectOnce
PROPERTIES
    CommitsOnOwnHead
    ApprovalLifecycle
CHECK_DEADLOCK FALSE
