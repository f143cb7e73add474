SPECIFICATION FairSpec
CONSTANTS
    NTurns = 2
    Resources = {1, 2}
    ResourceOf <- Distinct
    MaxAttempts = 2
    MaxFailures = 0
    MaxCrashes = 1
    MaxKills = 0
    MaxArchives = 1
PROPERTIES
    TurnsEnd
    ApprovalUnmasked
CHECK_DEADLOCK FALSE
