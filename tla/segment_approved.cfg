SPECIFICATION FairSpec
CONSTANTS
    NTurns = 2
    Resources = {1, 2}
    ResourceOf <- Distinct
    MaxAttempts = 2
    MaxFailures = 0
    MaxCrashes = 0
    MaxKills = 0
    MaxArchives = 0
PROPERTIES
    ApprovedActionSettled
CHECK_DEADLOCK FALSE
