SPECIFICATION FairSpec
CONSTANTS
    NTurns = 1
    Resources = {1}
    ResourceOf <- Distinct
    MaxAttempts = 1
    MaxFailures = 0
    MaxCrashes = 0
    MaxKills = 0
    MaxArchives = 0
PROPERTIES
    NotReselected
CHECK_DEADLOCK FALSE
