SPECIFICATION Spec
CONSTANTS
    Flows = {dispatcher, worker}
    Drains = {worker}
    Writers = {api}
    MaxUpgrades = 2
    MaxCrashes = 2
INVARIANT TypeOK
INVARIANT FenceSeparates
INVARIANT NoWriteUnderFence
PROPERTY RedisUntouchedByRefused
