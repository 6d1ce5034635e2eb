\* One agent, two heartbeats.
CONSTANTS
    o1 = o1
    o2 = o2
    a1 = a1
    Observations <- OneObservation
    Agents <- OneAgent
    Poison = {}
    MaxItems = 2
    BatchSize = 2
    BaseDelay = 1
    MaxDelay = 2
    AttemptCap = 2
    MaxArrivals = 2
    MaxCrashes = 0
    MaxStoreErrors = 0
CHECK_DEADLOCK FALSE
SPECIFICATION Safety
INVARIANT NoHeartbeatLost
