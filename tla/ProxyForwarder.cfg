\* Two observations, one of which Main rejects for ever, and one agent, in a
\* table of two rows; one row per batch, so the rejected one could starve the
\* others; one kill and one SQLite error.
CONSTANTS
    o1 = o1
    o2 = o2
    a1 = a1
    Observations <- TwoObservations
    Agents <- OneAgent
    Poison <- FirstIsPoison
    MaxItems = 2
    BatchSize = 1
    BaseDelay = 2
    MaxDelay = 2
    AttemptCap = 2
    MaxArrivals = 2
    MaxCrashes = 1
    MaxStoreErrors = 1
\* The task may have ended (TaskDies) when the last request has arrived.
CHECK_DEADLOCK FALSE
SPECIFICATION Spec
INVARIANTS NoObservationLost WithinCapacity RowsCarryLatestHeartbeat
PROPERTIES ImplementsDelivery HeartbeatRowsLeaveForwarded ForwardedWhileAlive
