\* Three observations, the oldest of them rejected for ever, a queue of two
\* rows that is drained one row at a time, one crash.
CONSTANTS
    MaxEvents = 3
    MaxPayload = 2
    MaxItems = 2
    BatchSize = 1
    BaseDelay = 2
    MaxDelay = 3
    AttemptCap = 2
    MaxPass = 1
    MaxCrashes = 1
    Poison <- OldestIsPoison
SPECIFICATION Spec
INVARIANTS TypeOK NoLoss RecordedOnce WithinCapacity
PROPERTIES RespectsBackoff ImplementsDelivery Delivered
