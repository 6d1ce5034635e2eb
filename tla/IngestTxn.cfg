\* Three observations, two of them ingested at a time.
CONSTANTS
    e1 = e1
    e2 = e2
    e3 = e3
    c1 = c1
    c2 = c2
    h1 = h1
    m1 = m1
    NoHash = NoHash
    EventIds <- MCEvents
    Computers <- MCComputers
    Agents = {}
    Hardware <- MCHardware
    Software <- MCSoftware
    Serials = {}
    MaxTime = 2
    Window = 0
    Lookback = 2
    MaxDevices = 4
    Reports <- MCReports
    Payloads <- MCPayloads
    Threads = {t1, t2}
    MaxDeletes = 1
    MaxFaults = 1
SPECIFICATION TSpec
\* Once everything is answered there is nothing left to do.
CHECK_DEADLOCK FALSE
INVARIANTS
    NeverMerged
    NoDanglingReference
    SplitOnlyByRace
    LastSeenLostOnlyByRace
PROPERTY
    AnsweredInTheEnd
