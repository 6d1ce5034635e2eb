\* Three observations of two computers; the hash may be missing; the engine
\* looks back at two observations only.
CONSTANTS
    e1 = e1
    e2 = e2
    e3 = e3
    c1 = c1
    c2 = c2
    a1 = a1
    h1 = h1
    m1 = m1
    s1 = s1
    NoHash = NoHash
    EventIds <- ThreeEvents
    Computers <- TwoComputers
    Agents <- OneAgent
    Hardware <- OneHardware
    Software <- OneMedia
    Serials <- OneSerial
    MaxTime = 2
    Window = 0
    Lookback = 2
    MaxDevices = 3
    Reports <- TellingFacts
\* Once every device id is drawn there may be nothing left to do.
CHECK_DEADLOCK FALSE
SPECIFICATION Spec
SYMMETRY Interchangeable
INVARIANTS NeverMerged OneDevicePerHardware NoDanglingReference NoOrphan DecisionsMatchLinks LastSeenCovers
