SPECIFICATION Spec
CONSTANTS
    a = a
    b = b
    uas = uas
    Disks <- MCDisks
    Chained <- MCDisks
    UsbBus <- MCUsbBus
    MaxDisks = 2
    MaxChanges = 3
    MaxFaults = 1
INVARIANT
    EventsHaveCause
PROPERTY
    Settles
CHECK_DEADLOCK FALSE
