\* Two disks, a queue with room, a failing scan and a restart.
CONSTANTS
    Disks = {"disk1", "disk2"}
    Interval = 2
    Debounce = 1
    MaxItems = 3
    MaxChanges = 3
    MaxFailures = 1
    MaxRestarts = 1
SPECIFICATION Spec
INVARIANT NoLostWakeup
PROPERTIES NotDisconnectedTwice CacheCatchesUp
