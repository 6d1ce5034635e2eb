\* One disk that is removed once; no failure, no restart, a queue with room.
CONSTANTS
    Disks = {"disk1", "disk2"}
    Interval = 2
    Debounce = 1
    MaxItems = 8
    MaxChanges = 1
    MaxFailures = 0
    MaxRestarts = 0
SPECIFICATION Spec
PROPERTY RemovalReported
