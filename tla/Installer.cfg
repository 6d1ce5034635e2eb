SPECIFICATION Spec
CONSTANTS
    None = None
    Rows = {r1}
    Layouts <- MCLayouts
    Commands <- MCCommands
    MaxCommands = 3
    MaxIds = 2
    MaxFaults = 1
INVARIANT
    QueueKept
PROPERTY
    IdentityKept
CHECK_DEADLOCK FALSE
