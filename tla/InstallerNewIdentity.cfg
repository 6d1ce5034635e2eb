SPECIFICATION Spec
CONSTANTS
    None = None
    Rows = {r1}
    Layouts <- ExampleLayout
    Commands <- Reinstall
    MaxCommands = 1
    MaxIds = 1
    MaxFaults = 0
PROPERTY
    AlwaysSameIdentity
CHECK_DEADLOCK FALSE
