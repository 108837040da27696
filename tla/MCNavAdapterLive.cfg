\* Liveness: two commands, two transports.
CONSTANTS
    c1 = c1
    c2 = c2
    h1 = h1
    h2 = h2
    Commands <- TwoCommands
    Handlers <- OneHandler
    MaxTransports = 2
    MaxCrashes = 0
    MaxFaults = 0
    Deletions = FALSE
SPECIFICATION Spec
PROPERTIES AcceptedIsSettled
CHECK_DEADLOCK FALSE
