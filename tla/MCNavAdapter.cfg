\* Two requests, two commands, two transports, a crash and a
\* failed write or an unreadable file.
CONSTANTS
    c1 = c1
    c2 = c2
    h1 = h1
    h2 = h2
    Commands <- TwoCommands
    Handlers <- TwoHandlers
    MaxTransports = 2
    MaxCrashes = 1
    MaxFaults = 1
    Deletions = TRUE
SPECIFICATION Spec
SYMMETRY Alike
INVARIANTS TypeOK OneNavigateInTheWorks OneResult AcceptedIsAccountedFor FileFollowsRegistry
CHECK_DEADLOCK FALSE
