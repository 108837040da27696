\* Every disturbance of the page and the session; one attempt.
CONSTANTS
    AutonomousSettings = {TRUE, FALSE}
    MaxReconnectAttempts = 1
    MaxSoftAttempts = 1
    Disturbances = {"hide", "online", "mute", "session"}
    MaxRuns = 1
    MaxLeaked = 0
SPECIFICATION Spec
INVARIANTS TypeOK PlayingIsConnected ActivityFitsState
PROPERTIES ConnectingStartsAFlow StoppedUntilAsked ImplementsPlayerStates
