\* A player stopped while an attempt is under way.
CONSTANTS
    AutonomousSettings = {TRUE, FALSE}
    MaxReconnectAttempts = 1
    MaxSoftAttempts = 1
    Disturbances = {"hide", "online", "mute", "session"}
    MaxRuns = 1
    MaxLeaked = 0
SPECIFICATION Spec
INVARIANT StoppedHoldsNoTimer
