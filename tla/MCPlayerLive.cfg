\* A page that stays visible; overwritten timers fire too; two attempts.
CONSTANTS
    AutonomousSettings = {TRUE}
    MaxReconnectAttempts = 2
    MaxSoftAttempts = 1
    Disturbances = {}
    MaxRuns = 1
    MaxLeaked = 1
SPECIFICATION Spec
PROPERTIES FrozenPictureIsNoticed StopSettles
