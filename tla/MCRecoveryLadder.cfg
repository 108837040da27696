CONSTANTS
    NumLevels = 3
    MaxAttempts <- MCMaxAttempts
    MaxReboots = 1
    RebootEnabled = TRUE
    SafeAutoReset = TRUE
    NominalChecks = 1
    MaxFaults = 1
    MaxDisturbances = 1
SPECIFICATION Spec
INVARIANTS TypeOK RecoveryIsBudgeted
PROPERTIES RebootIsLastResort PersistentFaultEndsInSafe
