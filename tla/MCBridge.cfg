CONSTANTS
    m1 = m1
    m2 = m2
    move = move
    stop = stop
    read = read
    Absent = Absent
    Sentinel = Sentinel
    Payloads <- MCPayloads
    Messages <- Two
    Ids <- AllIds
    Deliveries <- Pairs
    KindOf <- AllKinds
    HandlerThreads = 2
    WorkerThreads = 1
    HttpSlots = 1
    WatcherSlots <- MCWatcherSlots
    EstopSlots = 1
    EstopAttempts = 2
SPECIFICATION Spec
INVARIANTS TypeOK InFlightHasOneOwner PermitsAccountedFor ActiveTasksAreWatched NoSilentEnd RequestsEndBeforeMqtt
PROPERTIES EstopReachesRobotOrAlerts CommandsFinish DroppedDuplicateIsAnswered StopTerminates
CHECK_DEADLOCK FALSE
