CONSTANTS
    cmd = cmd
    safety = safety
    Topics <- MCTopics
SPECIFICATION Spec
INVARIANTS TypeOK TopicsSubscribed
PROPERTIES SignalIsActedOn LoopingClientReconnects StopEnds
