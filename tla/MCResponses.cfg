CONSTANTS
    ack = ack
    final = final
    stop = stop
    stop2 = stop2
    big = big
    Results <- MCResults
    Keys <- MCKeys
    KeyOf <- MCKeyOf
    Estop <- MCEstop
    Named <- Acknowledged
    TooLarge <- MCTooLarge
    Capacity = 2
SPECIFICATION Spec
INVARIANTS TypeOK PublishedOnce
PROPERTIES EvictionIsFair QueueDrains
