CONSTANTS
    c1 = c1
    c2 = c2
    c3 = c3
    ok = ok
    ko = ko
    Ids <- MCIds
    Payloads <- MCPayloads
    Absent = Absent
    Sentinel = Sentinel
    MaxHistory = 2
SPECIFICATION Spec
INVARIANTS TypeOK
PROPERTIES ImplementsDedupTable HistoryIsKept
