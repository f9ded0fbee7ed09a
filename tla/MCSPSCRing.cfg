CONSTANTS
    Producers = {p1}
    Values = {v1, v2}
    Capacity = 3
    MaxPushes = 6
    Nothing = Nothing
SPECIFICATION FairSpec
INVARIANTS
    TypeOK
    NoSlotRace
PROPERTIES
    ImplementsFIFO
    PushCompletes
    EverythingIsReceived
