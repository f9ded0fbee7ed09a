CONSTANTS
    n1 = n1
    n2 = n2
    n3 = n3
    c = c
    d = d
    Script <- MCCancelFirst
    Reschedulable = {c}
    Capacity = 2
    MaxPushes = 3
    Nothing = Nothing
SPECIFICATION FairSpec
PROPERTIES
    RescheduleReturns
CHECK_DEADLOCK FALSE
