CONSTANTS
    n1 = n1
    n2 = n2
    n3 = n3
    c = c
    d = d
    Script <- MCCancelFirst
    Reschedulable = {c}
    Capacity = 3
    MaxPushes = 3
    Nothing = Nothing
SPECIFICATION Spec
INVARIANTS
    AcceptedOrdersKept
CHECK_DEADLOCK FALSE
