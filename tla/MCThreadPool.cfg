CONSTANTS
    n1 = n1
    n2 = n2
    n3 = n3
    c = c
    d = d
    Script <- MCCancelsBetween
    Reschedulable = {c, d}
    Capacity = 4
    MaxPushes = 7
    Nothing = Nothing
SPECIFICATION FairSpec
INVARIANTS
    TypeOK
    SubmittedTasksKept
    ExecutedInSubmissionOrder
    NobodyInsideAfterJoin
PROPERTIES
    SubmittedOrdersRun
    ShutdownReturns
CHECK_DEADLOCK FALSE
