CONSTANTS
    Enqueuers = {e1, e2}
    Dequeuers = {d1, d2}
    Values = {v1, v2}
    Nodes = {n1, n2, n3}
    Null = Null
    MaxEnqueues = 3
SPECIFICATION FairSpec
INVARIANTS
    TypeOK
    NoUseAfterFree
PROPERTIES
    ImplementsFIFO
    EverythingIsDequeued
