CONSTANTS
    n1 = n1
    n2 = n2
    c = c
    market = market
    unpriced = unpriced
    w1 = w1
    w2 = w2
    Producers = {s1, s2}
    Values = {n1, n2, c, market, unpriced}
    Nodes = {a1, a2, a3}
    Dummy = a1
    Null = Null
    Workers = {w1, w2}
    RingSize = 3
    WorkerOf <- MCWorkerOf
    Cancels = {c}
    Unsupported = {market}
    Unpriced = {unpriced}
SPECIFICATION Spec
INVARIANT UnsupportedOrdersRejected
CHECK_DEADLOCK FALSE
