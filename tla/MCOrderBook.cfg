CONSTANTS
    Owners = {o1}
    ClientIDs = {c1, c2}
    Prices <- MCPrices
    Quantities <- MCQuantities
    Stamps = {0, 1, 2}
SPECIFICATION FairSpec
INVARIANTS
    TypeOK
    NotCrossedAtRest
    RestingOrdersAreOpen
    LevelFillsInTimeOrder
    AveragesWithinLimits
    TradesReportedInPairs
    ReportsReconcileWithBook
PROPERTIES
    EachPassRemovesAnOrder
    CancelTakesTheReportedOrder
    TaskNewOrderEnds
