CONSTANTS
    Owners = {"alice", "bob"}
    ClientIDs = {"1", "2"}
    Prices <- MCPrices
    Quantities <- MCQuantities
    Configured <- MCConfigured
    Messages <- MCMessages
    SentBefore <- MCSentBefore
    RingSize = 3
SPECIFICATION Spec
INVARIANTS
    OnlyConfiguredSymbolsAccepted
CHECK_DEADLOCK FALSE
