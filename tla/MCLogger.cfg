CONSTANTS
    Main = main
    LoggerThread = logger
    Clients = {c1, c2}
    Threads = {c1, c2, main, logger}
    Ending = ending
    Values = {info, shown, ending}
    ConsoleOnly = {shown}
    Capacity = 2
    Nothing = nothing
    FileLogging = TRUE
    ConsoleOutput = TRUE
    MaxLogs = 3
SPECIFICATION FairSpec
INVARIANTS
    TypeOK
    EverythingWrittenAtExit
PROPERTIES
    ImplementsFIFO
    QuitShutsDown
CHECK_DEADLOCK FALSE
