CONSTANTS
    MaxTask = 4
    NoTask = NoTask
    FAILURE = FAILURE
    ExitValue = {FAILURE}
    NoValue = NoValue
    Delay = {1}
    GcPeriod = 1
    Calls <- LiveCalls
SPECIFICATION FairSpec
PROPERTIES
    WaiterReturns
    CanceledIsFreed
    RunnableRuns
