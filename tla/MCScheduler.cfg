CONSTANTS
    MaxTask = 5
    NoTask = NoTask
    FAILURE = FAILURE
    ExitValue = {FAILURE, ok}
    NoValue = NoValue
    Delay = {2}
    GcPeriod = 1
    Calls <- ThreeCalls
SPECIFICATION Spec
INVARIANTS
    TypeOK
    ListsMatchStates
    RunningIsRunnable
    RetainAccounting
    SweepNotPreempted
    NoUseAfterFree
    WaiterGetsFirstExit
PROPERTIES
    NoOvertaking
    CanceledIsFinal
