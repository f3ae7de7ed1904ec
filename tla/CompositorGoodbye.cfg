CONSTANTS
    a = a
    b = b
    Client = {a}
    Id = {1}
    NoWindow = NoWindow
    Calls <- GoodbyeCalls
    MaxCalls <- GoodbyeMaxCalls
    Unread = 1
    Mortal = {a}
SPECIFICATION Spec
INVARIANT HandledAreConnected
CHECK_DEADLOCK FALSE
