CONSTANTS
    a = a
    b = b
    Client = {a, b}
    Id = {1, 2}
    NoWindow = NoWindow
    Calls <- AppCalls
    MaxCalls <- AppMaxCalls
    Unread = 1
    Mortal = {b}
SPECIFICATION FairSpec
INVARIANTS
    WindowsHaveClients
PROPERTIES
    AnswerComes
CHECK_DEADLOCK FALSE
