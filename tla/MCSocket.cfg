CONSTANTS
    Client = Client
    Other = Other
    Service = Service
    Proc = {Client, Other, Service}
    Server = {Service}
    Conn = {1, 2}
    Nobody = Nobody
    Size = 1
    MaxMsg = 1
    MaxHandles = 2
    Calls <- TwoClients
    Mortal = {Client}
SPECIFICATION FairSpec
INVARIANTS
    PendingIsUnaccepted
    CountsMatchHandles
PROPERTIES
    SessionSpec
    CallReturns
CHECK_DEADLOCK FALSE
