CONSTANTS
    Proc = {a, b}
    Creator = a
    Nobody = Nobody
    Size = 2
    Sizes = {1, 2}
    MaxBytes = 2
    Mortal = {b}
SPECIFICATION FairSpec
INVARIANTS
    TypeOK
    OwnerIsInside
    CountsMatchHandles
PROPERTIES
    ChannelSpec
    CallReturns
CHECK_DEADLOCK FALSE
