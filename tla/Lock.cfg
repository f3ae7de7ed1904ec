CONSTANTS
    Thread = {a, b, c}
    NoHolder = NoHolder
SPECIFICATION FairSpec
INVARIANTS
    OneOwner
    HolderIsOwnerOrErased
PROPERTIES
    MutexSpec
    LockIsPassedOn
CHECK_DEADLOCK FALSE
