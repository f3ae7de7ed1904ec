CONSTANTS
    Thread = {a, b}
    NoHolder = NoHolder
SPECIFICATION Spec
INVARIANTS
    EnsureHolds
CHECK_DEADLOCK FALSE
