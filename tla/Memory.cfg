CONSTANTS
    a = a
    b = b
    c = c
    Proc = {a, b, c}
    First = {a, b}
    Total = 8
    PageSize = 2
    MaxAddr = 4
    Span = 2
    Sizes = {1, 5}
    MaxId = 2
    Calls <- MemoryCalls
    Mortal = {a}
SPECIFICATION Spec
INVARIANTS
    TypeOK
    PagesHaveOneHolder
    ReferencesCounted
    ReachableIsMapped
CHECK_DEADLOCK FALSE
