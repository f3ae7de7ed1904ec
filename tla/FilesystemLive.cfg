CONSTANTS
    a = a
    b = b
    m = m
    n = n
    z = z
    Proc = {a, b}
    Nobody = Nobody
    Node = {0, 1, 2, 3, 4, 5}
    Root = 0
    NoNode = NoNode
    NoHandle = NoHandle
    Name = {m, n, z}
    Tree <- OneTree
    Kinds <- OneKinds
    Programs <- LivePrograms
    Mortal = {b}
    MaxHandles = 2
    MaxSize = 1
SPECIFICATION FairSpec
PROPERTIES
    CallReturns
CHECK_DEADLOCK FALSE
