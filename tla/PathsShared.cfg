SPECIFICATION PathsSpec
CONSTANTS
    a = a
    b = b
    Threads = {"t1", "t2"}
    Names = {a, b}
    Tree <- MCTree
    Root = "root"
    MaxDepth = 2
INVARIANTS
    ResolvesOwnPath
