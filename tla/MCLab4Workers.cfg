SPECIFICATION Spec
CONSTANTS
    Workers = {w1, w2}
    Dirs = {d1, d2}
    Names = {n1}
    Fds = {x1, x2}
    NumInodes = 6
    NumBlocks = 3
    MaxOpenFile = 5
SYMMETRY WorkerSymmetry
CONSTRAINT RacedApart
INVARIANTS
    WorkersTypeOK
    NumbersSafe
    BlocksSafe
    HandlesSafe
    QuietDurable
    NoHandleLost
