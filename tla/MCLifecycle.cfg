CONSTANTS
    p1 = p1
    p2 = p2
    p3 = p3
    Proc <- MCProc
    None = None
    DefaultPath = default
    OtherPaths = {other}
    MaxFailures = 1
SPECIFICATION Spec
SYMMETRY Sym
INVARIANTS OneAtATime  NothingLeft
CHECK_DEADLOCK FALSE
