CONSTANTS
    p1 = p1
    p2 = p2
    a1 = a1
    a2 = a2
    a3 = a3
    None = None
    Path <- MCPath
    Addr <- MCAddr
    IdLimit = 3
    MaxInput = 1
SPECIFICATION Spec
SYMMETRY MCSymmetry
INVARIANTS ListedOnce ObserverKnowsDevices NoMotionKept MotionIsCurrent
PROPERTIES MotionBeforeButton
