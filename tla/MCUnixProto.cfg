CONSTANTS
    C1 = C1
    Conn = {C1}
    NaN = NaN
    Nothing = Nothing
    Requests <- MCRequests
    Token = {"n", "a", "b", "s"}
    Strings <- MCStrings
    ReqUnits = 2
    ChunkSize = 2
    PathMax = 3
    Axes = 2
    Buttons = 2
    Keys = {2}
    OutRoom = 2
    MaxSent = 4
SPECIFICATION ProtoFairSpec
INVARIANTS ConfigIsSound
PROPERTIES HandledInOrder RefusedChangesNothing EveryMessageHandled
CHECK_DEADLOCK FALSE
