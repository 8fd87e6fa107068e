CONSTANTS
    w1 = w1
    w2 = w2
    g = g
    Window = {w1, w2}
    Ghost = {g}
    Understood <- MCUnderstood
    Socket = {s1}
    None = None
    MaxTraffic = 2
SPECIFICATION FairSpec
INVARIANTS ListedClientsExist EventsReachAll HarmHasCause
PROPERTIES MessagesHandled
CHECK_DEADLOCK FALSE
