CONSTANTS
    c1 = c1
    c2 = c2
    c3 = c3
    d1 = d1
    tty = tty
    None = None
    Client <- MCClients2
    Device <- MCDevice
    Serial <- MCSerial
    Requests <- AnyRequest
    MaxUnread = 2
    MaxMessages = 2
SPECIFICATION Spec
SYMMETRY Sym2
INVARIANTS LedsAreRight
PROPERTIES PassIsFair HarmHasCause
