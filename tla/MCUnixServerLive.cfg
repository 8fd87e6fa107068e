CONSTANTS
    c1 = c1
    c2 = c2
    c3 = c3
    d1 = d1
    tty = tty
    None = None
    Client <- MCClients2
    Device <- MCDevice
    Serial <- MCNoSerial
    Requests <- LedRequests
    MaxUnread = 1
    MaxMessages = 2
SPECIFICATION FairSpec
PROPERTIES ClientsAreServed
