CONSTANTS
    MaxTries = 2
    MaxServers = 2
    MaxOther = 2
    MaxSignals = 2
SPECIFICATION XFairSpec
INVARIANTS XIsAwaited
PROPERTIES XIsFollowed
