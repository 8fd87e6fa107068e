CONSTANTS
    Size = 4
    Buttons <- MCButtons
    Axes <- MCAxes
    Values <- MCValues
    BufSz = 10
    ProbeSz = 3
    Readings <- MCReadings
    KeyBytes <- MCKeyBytes
    KeyNibbles <- MCKeyNibbles
    Bursts <- MCBursts
    MaxWire = 9
    MaxPackets = 3
SPECIFICATION FairSerialSpec
INVARIANTS QueueKeepsButtons ReadyForMore RightParser
PROPERTIES ImplementsQueue DrivesQueue GenuinePackets LineIsRead
CHECK_DEADLOCK FALSE
