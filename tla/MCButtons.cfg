CONSTANTS
    a = a
    b = b
    None = None
    Off = Off
    Button <- MCButton
    Configs <- MCConfigs
    MaxQueue = 2
    MaxChanges = 2
SPECIFICATION FairSpec
INVARIANTS HoldsReported ViewIsWhatIsDown
PROPERTIES TimersFire
