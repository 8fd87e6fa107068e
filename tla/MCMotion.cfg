CONSTANTS
    Axis <- MCAxis
    Samples <- MCSamples
    Configs <- MCConfigs
    Actions <- MCActions
    MaxQueue = 3
    MaxChanges = 2
SPECIFICATION FairSpec
INVARIANTS MotionIsSeen
PROPERTIES StrongestPasses RepeatsGoOn
