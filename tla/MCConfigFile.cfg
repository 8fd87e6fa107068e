CONSTANTS
    Bad = Bad
    Gone = Gone
    NoFile = NoFile
    UserFiles <- MCUserFiles
    EditedFiles <- MCEditedFiles
    Settable <- MCSettable
    Extra = 10
    MaxOps = 5
SPECIFICATION FileSpec
INVARIANTS LinesAreSound
PROPERTIES SaveIsFaithful SaveAfterReadIsHarmless
CHECK_DEADLOCK FALSE
