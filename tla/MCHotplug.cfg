CONSTANTS
    p1 = p1
    p2 = p2
    p3 = p3
    Path <- MCPath
SPECIFICATION FairSpec
INVARIANTS ScanIsComing
PROPERTIES FilesAreFollowed
