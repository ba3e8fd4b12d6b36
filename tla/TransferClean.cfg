CONSTANTS
    Files <- ThreeFiles
    Blocks = 4
    MaxTry = 2
    LineCap = 2
    ReplyCap = 3
    MaxResidue = 2
    FaultKinds = {}
    MaxFaults = 0
    RTicks = 3
    STicks = 10
    EmptySizes = {0, 128}
    Slow = {}
SPECIFICATION FairSpec
INVARIANTS AckMeansStored
PROPERTY EveryFileArrives
