\* A quiet line, and the path callback of the repository.
CONSTANTS
    Files <- ThreeFiles
    Blocks = 4
    MaxTry = 2
    LineCap = 2
    ReplyCap = 3
    MaxResidue = 2
    FaultKinds = {}
    MaxFaults = 0
    RTicks = 3
    STicks = 10
    EmptySizes = {128}
    Slow = {}
SPECIFICATION FairSpec
PROPERTY SessionConcludes
