CONSTANTS
    Files <- TwoFiles
    Blocks = 4
    MaxTry = 2
    LineCap = 2
    ReplyCap = 3
    MaxResidue = 2
    FaultKinds = {"garble"}
    MaxFaults = 1
    RTicks = 3
    STicks = 10
    EmptySizes = {128}
    Slow = {"sender"}
SPECIFICATION Spec
INVARIANTS AckMeansStored
