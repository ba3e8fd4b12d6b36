CONSTANTS
    Files <- TwoFiles
    Blocks = 4
    MaxTry = 2
    LineCap = 2
    ReplyCap = 3
    MaxResidue = 2
    FaultKinds = {"lose", "garble", "short", "residue", "app", "write", "cancel"}
    MaxFaults = 2
    RTicks = 3
    STicks = 10
    EmptySizes = {128}
    Slow = {"receiver", "sender"}
SPECIFICATION FairSpec
INVARIANTS TypeOK
PROPERTIES DeliverySpec ReceiverReturns SenderHeldByIdleReceiver
