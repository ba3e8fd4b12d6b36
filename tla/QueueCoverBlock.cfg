\* A queue that overwrites, fed with blocks.
CONSTANTS
    Byte = {1, 2}
    Size = 4
    MaxBlock = 3
    MaxCoverBlock = 3
SPECIFICATION Spec
INVARIANT LengthInStep
