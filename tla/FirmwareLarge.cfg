\* An image that fits APP_PART_SIZE and reaches the marks.
CONSTANTS
    Sectors = 3
    Image = {"v1", "large"}
    NoImage = "none"
    ImageSize <- MCImageSize
    Reach <- MCReach
    FaultKinds = {"power"}
    MaxFaults = 1
SPECIFICATION Spec
INVARIANT RunsWhole
