\* Everything that can go wrong: power failures in the middle of any operation,
\* erases and writes that fail, noticed or not, aborted transfers, a second file
\* after a complete one, an image that runs into the trailer.
CONSTANTS
    Sectors = 3
    Image = {"v1", "v2", "v3"}
    NoImage = "none"
    ImageSize <- MCImageSize
    Reach <- MCReach
    FaultKinds = {"power", "erase", "marks", "program", "abort", "another"}
    MaxFaults = 3
SPECIFICATION FairSpec
INVARIANTS TypeOK RunsWhole CompletedStarts EndsWhole
PROPERTY BootReturns
