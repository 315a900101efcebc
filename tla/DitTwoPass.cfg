SPECIFICATION JobSpec
CONSTANTS
    Limit = 3
    MaxRequests = 2
    Sizes <- SomeSizes
    TileCounts = {1, 2, 3, 4, 5, 6}
    Asks <- TextAsks
    SamplesPerFrame = 4
    Candidates = {8, 3}
    Overlap = 2
    MaxT = 12
    Patch = 2
    CodeFrames = 5
    DefaultSteps = 2
    MaxSteps = 3
    DefaultDur = 16
INVARIANT TimestepsWhole
