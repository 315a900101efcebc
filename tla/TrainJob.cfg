SPECIFICATION JobSpec
CONSTANTS
    Epochs = 2
    Batches = 5
    Accumulation = 2
    EverySteps = 2
    EveryEpochs = 1
    Targets = {2, 5, 6}
    Runs = 3
    NoOrder = NoOrder
    NoCheckpoint = NoCheckpoint
    N = 5
    Seed = 5
    Length <- MCLength
    Frames <- MCFrames
    Name <- MCName
    ChunkSize = 2
    MemoryLimit = 6
    MaxOthers = 1
    Shuffled <- MCShuffled
INVARIANTS
    Resumable
    SameTrajectory
    RecordsTrue
    ExamplesOwn
    MemoryCounted
