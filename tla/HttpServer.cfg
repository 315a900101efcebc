SPECIFICATION Spec
CONSTANTS
    MaxT = 2
    SamplesPerFrame = 2
    Slack = 1
    MaxBatch = 2
    Formats = {"mp3", "wav16", "wav24", "wav32"}
    MaxPosts = 2
    Drawn = {7}
    Clients = {c1}
    Ring = 2
    MaxLines = 5
    Tried <- Many
    TriedLogged <- Few
INVARIANTS BuffersOwned  RequestCarried StreamFollows
PROPERTY FollowersServed
CHECK_DEADLOCK FALSE
