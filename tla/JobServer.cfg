CONSTANTS
    Submissions = 2
    MaxJobs = 1
    Threads = 2
    Kinds = {"lm", "synth", "caption", "decode"}
SPECIFICATION Spec
INVARIANTS NeverLost FetchedIsWhole StopFinishesCurrent
PROPERTIES ImplementsService QueuedCancelHonoured EveryJobSettles SignalEnds
