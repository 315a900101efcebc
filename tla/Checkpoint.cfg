SPECIFICATION Spec
CONSTANTS
    Saves = 3
    Configs = {"rank8", "rank64"}
    None = None
INVARIANTS
    KeptForever
    PeftConsistent
PROPERTIES
    SavesAtomically
