CONSTANTS
    lm = lm
    cond = cond
    dit = dit
    vae = vae
    wq = wq
    wv = wv
    wn = wn
    Keys = {lm, cond, dit, vae}
    Addrs = {a1, a2, a3, a4}
    Null = Null
    NoKey = NoKey
    Exits = {vae}
    Kind <- KindOf
    Adapted = dit
    Weights = {wq, wv, wn}
    Staged = {wq, wv}
    Files <- AdapterFiles
    Settings <- Modes
    MaxHolds = 2
    MaxLost = 1
SYMMETRY AddrSymmetry
SPECIFICATION LoadSpec
CONSTRAINT Bounded
CHECK_DEADLOCK FALSE
INVARIANTS RefsAreHolds HandlesLive StrictKeepsOne PoolFollows AdapterWhole
PROPERTY NeverUnloads
