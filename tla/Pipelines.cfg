CONSTANTS
    Lms <- TwoLms
    Dits <- OneDit
    Vaes <- OneVae
    Adapters = {"", "a"}
    Keys <- AllKeys
    Addrs <- AddrsAreKeys
    AddressOf <- Identity
    Exits <- VaeKeys
    Null = Null
    NoKey = NoKey
SPECIFICATION Spec
INVARIANTS NeverAborts IdleReleased StickyLoaded
