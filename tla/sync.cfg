SPECIFICATION MCSpec
CONSTANTS
    Events <- AllEvents
    Scenarios = {"orders", "lists", "strangers", "walked"}
    Pubkeys = {"alice", "bob", "carol"}
    Relays = {"r1", "r2"}
    Keys = {"k"}
    Names = {}
    Networks = {"mainnet"}
    Horizon = 3
    RATES_BUCKET_SECS = 2
    None = None
    Listed = {"alice"}
    AcceptUnknown = TRUE
    Configured = {"r1"}
    Discover = TRUE
    Overlap = 1
    Beside = TRUE
INVARIANTS
    TypeOK
    CaughtUp
    Discovered
    NothingRefused
PROPERTIES
    Settles
