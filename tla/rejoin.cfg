SPECIFICATION MCSpec
CONSTANTS
    Events <- AllEvents
    Scenarios = {"lists"}
    Pubkeys = {"alice", "bob", "carol"}
    Relays = {"r1", "r2"}
    Keys = {"k"}
    Names = {}
    Networks = {"mainnet"}
    Horizon = 3
    RATES_BUCKET_SECS = 2
    None = None
    Listed = {"alice"}
    AcceptUnknown = TRUE
    Configured = {"r1", "r2"}
    Discover = TRUE
    Overlap = 1
    Beside = TRUE
PROPERTIES
    RejoinsOnceItAnswers
