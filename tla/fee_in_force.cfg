SPECIFICATION MCSpec
CONSTANTS
    Events <- AllEvents
    Scenarios = {"profiles"}
    Pubkeys = {"alice", "bob", "mallory"}
    Relays = {"r1", "r2"}
    Keys = {"k", "l"}
    Names = {"wolf", "bear"}
    Networks = {"mainnet", "testnet"}
    Horizon = 4
    RATES_BUCKET_SECS = 2
    None = None
    Ingesters = {"sync", "backfill"}
    Listed = {"alice"}
    AcceptUnknown = TRUE
    AcceptedNetworks = {"mainnet"}
    Configured = {"r1"}
    FirstReadable <- AllButOne
    RebuildModes = {FALSE, TRUE}
INVARIANTS
    HeartbeatDescribed
