SPECIFICATION MCSpec
CONSTANTS
    Relays = {"a", "b", "c", "d"}
    Holds <- Chain
    Configured = {"a"}
    DiscoverRelays = TRUE
    Listed = {"alice"}
    AcceptUnknown = TRUE
    MAX_DISCOVERY_ROUNDS = 2
    From = 1
    None = None
INVARIANTS
    TypeOK
    WalkedThrough
    NamesFollowed
