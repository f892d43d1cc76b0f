SPECIFICATION MCSpec
CONSTANTS
    Events <- AllEvents
    Scenarios = {"prune", "relays", "restatement"}
    Kinds = {"order", "dispute"}
    SINGLE_COPY_KINDS = {}
    Relays = {"r1", "r2"}
    Windows = {"w"}
    Partitions = {"p"}
    Period <- Span
    Clocks = {1, 2, 3}
    Versions = {1, 2}
    Ageing <- Aged
    Rebuilds = TRUE
    Prunes = TRUE
    None = None
INVARIANTS
    TypeOK
    IndexPromise
    CeilingLoaded
PROPERTIES
    RevisionCounts
CHECK_DEADLOCK FALSE
