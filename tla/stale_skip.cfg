SPECIFICATION MCSpec
CONSTANTS
    Events <- AllEvents
    Scenarios = {"prune"}
    Kinds = {"order", "dispute"}
    SINGLE_COPY_KINDS = {}
    Relays = {"r1", "r2"}
    Windows = {"w"}
    Partitions = {"p"}
    Period <- Span
    Clocks = {1, 2, 3}
    Versions = {1}
    Ageing <- Aged
    Rebuilds = TRUE
    Prunes = FALSE
    None = None
INVARIANTS
    PromiseKept
CHECK_DEADLOCK FALSE
