SPECIFICATION FairSpec
CONSTANTS
    Events <- Held
    From = 1
    Until = 4
    WINDOW_LIMIT = 3
    None = None
INVARIANTS
    TypeOK
    Complete
PROPERTIES
    AlwaysMoves
    WalkEnds
