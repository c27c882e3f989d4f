CONSTANTS
    Env <- DevOnly
    Dev = "dev"
    Promotions <- NoPromotions
    MaxCommits = 3
    May = {"red"}
SPECIFICATION Spec
CHECK_DEADLOCK FALSE
INVARIANTS
    NewestIsProposed
