CONSTANTS
    Env <- DevOnly
    Dev = "dev"
    Promotions <- NoPromotions
    MaxCommits = 4
    May = {"disorder"}
SPECIFICATION Spec
CHECK_DEADLOCK FALSE
INVARIANTS
    DevNeverBackwards
