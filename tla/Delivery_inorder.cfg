CONSTANTS
    Env <- DevOnly
    Dev = "dev"
    Promotions <- NoPromotions
    MaxCommits = 5
    May = {"death", "red", "unlisted", "update"}
SPECIFICATION Spec
CHECK_DEADLOCK FALSE
INVARIANTS
    OneOpenPromotion
    DeclaredIsSigned
    DevNeverBackwards
