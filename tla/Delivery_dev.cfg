CONSTANTS
    Env <- TwoStages
    Dev = "dev"
    Promotions <- OnePromotion
    MaxCommits = 3
    May = {"disorder", "dispatch", "death", "breakglass"}
SPECIFICATION Spec
CHECK_DEADLOCK FALSE
INVARIANTS
    TypeOK
    OneOpenPromotion
    ThroughStages
    RollbackGoesBack
PROPERTIES
    ImplementsReleases
