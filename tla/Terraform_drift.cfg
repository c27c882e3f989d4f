CONSTANTS
    Env <- Envs
    Prod = "prod"
    Value <- Values
    First <- Old
    Half = "half"
    MaxMerges = 2
    MaxRuns = 2
    MaxUpsets = 0
SPECIFICATION Spec
CHECK_DEADLOCK FALSE
INVARIANTS
    DriftIsByHandOrHalfway
