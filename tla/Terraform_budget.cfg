CONSTANTS
    Env <- Envs
    Prod = "prod"
    Value <- Values
    First <- Old
    Half = "half"
    MaxMerges = 1
    MaxRuns = 1
    MaxUpsets = 1
SPECIFICATION Spec
CHECK_DEADLOCK FALSE
PROPERTIES
    SpentHoldsProd
