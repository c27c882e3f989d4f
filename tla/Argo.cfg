CONSTANTS
    Image <- Images
    Config <- Configs
    Signed <- SignedImages
    Fits <- Fitting
    Ready <- Working
    None = None
    Pod = {p1, p2}
    Retries = 2
    MaxCommits = 3
    MaxUpsets = 2
SPECIFICATION Spec
CHECK_DEADLOCK FALSE
INVARIANTS
    TypeOK
    Restartable
    OnlyTested
PROPERTIES
    Converges
