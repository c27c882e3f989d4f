CONSTANTS
    Thread = {t1, t2}
    Token = {tok}
    NoToken = NoToken
    MaxRewrites = 2
SYMMETRY Symmetry
SPECIFICATION Spec
INVARIANTS
    FreshAtRest
