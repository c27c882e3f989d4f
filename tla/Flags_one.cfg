CONSTANTS
    Thread = {t1}
    Flag = {quotes, other}
    MaxRewrites = 3
SPECIFICATION Spec
SYMMETRY Symmetry
INVARIANTS
    FreshAtRest
    AnswersJustified
PROPERTY
    ReadsTheFile
