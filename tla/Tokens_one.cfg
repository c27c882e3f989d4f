CONSTANTS
    Thread = {t1}
    Token = {old, new}
    NoToken = NoToken
    MaxRewrites = 3
SPECIFICATION Spec
INVARIANTS
    FreshAtRest
    AnswersJustified
    AbsentIs404
PROPERTY
    ReadsTheFile
