CONSTANTS
    Items = 2
    ItemTime = 2
    Grace = 3
    BackoffLimit = 1
    MaxUpsets = 2
    ApiPods = {p1, p2}
    Quantities = {0, 1, 9, 10}
    Prices = {0, 1005, 5557, 25005}
    MaxLines = 2
    Attempts = {0, 1, 2, 3}
    BaseDelay = 1
    MaxDelay = 2
    t1 = t1
    t2 = t2
    Tests = {t1, t2}
    Excuses <- MCExcuses
    Runs = 3
    Sessions = 2
    Digests = {1}
    MaxLog = 5
    MaxApplies = 1
    Slo = 99
    MinRequests = 100
    Batches <- MCBatches
    MaxBatches = 3
    Workflows = {w1, w2}
    PerPage = 1
    MaxTime = 2
    MaxAttempts = 2
    Week = 2
    LastDay = 4
    Keys = {k1}
    Costs = {0, 3}
    Files = 2
    MaxPulls = 1
    MaxPushes = 1
    MaxEvents = 4
    MaxReaps = 1
SPECIFICATION Spec
CHECK_DEADLOCK FALSE
INVARIANTS
    TypeOK
    CompleteMeansAll
    NothingCutInHalf
    FailsOnlyWhenUpset
    PricedToTheCent
    ReadBackAsAnswered
    RetriesOnlyTransient
    QuarantineIsMeasured
    FailedWereUndone
    SpentIsNotCalledLeft
    FeedbackIsTheWait
    WeeksMeet
    WorkIsKept
    StraysHaveAReason
    WantedHasItsImage
PROPERTIES
    WorkerEnds
    PreviewsFollow
