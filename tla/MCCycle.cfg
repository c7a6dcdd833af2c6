SPECIFICATION CycleSpec
CONSTANTS
    MaxWeather = 2
    MaxLearner = 2
    None = None
    RetryInterval = 1
    FetchInterval = 2
    SaveInterval = 3
    CacheAge = 3
    PhysicsAge = 5
    Horizon = 6
    Timeout = 2
    PartialAnswers <- MCPartialAnswers
    UpdateInterval = 7
    MaxRestarts = 1
    NoImage = NoImage
    MaxTries = 3
    RequestTimeout = 3
    InlineMax = 3
    BackoffBase = 1
    BackoffMax = 2
    PerHour = 2
    NearTerm = 2
    Skies <- MCSkies
    RetryAfters = {1, 3, 4}
    Null = Null
    Bad = Bad
    SolarPlanes <- MCSolarPlanes
    ClipGroups <- MCClipGroups
    SlotWeathers <- MCSlotWeathers
    TauHooks <- MCTauHooks
    EtaHooks = {0, 96}
    SlotFactors <- MCSlotFactors
    SlotBands <- MCSlotBands
    HotAbove = 90
    HotLoss = 10
    EtaDefault = 95
    DayStart = 1
    MaxSlots = 2
INVARIANTS
    CycleTypeOK
    ProvenanceTrue
    AgeNotUnderstated
    FetchBounded
    HoursLineUp
    ForecastIsDeliverable
PROPERTIES
    ArchivesWhatIsServed
    CurveCatchesUp
    BecomesFresh
    KeepsServing
