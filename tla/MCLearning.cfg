SPECIFICATION LearningSpec
CONSTANTS
    MaxDay = 4
    MaxCrashes = 1
    Window = 2
    Threshold = 2
    Gates = {dead, frozen}
    Implausible = Implausible
    None = None
    Null = Null
    Bad = Bad
    Planes <- MCPlanes
    DayLength = 6
    UtcOffset = 6
    Daylight = {1, 2, 3, 4}
    FrozenRepeats = 2
    PeakOf <- MCPeak
    CoveragePct = 75
    CollapsePct = 10
    CollapseMin = 5
    ClearPct = 80
    CutoffHour = 1
    Classes <- MCClasses
    TheDay = 1
    Produced <- MCProduced
    Issues <- MCIssues
    Meterings <- MCMeterings
    Losses <- MCLosses
    MaxReconfigurations = 1
    CalDays = 3
    CalWindow = 2
    CalMarks = 3
    DayKinds <- MCKinds
    GroupPlanes <- MCGroups
    GroupLimit <- MCLimit
    GroupEta <- MCEta
    MinLoad = 20
    HeadroomPct = 90
    MinEta = 90
    MaxEta = 99
    DefaultEta = 95
    WarmUp = 3
    MinSamples = 3
    OutOfBandDays = 2
    MaxCalCrashes = 1
    ShadeNights = 3
    FirstDoy = 170
    SunAt <- MCSun
    ShadeKinds <- MCShadeKinds
    Groupings <- MCGroupings
    ShadeImports <- MCShadeImports
    WpOf <- MCWp
    StaticTau <- MCStatic
    Solstice = 172
    AzBin = 5
    ElBin = 2
    KcLowSun = 60
    KcHighSun = 85
    KcPivot = 20
    KcHigh = 115
    MinBeamShare = 5
    Stability = 30
    TauMin = 0
    TauMax = 100
    ShadeWarmUp = 2
    ShrinkK = 4
    BootstrapMaxN = 2
    SimilarMax = 10
    SimilarBins = 2
    BiasNights = 3
    BiasKinds <- MCBiasKinds
    BiasSites <- MCBiasSites
    PrintOf <- MCPrintOf
    Parts <- MCParts
    Forgetting = 90
    ThetaMin = 500
    ThetaMax = 1500
    MinModeled = 20
    BiasMinSamples = 2
    ReseedN = 3
    MidHalf = 4
    BlendHalf = 2
    MaxBiasMoves = 2
    QDays = 4
    QKinds <- MCQKinds
    LegacyRings <- MCLegacyRings
    QSlots <- MCQSlots
    Members <- MCMembers
    DetGhi <- MCDet
    MinForecast = 5
    ErrMin = 20
    ErrMax = 200
    RingDays = 3
    SectionDays = 2
    RingCap = 5
    DayCap = 2
    QMinSamples = 3
    QMinDays = 2
    MinMembers = 3
    MinDetGhi = 20
    SpreadMin = 20
    SpreadMax = 170
    BoardDays = 4
    BoardKinds <- MCBoardKinds
    BoardWindows = {1, 2}
    BoardCatchUp = 3
    StratumMin = 2
    BootRanges <- MCBootRanges
    BootMetered <- MCBootMetered
    IssuedArchive <- MCIssuedArchive
    AnalysisArchive <- MCAnalysisArchive
    DayStats <- MCDayStats
    ChunkDays = 2
    RlsMin = 1
    RingWindow = 1
    QuantileFloor = 10
    Dates = {1, 2, 3}
    BadKey = BadKey
    Lo = 1
    Hi = 3
    Neutral = 2
    HourlyDays = 1
    MarkDays = 2
    SnapshotRing = 1
    MaxImportedN = 1
    CurrentSchema = 3
    BootstrapSchema = 1
    Site = "site"
    DropoutReasons = {"dead_channel", "frozen_channel", "low_coverage"}
    Payloads <- MCPayloads
    MaxChanges = 2
    Files <- MCFiles
    Written <- MCWritten
    Sound <- MCSound
    MaxInstances = 4
    MaxSaves = 4
    SiteForms <- MCSiteForms
    GuidedPanels <- MCGuidedPanels
    LegacyOptions <- MCLegacyOptions
    Switches = {TRUE}
    NonPower <- MCNonPower
    MaxPlanes = 3
    MaxShadeGroups = 1
    MaxRows = 3
    MaxPoints = 2
    MaxLimit = 1000
    MaxLoads = 2
INVARIANTS
    LearningTypeOK
    StreakIsChronological
    CardMatchesStreak
    RightForecastIsRight
    CountedOnce
    SamplesCountedOnce
    GroupsAreAlike
    CellsFollowNewSite
    ServedFactorRamps
    BandIsEarned
    ShowsTheNewestDays
    WalksForward
    OneInstanceListens
    ConfirmedIsServed
PROPERTIES
    FileRoundTrips
    ImportRevertible
CHECK_DEADLOCK FALSE
