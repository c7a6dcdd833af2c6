SPECIFICATION FairSpec
CONSTANTS
    MaxSlot = 10
    MaxSamples = 2
    MaxRestarts = 1
    MaxChanges = 1
    SlotsPerDay = 5
    Daylight = {2, 3}
    Window = 1
    MinSpan = 1
    Ratios = {0, 6}
    Dim = Dim
    ScalarMin = 1
    Neutral = 2
    ScalarMax = 5
    Step = 2
    MaxCount = 1
    Ahead = 1
    Horizon = 2
    g1 = g1
    g2 = g2
    Group <- TwoInverters
    Limit <- Limits
    Curves <- TwoDays
    FirstImage <- Changeable
    Thetas = {2, 3}
    ThetaOne = 2
    Threshold = 1
INVARIANTS
    CountedOnTheirDay
PROPERTIES
    OnlyNewsRevise
    BackToNeutral
