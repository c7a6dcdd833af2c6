SPECIFICATION Spec
CONSTANTS
    MaxDay = 4
    MaxIncidents = 0
    Window = 2
    Streak = 2
    RingSize = 3
    Labels <- MixedDays
INVARIANTS
    TypeOK
    FoldedOnce
    StreakCountsDays
    CollapseLeavesNoTrace
PROPERTIES
    NoHoleBehind
