SPECIFICATION Spec
CONSTANTS
    MaxDay = 5
    MaxIncidents = 0
    Window = 2
    Streak = 2
    RingSize = 3
    Labels <- GappyDays
PROPERTIES
    RestoresPreStreak
