SPECIFICATION Spec
CONSTANTS
    MaxDay = 3
    MaxIncidents = 2
    Window = 2
    Streak = 1
    RingSize = 3
    Labels <- BadDays
PROPERTIES
    DisabledUntilReenabled
