SPECIFICATION Spec
CONSTANTS
    MaxDay = 4
    MaxCrashes = 0
    Window = 3
    Threshold = 2
    Gates = {dead, frozen}
    Implausible = Implausible
    None = None
PROPERTIES
    OneCardPerCause
