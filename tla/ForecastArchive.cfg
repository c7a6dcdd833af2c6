SPECIFICATION Spec
CONSTANTS
    MaxWeather = 2
    MaxLearner = 2
    None = None
INVARIANTS
    OneGeneration
