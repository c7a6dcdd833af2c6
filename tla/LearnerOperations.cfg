\* Three callers contend while two stops may overlap; no symmetry, for the
\* temporal properties.
SPECIFICATION FairSpec
CONSTANTS
    Caller = {c1, c2, c3}
    Stopper = {s1, s2}
    NoCaller = NoCaller
    MaxChanges = 1
INVARIANTS
    QuietStop
PROPERTIES
    WaiterServed
    StopEnds
    Serialized
