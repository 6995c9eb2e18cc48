SPECIFICATION Spec
CONSTANTS
    LandingPlanes = {l1}
    DepartingPlanes = {d1, d2}
    EmergencyPlanes = {e1}
    GroundLimit = 2
    FreshFlag = {FALSE}
    SpacedArrivals = TRUE
    PromptWakeups = FALSE
    Reporting = FALSE
    NoPlane = NoPlane
SYMMETRY Symmetry
INVARIANTS
    TypeOK
    NoBadFront
    WaitingIsQueued
    OnlyFrontCompleted
    EmergencyOvertakenOnce
    LandingOvertakenTwice
