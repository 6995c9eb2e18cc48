SPECIFICATION Spec
CONSTANTS
    LandingPlanes = {l1}
    DepartingPlanes = {d1}
    EmergencyPlanes = {e1}
    GroundLimit = 1
    FreshFlag = {FALSE}
    SpacedArrivals = TRUE
    PromptWakeups = FALSE
    Reporting = FALSE
    NoPlane = NoPlane
INVARIANTS
    OneOnRunway
