SPECIFICATION LateTower
CONSTANTS
    LandingPlanes = {l1}
    DepartingPlanes = {d1}
    EmergencyPlanes = {e1}
    GroundLimit = 1
    FreshFlag = {FALSE}
    SpacedArrivals = TRUE
    PromptWakeups = TRUE
    Reporting = TRUE
    NoPlane = NoPlane
INVARIANTS
    QueueMutexExclusion
