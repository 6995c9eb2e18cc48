SPECIFICATION Spec
CONSTANTS
    LandingPlanes = {l1}
    DepartingPlanes = {d1, d2}
    EmergencyPlanes = {e1}
    GroundLimit = 2
    FreshFlag = {FALSE}
    SpacedArrivals = TRUE
    PromptWakeups = TRUE
    Reporting = TRUE
    NoPlane = NoPlane
SYMMETRY Symmetry
INVARIANTS
    OneOnRunway
PROPERTIES
    ControlledSpec
