SPECIFICATION Spec
CONSTANTS
    simulation_time = 9
    n = 3
    EMERGENCY_INTERVAL = 3
    MainTurns = 2
    ReporterTurns = 1
CHECK_DEADLOCK FALSE
INVARIANTS
    TypeOK
    NoSecondMissed
    NoEmergencyMissed
    NoReportMissed
