CONSTANTS
    Readings <- HeatReadings
    Failures <- HeatFailures
    DieTemps <- HeatDieTemps
    ENABLE_HEATERS = TRUE
    ENABLE_CHARGING_CONTROL = FALSE
SPECIFICATION Spec
INVARIANT FailsafeStopsHeaters
