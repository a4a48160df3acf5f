CONSTANTS
    Readings <- ChargeReadings
    Failures <- ChargeFailures
    DieTemps <- ChargeDieTemps
    ENABLE_HEATERS = FALSE
    ENABLE_CHARGING_CONTROL = TRUE
SPECIFICATION FairSpec
INVARIANTS IsolatedPackIsSick
PROPERTIES HealthyPackReconnects DeadGaugeStopsDischarge
