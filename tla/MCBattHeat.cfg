CONSTANTS
    Readings <- HeatReadings
    Failures <- HeatFailures
    DieTemps <- HeatDieTemps
    ENABLE_HEATERS = TRUE
    ENABLE_CHARGING_CONTROL = FALSE
SPECIFICATION FairSpec
INVARIANTS TypeOK LowChargeStopsHeating PublishedHeaterBitIsTrue
PROPERTIES SwitchOnIsJustified WarmPacksEndHeating ColdPacksGetHeat
