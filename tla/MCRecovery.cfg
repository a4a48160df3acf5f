CONSTANTS
    MAX_RECOVERY_BOOTS = 10
    MAX_I2C_RECOVERY_RETRIES = 10
    Faults <- OneFault
    Broken <- AnyBroken
SPECIFICATION FairSpec
INVARIANTS TypeOK RebootsBounded HealthyBootClearsCount GivesUpOnlyAtTheLimit
PROPERTIES MainLoopReached MainLoopComesCloser
