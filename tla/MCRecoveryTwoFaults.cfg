CONSTANTS
    MAX_RECOVERY_BOOTS = 10
    MAX_I2C_RECOVERY_RETRIES = 10
    Faults <- SilentAndDead
    Broken <- NothingBroken
SPECIFICATION Spec
INVARIANT RebootsBounded
