CONSTANTS
    NumRegs = 3
    NvTable = {2}
    Readings <- FullOrCharging
SPECIFICATION CalibSpec
INVARIANTS TypeOK CleanStartApplies SeemsFullOnlyIfFull RestoredCapacityLasts
PROPERTIES NothingUndoesTheTable ImplementsPromise SpoiltOnlyByOverlapOrFailure HistoryLostOnlyByFailure LearnStageTakesEffect ReportsOnlyTheGaugesLearning
CONSTRAINT OnTheTable
