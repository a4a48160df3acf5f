CONSTANTS
    SectorCap = 2
    Usable = 2
    Interval = 5
    MaxUptime = 10
    MaxCycle = 4
    MaxEntries = 7
    MaxFailures = 1
    ReadFaults = TRUE
    InitFaults = TRUE
    None = None
SPECIFICATION Spec
INVARIANTS NewestStaysInFlash ScanIsTheLoop
