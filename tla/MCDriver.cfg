CONSTANTS
    Raws <- EdgeRaws
    Stages = {0, 1, 3, 7}
    Settings = {factory, table}
    MaxPolls = 20
SPECIFICATION DriverSpec
INVARIANTS TypeOK PublishedIsFaithful WrittenReadsBack EmulatedProfileReadsBack ResetIsHonest ProgramIsHonest ProgramsOnlyWithCopiesLeft
PROPERTIES CallReturns CallIsBounded
