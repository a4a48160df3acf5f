CONSTANTS
    Raws <- EdgeRaws
    Stages = {0, 1, 3, 7}
    Settings = {factory, table}
    MaxPolls = 20
SPECIFICATION DriverSpec
INVARIANT ExtremeCurrentsAreFaithful
