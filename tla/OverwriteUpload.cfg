SPECIFICATION Spec
CONSTANTS
    tlc = tlc  weather = weather
    Absent = Absent
    Targets = {tlc, weather}
    Optional = {weather}
    Selection <- MCSelection
    MaxVersion = 2
    Size <- MCSize
    RenameReplaces = TRUE
    MaxRuns = 2
    MaxActive = 1
    MaxFaults = 0
PROPERTY PublicationIsAtomic
CHECK_DEADLOCK FALSE
