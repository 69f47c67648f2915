SPECIFICATION Spec
CONSTANTS
    tlc = tlc  weather = weather
    Absent = Absent
    Targets = {tlc, weather}
    Optional = {weather}
    Selection <- MCSelection
    MaxVersion = 2
    Size <- MCSize
    RenameReplaces = TRUE
    MaxRuns = 2
    MaxActive = 2
    MaxFaults = 2
INVARIANTS
    TypeOK
    ReportedObjectsStay
    StagingIsTemporary
    AuditIsComplete
PROPERTIES
    PublishesWhatItMeasured
    ReplacesOnlyWhatItSaw
CHECK_DEADLOCK FALSE
