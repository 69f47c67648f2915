SPECIFICATION Spec
CONSTANTS
    tlc = tlc  weather = weather
    Absent = Absent
    Streamed = {tlc}
    Weather = weather
    Selection <- MCSelection
    MaxVersion = 3
    Length <- MCLength
    MaxRuns = 2
    MaxActive = 1
    MaxFaults = 2
INVARIANTS
    TypeOK
    PublishedWhole
    WeatherIsWhole
    PartsAreTemporary
    AuditIsComplete
PROPERTIES
    KeptUnlessForced
    DownloadedIsPublished
    RunEnds
CHECK_DEADLOCK FALSE
