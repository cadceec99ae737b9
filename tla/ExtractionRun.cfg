\* Two records, two configurations, three runs, a crash anywhere; or an annotation
\* pack of two records in each split; or three experiments over two records.
SPECIFICATION ExtractionSpec
CONSTANTS
    f = f
    g = g
    Fingerprints <- TwoConfigurations
    RecordCount = 2
    MaxRuns = 3
    d1 = d1
    d2 = d2
    h1 = h1
    h2 = h2
    DevRecords <- DevUnits
    HoldoutRecords <- HoldoutUnits
    Agreed = h2
    r1 = r1
    Evaluated = 2
    Rules <- OneRule
    LockedCalls = 1
    MaxExperiments = 3
    MaxImports = 1
    MaxReports = 1
SYMMETRY Symmetry
INVARIANTS
    TypesOK
    SettledIsDocumented
    PublishedMeansSettled
    GoldIsHuman
PROPERTIES
    ResumeKeepsSettled
    FreezeIsFinal
    ReportIsOfOneRun
CHECK_DEADLOCK FALSE
