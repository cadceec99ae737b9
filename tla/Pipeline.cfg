\* Two queries of each split, two devices, two results, any number of commands and stops.
\* Acquisition with two sources, two local files and two pinned versions of the hub's;
\* CanonicalCorpus with a case source and the statutes, one of them revised once.
SPECIFICATION PipelineSpec
CONSTANTS
    cpu = cpu
    gpu = gpu
    x = x
    y = y
    DevCount = 2
    HoldoutCount = 2
    Devices <- TwoDevices
    Validated = cpu
    Results <- TwoResults
    SourceOrder <- TwoSources
    RawFiles <- TheirFiles
    HubSources <- OneHub
    LocalFiles <- TwoFiles
    Misfit = "cut csv"
    LastVersion <- TheirVersions
    CorpusSources <- TwoCorpora
    StatutorySource = "saudi-moj-derived"
    LastRevision = 2
    MaxBuilds = 2
SYMMETRY Symmetry
INVARIANTS
    TypesOK
    SelectionIsSound
    ArtifactsAreSound
    CorpusIsSound
PROPERTIES
    HoldoutIsOneShot
    AcquisitionIsSound
CHECK_DEADLOCK FALSE
