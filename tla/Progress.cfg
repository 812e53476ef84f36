SPECIFICATION ProgressSpec
CONSTANTS
    BufferLimit = 3
    ReadSize = 2
    DescriptorLimit = 1
    EventBytes = 2
    DescriptorsAt <- MCDescriptorsAt
    MaxBytes <- MCMaxBytes
    MaxChanges = 1
    Ambiguous = TRUE
    Errors = TRUE
    Surfaces = {"a", "b"}
    Outputs = {"o1", "o2"}
    OutputScales = {100, 150}
    FirstScales <- MCFirstScales
    Ratios = {50}
    Off = 0
    NoSurface = "none"
    Clients <- MCClients
    OpensOn <- MCOpensOn
    Patience = 2
    MaxScaleChanges = 2
INVARIANTS
    LimitNeedsChange
    WriterHasWork
    DescriptorsInTime
    CleanEnd
    TornOnlyOpaque
    GivenBack
PROPERTIES
    IsByteStream
    EndPassedOn
    ReadAgain
    RequestEnds
CHECK_DEADLOCK FALSE
