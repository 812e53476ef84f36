SPECIFICATION FairSpec
CONSTANTS
    Windows = {w1, w2}
    Sizes = {s1, s2}
    Full = Full
    Windowed = Windowed
    NoSize = NoSize
    NoWindow = NoWindow
    Available = {s1}
    NeedsMode = FALSE
    SizesByMode = FALSE
    MaxAttempts = 1
    Clients = {{"buffer"}, {"deaf"}}
    Prompt = FALSE
    Moves = {"save", "toggle", "message", "reassert", "resize", "mode", "hasty"}
    MaxMoves = 1
INVARIANTS
    StretchedByRequest
PROPERTIES
    ComesToRest
CHECK_DEADLOCK FALSE
