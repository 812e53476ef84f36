SPECIFICATION Spec
CONSTANTS
    Windows = {w1}
    Sizes = {s1, s2}
    Full = Full
    Windowed = Windowed
    NoSize = NoSize
    NoWindow = NoWindow
    Available = {s1, s2}
    NeedsMode = FALSE
    SizesByMode = TRUE
    MaxAttempts = 6
    Clients = {{"mode"}}
    Prompt = TRUE
    Moves = {"save", "message", "reassert"}
    MaxMoves = 3
INVARIANTS
    NothingAskedMeanwhile
CHECK_DEADLOCK FALSE
