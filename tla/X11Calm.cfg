SPECIFICATION Spec
CONSTANTS
    Windows = {w1}
    Sizes = {s1, s2}
    Full = Full
    Windowed = Windowed
    NoSize = NoSize
    NoWindow = NoWindow
    Available = {s1, s2}
    NeedsMode = TRUE
    SizesByMode = TRUE
    MaxAttempts = 6
    Clients = {{"mode"}, {"buffer"}, {"deaf"}}
    Prompt = TRUE
    Moves = {"save", "toggle", "message", "resize"}
    MaxMoves = 4
INVARIANTS
    EndsAsAsked
    NothingAskedMeanwhile
PROPERTIES
    AnswerIsAwaited
    SizedByRequest
CHECK_DEADLOCK FALSE
