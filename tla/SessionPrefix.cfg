SPECIFICATION Spec
CONSTANTS
    g = g  h = h  k = k  n = n  X = X
    gameProgram = gameProgram
    launcherProgram = launcherProgram
    nativeProgram = nativeProgram
    s1 = s1
    Conns = {c1, c2, c3}
    Pids = {g, h}
    WinePrefixes = {X}
    Programs = {gameProgram}
    Sizes = {s1}
    Batches = {b1, b2}
    PrefixOf <- MCPrefixOf
    ProgramOf <- MCProgramOf
    NoConn = NoConn
    NoPid = NoPid
    NoPrefix = NoPrefix
    NoProgram = NoProgram
    NoSize = NoSize
    NoBatch = NoBatch
    MaxClients = 3
    ServedLimit = 2
    MaxTries = 0
    MaxInbox = 1
    MaxSaves = 0
    Faults = {"timeout"}
SYMMETRY Symmetry
INVARIANTS
    TypeOK
    ScreenForgotten
    PrefixAgrees
    ShownIsServed
