SPECIFICATION GameSpec
CONSTRAINT FewConnections
CONSTANTS
    g = g  h = h  k = k  n = n  X = X
    gameProgram = gameProgram
    launcherProgram = launcherProgram
    nativeProgram = nativeProgram
    s1 = s1
    Conns = {c1, c2, c3, c4}
    Pids = {g, k, h}
    WinePrefixes = {X}
    Programs = {gameProgram, launcherProgram}
    Sizes = {s1}
    Batches = {b1, b2}
    PrefixOf <- MCPrefixOf
    ProgramOf <- MCProgramOf
    NoConn = NoConn
    NoPid = NoPid
    NoPrefix = NoPrefix
    NoProgram = NoProgram
    NoSize = NoSize
    NoBatch = NoBatch
    MaxClients = 4
    ServedLimit = 3
    MaxTries = 0
    MaxInbox = 3
    MaxSaves = 0
    Faults = {}
SYMMETRY Symmetry
PROPERTIES
    EffectFirst
