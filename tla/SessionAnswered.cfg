SPECIFICATION FairSpec
CONSTANTS
    g = g  h = h  k = k  n = n  X = X
    gameProgram = gameProgram
    launcherProgram = launcherProgram
    nativeProgram = nativeProgram
    s1 = s1
    Conns = {c1, c2}
    Pids = {g, h}
    WinePrefixes = {X}
    Programs = {gameProgram}
    Sizes = {s1}
    Batches = {b1}
    PrefixOf <- MCPrefixOf
    ProgramOf <- MCProgramOf
    NoConn = NoConn
    NoPid = NoPid
    NoPrefix = NoPrefix
    NoProgram = NoProgram
    NoSize = NoSize
    NoBatch = NoBatch
    MaxClients = 2
    ServedLimit = 2
    MaxTries = 1
    MaxInbox = 1
    MaxSaves = 1
    Faults = {"unidentified", "opaque", "backend", "timeout"}
INVARIANTS
    CountersAgree
PROPERTIES
    ClientsDecided
