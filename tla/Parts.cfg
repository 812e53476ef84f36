SPECIFICATION PartsSpec
CONSTANTS
    Programs = {"claimed", "game"}
    Screens = {"s"}
    ProgramOf <- MCProgramOf
    Monitors <- MCMonitors
    Wishes <- MCWishes
    MaxObjects <- MCMaxObjects
    MaxAdSaves = 3
    Ids = {"w1", "w2"}
    MaxSent = 3
    MaxSaves = 1
    Views = {"v1"}
    Native = "native"
    Offered = {"v1"}
    Span = 2
    Asked = {"queryRandr", "queryBig", "select", "enable", "image"}
    MaxRequests = 5
    MaxChanges = 1
    Modes = {"2160", "1440", "1440 slow"}
    NoMode = "no mode"
    SizeOf <- MCSizeOf
    Lists <- MCLists
    Asks = {1440}
    Timed = {"1440", "no mode"}
    MaxServer = 2
    CommandLines <- MCCommandLines
    BackendListener = "backend"
    WmPair = "pair"
    Bases = {"b1", "b2"}
    Relays = {"r1", "r2"}
    Grace = 3
    MaxConnections = 3
    MaxSignals = 2
    Games = {"g1", "g2"}
    NoGame = "no game"
    Heads = {"h1", "h2"}
    Shown = 1
    FirstOsds = {"timed"}
    Wayland = {"g1"}
    Openings <- MCOpenings
    MaxEvents = 3
    Displays <- MCDisplays
    Even <- MCEven
    Shares <- MCShares
    ListedSides <- MCListedSides
    EntryNames <- MCEntryNames
    NewIds = {"application", "application2"}
    Packages <- MCPackages
    UserFiles <- MCUserFiles
    Picked = {"game2"}
    Answers <- MCAnswers
    MaxEdits = 3
    Readings <- MCReadings
    Addresses = {"x", "y"}
    Opened <- MCOpened
    Renamed = {"win", "other"}
    GameMenus <- MCGameMenus
    Connecting <- MCConnecting
    X11Outputs <- MCX11Outputs
    X11Modes <- MCX11Modes
    NoName = ""
    ServedLimit = 1
    MaxSteps = 4
    Scenes <- MCScenes
    Devices = {"pointer", "touch", "pen"}
    X11First = FALSE
    Files <- MCFiles
    LargestScreen <- MCLargestScreen
    KnownSizes <- MCKnownSizes
    Dragged = {6640, 8010}
    Limits = {0, 2073600}
    NoNumber = NoNumber
    MaxTurns = 3
    Locations <- MCLocations
    EntryIds <- MCEntryIds
    EntryKinds = {"none", "plain", "native"}
    TimeTick = 2
    Settling = 2
    MaxClock = 2
    MaxInstalls = 2
    Starts <- MCStarts
    ExeNames = {"game.exe", "other.exe", "gone.exe", "steam.exe", "start.exe", "cmd.exe", "tool.exe", "explorer.exe", "native.exe"}
    DriveNames = {"c:", "d:", "s:", "z:", "C:", "S:", "Z:"}
    LowerCase <- MCLowerCase
    LinksTo <- MCLinksTo
    Existing <- MCExisting
    DosDevices <- MCDosDevices
    MaxProcesses = 2
    MaxStarts = 3
INVARIANTS
    NothingStaysTold
    HoldIsInvisible
    ReplyFindsItsRequest
    FramedAsServer
    ShownStaysTrue
    RegistryNamesOwner
    KillIsNotPutOff
    ScreenStaysTrue
    EnlargedAsAsked
    ClaimedByFirst
    IndexTellsTheMenu
    PointerIsWhereShown
    TouchKeepsItsClient
    StrokesComplete
    PageTellsTheEffect
    NamedForItsFile
PROPERTIES
    AppliedTogether
    SavedIsRead
CHECK_DEADLOCK FALSE
