------------------------------- MODULE MCParts -------------------------------
(***************************************************************************)
(* The components that share no state, checked together: `subject` names   *)
(* the one that moves, and the others keep their first state, so that the  *)
(* behaviours of each are those of its own specification.  What one        *)
(* component is given by another is an input of its model.                 *)
(***************************************************************************)
EXTENDS OutputAdvertisement, HeldMaps, ConnectionPolicy, DisplayLists,
        ProxyLife, EffectFrames, AskedWindows, ProfileStore, Recognition, GameIndex,
        PictureInput, SettingsPage, ProcessIdentity

VARIABLE subject

Subjects == {"advertisement", "held", "policy", "lists", "life", "frames", "asked",
             "store", "recognition", "index", "input", "page", "identity"}

(***************************************************************************)
(* Instances.                                                              *)
(***************************************************************************)

\* A claimed program with every object and a game of "All games" with old ones.
MCProgramOf == [p \in Programs |-> IF p = "claimed" THEN [who |-> "claimed", output |-> 4, xdg |-> 3]
                                   ELSE [who |-> "game", output |-> 1, xdg |-> 1]]
MCMaxObjects == [p \in Programs |-> IF p = "claimed" THEN 2 ELSE 1]
\* A monitor worth a smaller mode, and one that is too small.
MCMonitors == {[large |-> TRUE, steps |-> TRUE], [large |-> FALSE, steps |-> TRUE]}
MCWishes == {[method |-> "Auto", size |-> 50, allGames |-> TRUE],
             [method |-> "AdvertisedModeAndScale", size |-> 50, allGames |-> FALSE],
             [method |-> "Off", size |-> 50, allGames |-> FALSE]}

\* Two modes of one size, lists that lose and reorder them.
MCSizeOf == [m \in Modes |-> IF m = "2160" THEN 2160 ELSE 1440]
MCLists == {<<"2160", "1440">>, <<"2160", "1440 slow", "1440">>, <<"2160", "1440 slow">>, <<"2160">>}

\* Command lines KWin writes, one whose descriptor is not open, and others.
Argument(flag, fd, open) == [flag |-> flag, fd |-> fd, open |-> open]
MCCommandLines ==
    {<<Argument("-other", "x", FALSE), Argument("-listenfd", "l1", TRUE), Argument("-listenfd", "l2", TRUE),
       Argument("-displayfd", "d", TRUE), Argument("-wm", "w", TRUE)>>,
     <<Argument("-listenfd", "l1", TRUE)>>,
     <<Argument("-listenfd", "l1", TRUE), Argument("-wm", "w", FALSE)>>,
     <<Argument("-other", "x", FALSE)>>}

\* One window opens in each way on one output, a second enlarged on either.
MCOpenings ==
    {new \in [game : {"g1"}, on : {"h1"}, shape : Shapes, small : BOOLEAN] :
        new.small = (new.shape # "windowed")}
    \cup [game : {"g2"}, on : Heads, shape : {"full"}, small : {TRUE}]

\* Usual and odd outputs at whole and fractional scales; see Even in the README.
MCEven == {<<3840, 2160, 100>>, <<3840, 2160, 145>>, <<3840, 2160, 150>>, <<3840, 2160, 175>>,
           <<3840, 2160, 270>>, <<2560, 1440, 125>>, <<1366, 768, 100>>, <<3440, 1440, 225>>}
MCDisplays == MCEven \cup {<<2161, 3841, 100>>, <<1920, 1080, 155>>, <<1919, 1079, 300>>}
MCShares == {<<10, 13>>, <<2, 3>>, <<10, 17>>, <<1, 2>>, <<667, 1000>>, <<751, 1000>>, <<9, 10>>,
             <<501, 1000>>, <<1, 1>>}
MCListedSides == {<<1920, 1080>>, <<1600, 900>>, <<1280, 720>>, <<1024, 768>>, <<2560, 1440>>}

\* No package, one and its successor; a user who stated nothing, changed the shipped
\* entry, or added one with the keys of the previous release.
OldPackage == [Executable |-> "game", WaylandFullScreen |-> "AdvertisedMode", Order |-> 10]
NewPackage == [Executable |-> "game", WaylandFullScreen |-> "Off", X11FullScreen |-> "X11Resize",
               MinimumPixels |-> "9", Order |-> 10]
NoEntries == [i \in {} |-> NoGroup]
MCPackages == {NoEntries, [i \in {"shipped"} |-> OldPackage], [i \in {"shipped"} |-> NewPackage]}
Stating(keys) == [set |-> keys, hidden |-> {}]
MCUserFiles ==
    {NoEntries,
     [i \in {"shipped"} |-> Stating([Enabled |-> "false", MinimumPixels |-> "7"])],
     [i \in {"application"} |-> Stating([Program |-> "old", WindowClass |-> "old",
          Method |-> "AdvertisedMode", Preset |-> "Quality", MinimumPixels |-> "-1"])]}
MCEntryNames == <<"application", "application2", "shipped">>
MCAnswers == {[key |-> "WaylandFullScreen", to |-> "AdvertisedScale"],
              [key |-> "WaylandFullScreen", to |-> "unstated"],
              [key |-> "MinimumPixels", to |-> "7"], [key |-> "MinimumPixels", to |-> "unstated"]}

\* Entries found by the last name of an executable, by none, and never.
Pattern(kind, text) == [kind |-> kind, text |-> text]
NoPattern == Pattern("Exact", <<>>)
Profile(id, executable, class, connection, enabled) ==
    [id |-> id, executable |-> executable, windowClass |-> class, instance |-> NoPattern,
     connection |-> connection, enabled |-> enabled, methods |-> [c \in Cells |-> "unstated"],
     overrides |-> [minimum |-> 0]]
AnyGame == Profile("any", Pattern("AnyFolder", <<"game">>), NoPattern, Pattern("AnyFolder", <<"game">>), TRUE)
InOpt == Profile("sub", Pattern("Substring", <<"opt">>), Pattern("Exact", <<"win">>), NoPattern, TRUE)
OfClass == Profile("class", NoPattern, Pattern("Exact", <<"win">>), NoPattern, TRUE)
Broken == Profile("bad", Pattern("Unusable", <<"opt">>), NoPattern, Pattern("Exact", <<"opt", "tool">>), FALSE)
Reading(list, all) ==
    [list |-> list, all |-> all, switchedOff |-> FALSE, methods |-> [c \in Cells |-> "Auto"],
     values |-> [minimum |-> 0, share |-> <<1, 2>>, geometry |-> "Fit", filter |-> "Fsr"]]
NoProfiles == Reading(<<>>, FALSE)
MCReadings == {NoProfiles, Reading(<<InOpt, AnyGame, OfClass>>, FALSE),
               Reading(<<OfClass, [AnyGame EXCEPT !.enabled = FALSE], Broken>>, TRUE),
               [Reading(<<OfClass>>, TRUE) EXCEPT !.switchedOff = TRUE]}
OfProgram(executable, class, pid, desktopFile) ==
    [executable |-> executable, windowClass |-> class, instance |-> class, pid |-> pid,
     desktopFile |-> desktopFile]
MCOpened == {OfProgram(<<"opt", "game">>, <<>>, 1, ""), OfProgram(<<"opt", "tool">>, <<"win">>, 2, "win"),
             OfProgram(<<"bin", "tool">>, <<"other">>, 2, "other")}
MCGameMenus == {{<<"opt", "tool">>, <<"other">>}, {<<"other">>}, {<<"opt", "game">>}}
MCConnecting == {[pid |-> 1, identities |-> {<<"opt", "game">>}], [pid |-> 2, identities |-> {<<"opt", "tool">>}]}
MCX11Outputs == {[pixels |-> Pixels(1920, 1080), scale |-> 100, x11Scale |-> 100, single |-> TRUE]}
MCX11Modes == {Pixels(960, 540)}

\* A prefix with three drives, a device and a link that leads nowhere, and the
\* one Wine takes by itself; a folder of games named through a link.
Home == <<"home", "me">>
MCPrefix == Home \o <<"prefix">>
Own == Home \o <<".wine">>
GamesFolder == Home \o <<"games">>
Disk(prefix) == Append(prefix, "drive_c")
System32(prefix) == Disk(prefix) \o <<"windows", "system32">>
MCLinksTo == (Append(Home, "link") :> GamesFolder)
MCDosDevices ==
    MCPrefix :> <<[name |-> "c:", root |-> Disk(MCPrefix)], [name |-> "c::", root |-> <<"dev">>],
                  [name |-> "d:", root |-> Nowhere], [name |-> "s:", root |-> GamesFolder],
                  [name |-> "z:", root |-> <<>>]>>
    @@ Own :> <<[name |-> "c:", root |-> Disk(Own)], [name |-> "z:", root |-> <<>>]>>
MCExisting ==
    {<<>>, MCPrefix, Own, GamesFolder, Append(GamesFolder, "game.exe"), Append(Disk(MCPrefix), "other.exe"),
     <<"opt", "native.exe">>, <<"usr", "bin", "wine">>}
MCLowerCase == "C:" :> "c:" @@ "D:" :> "d:" @@ "S:" :> "s:" @@ "Z:" :> "z:" @@ "Windows" :> "windows"
               @@ "System32" :> "system32"

\* Started through Wine by each kind of path, by launchers, and not by Wine.
Loader == <<"usr", "bin", "wine">>
Line(group, name) == [group |-> group, name |-> name]
Sandboxed == <<Line("Context", ""), Line("", "other"), Line("Application", ""), Line("", "org.game")>>
RuntimeAlone == <<Line("Runtime", ""), Line("", "org.runtime")>>
ByWine(arguments, cwd, prefix, inFile, runs) ==
    [executable |-> Loader, command |-> <<Unix(Loader)>> \o arguments, cwd |-> cwd, info |-> <<>>,
     environment |-> [wineprefix |-> prefix, home |-> Home], file |-> inFile, runs |-> runs,
     sandbox |-> Nowhere]
ByHost(executable, arguments, info) ==
    [executable |-> executable, command |-> arguments, cwd |-> <<>>, info |-> info,
     environment |-> [wineprefix |-> Nowhere, home |-> Home], file |-> executable, runs |-> Nowhere,
     sandbox |-> IF info = Sandboxed THEN <<"org.game">> ELSE Nowhere]
Relative(parts) == [form |-> "relative", parts |-> parts]
MCGame == Append(GamesFolder, "game.exe")
MCStarts ==
    {ByWine(<<Unix(Home \o <<"link", "game.exe">>)>>, Home, MCPrefix, MCGame, Nowhere),
     ByWine(<<Relative(<<"game.exe">>)>>, GamesFolder, Nowhere, MCGame, Nowhere),
     ByWine(<<[form |-> "long", parts |-> <<"S:", "tools", "..", "game.exe">>]>>, Home, MCPrefix, MCGame, Nowhere),
     ByWine(<<Unix(Append(Disk(MCPrefix), "other.exe"))>>, Home, MCPrefix, Append(Disk(MCPrefix), "other.exe"), Nowhere),
     ByWine(<<Unix(Append(GamesFolder, "gone.exe"))>>, Home, MCPrefix, Append(GamesFolder, "gone.exe"), Nowhere),
     ByWine(<<Windows(<<"C:", "Windows", "System32", "steam.exe">>), Unix(MCGame)>>, Home, MCPrefix,
            Append(System32(MCPrefix), "steam.exe"), MCGame),
     ByWine(<<Windows(<<"C:", "windows", "system32", "start.exe">>), Relative(<<"/unix">>),
              Windows(<<"C:", "windows", "system32", "cmd.exe">>), Windows(<<"Z:", "home", "me", "tool.exe">>)>>,
            Home, Own, Append(System32(Own), "start.exe"), Append(Home, "tool.exe")),
     ByWine(<<Windows(<<"C:", "windows", "system32", "explorer.exe">>), Relative(<<"/desktop">>)>>, Home, MCPrefix,
            Append(System32(MCPrefix), "explorer.exe"), Nowhere),
     ByHost(<<"opt", "native.exe">>, <<Unix(<<"opt", "native.exe">>)>>, <<>>),
     ByHost(<<"app", "bin", "game">>, <<Relative(<<"game">>)>>, Sandboxed),
     ByHost(<<"usr", "bin", "tool">>, <<Relative(<<"tool">>)>>, RuntimeAlone),
     ByHost(<<"usr", "bin", "tool">>, <<>>, <<>>)}

\* The game shown in each way, with at most one complication.
PlainScene == [shape |-> "plain", under |-> "desk", dialog |-> "none", layer |-> "normal", confined |-> FALSE]
MCScenes ==
    {sc \in Scene :
        /\ sc.shape \in {"plain", "asked", "emulated"} => sc = [PlainScene EXCEPT !.shape = sc.shape]
        /\ Cardinality({field \in {"under", "dialog", "confined"} : sc[field] # PlainScene[field]}) <= 1
        /\ sc.shape = "boxed" => sc.under = "desk"
        /\ sc.layer = "critical" => sc.shape = "over" /\ sc.dialog = "on"}

\* An untouched file, that of the previous release, one edited by hand with two
\* displays in one corner, one with both releases' keys, and two with the old
\* switch, off and on.
MCFiles ==
    {<<>>,
     "Preset" :> 5 @@ "UnknownApplications" :> TRUE @@ "OsdPosition" :> 0,
     "Resolution" :> 5 @@ "Percentage" :> 8000 @@ "OsdAnnouncementPosition" :> 1 @@
         "OsdDeveloperPosition" :> 1 @@ "OsdPosition" :> 3 @@ "MinimumPixels" :> 0,
     "UnlistedApplications" :> FALSE @@ "UnknownApplications" :> TRUE @@ "Method" :> "Off" @@ "Preset" :> 0,
     "Enabled" :> FALSE @@ "UnlistedApplications" :> TRUE @@ "Preset" :> 4,
     "Enabled" :> TRUE @@ "UnknownApplications" :> TRUE}
MCLargestScreen == Pixels(3840, 2160)
MCKnownSizes == {Pixels(2560, 1440), Pixels(1920, 1080)}

MCLocations == <<"own", "system">>
MCEntryIds == {"a"}

(***************************************************************************)
(* The specification.  A component that is not the subject has one of its  *)
(* initial states only.                                                    *)
(***************************************************************************)

Only(name, first) == IF subject = name THEN TRUE ELSE first
PartsInit ==
    /\ subject \in Subjects
    /\ Only("advertisement", plugged = {} /\ wish = (CHOOSE w \in Wishes : w.method = "Off")
                             /\ monitor = [s \in Screens |-> CHOOSE m \in Monitors : m.large])
    /\ Only("policy", view = ViewOf(Native))
    /\ Only("lists", offers = [list |-> <<"2160">>, monitors |-> 1] /\ current = NoMode)
    /\ Only("life", stage = "stock" /\ startup = Parsed(<<Argument("-other", "x", FALSE)>>, TRUE))
    /\ Only("store", user = NoEntries /\ package = NoEntries)
    /\ Only("recognition", reading = NoProfiles /\ gameNames = {<<"other">>})
    /\ Only("input", device = "pointer" /\ scene = PlainScene /\ place = "on")
    /\ Only("page", file = <<>> /\ plugging = TRUE)
    /\ AdInit /\ HeldInit /\ PolicyInit /\ ListsInit /\ LifeInit /\ FramesInit
    /\ StoreInit /\ RecognitionInit /\ GameInit /\ InputInit /\ PageInit /\ IdentityInit
    /\ IF subject = "asked" THEN AskedInit ELSE asking = NoAsking

\* Nothing but the subject's own state changes.
Rest(mine) ==
    /\ subject = mine /\ UNCHANGED <<subject, asking>>
    /\ IF mine = "advertisement" THEN TRUE ELSE UNCHANGED adVars
    /\ IF mine = "held" THEN TRUE ELSE UNCHANGED heldVars
    /\ IF mine = "policy" THEN TRUE ELSE UNCHANGED policyVars
    /\ IF mine = "lists" THEN TRUE ELSE UNCHANGED listVars
    /\ IF mine = "life" THEN TRUE ELSE UNCHANGED lifeVars
    /\ IF mine = "frames" THEN TRUE ELSE UNCHANGED frameVars
    /\ IF mine = "store" THEN TRUE ELSE UNCHANGED storeVars
    /\ IF mine = "recognition" THEN TRUE ELSE UNCHANGED recognitionVars
    /\ IF mine = "index" THEN TRUE ELSE UNCHANGED gameVars
    /\ IF mine = "input" THEN TRUE ELSE UNCHANGED pictureVars
    /\ IF mine = "page" THEN TRUE ELSE UNCHANGED pageVars
    /\ IF mine = "identity" THEN TRUE ELSE UNCHANGED identityVars

PartsNext ==
    \/ subject = "advertisement" /\ AdNext /\ Rest("advertisement")
    \/ subject = "held" /\ HeldNext /\ Rest("held")
    \/ subject = "policy" /\ PolicyNext /\ Rest("policy")
    \/ subject = "lists" /\ ListsNext /\ Rest("lists")
    \/ subject = "life" /\ LifeNext /\ Rest("life")
    \/ subject = "frames" /\ FramesNext /\ Rest("frames")
    \/ subject = "store" /\ StoreNext /\ Rest("store")
    \/ subject = "recognition" /\ RecognitionNext /\ Rest("recognition")
    \/ subject = "index" /\ GameNext /\ Rest("index")
    \/ subject = "input" /\ InputNext /\ Rest("input")
    \/ subject = "page" /\ PageNext /\ Rest("page")
    \/ subject = "identity" /\ IdentityNext /\ Rest("identity")

partsVars == <<subject, asking, adVars, heldVars, policyVars, listVars, lifeVars,
               frameVars, storeVars, recognitionVars, gameVars, pictureVars, pageVars,
               identityVars>>

PartsSpec == PartsInit /\ [][PartsNext]_partsVars
=============================================================================
