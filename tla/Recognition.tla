------------------------------- MODULE Recognition -------------------------------
(***************************************************************************)
(* Which entry of the list claims a window or a connection                 *)
(* (plugins/upscale/matching.cpp, pattern.cpp, windowidentity.cpp,         *)
(* x11proxypolicy.cpp and the layers of settings.cpp).                     *)
(*                                                                         *)
(* Nothing is matched on a frame: the list is compiled and indexed once    *)
(* per reading, a window's program is read when it is first asked about,   *)
(* and its entry is kept until the list or the window's names change.      *)
(* The hash of windows is keyed by address, and addresses are used again.  *)
(*                                                                         *)
(* A name is a sequence of components, a path's or one of its own.         *)
(***************************************************************************)
EXTENDS Eligibility, SequencesExt

CONSTANTS
    Readings,   \* what the settings can be when they are read: the entries, what All
                \* games states, and whether the previous release's switch is off:
                \* [list, all, switchedOff, methods, values]
    Addresses,  \* where windows are allocated
    Opened,     \* windows: [executable, windowClass, instance, pid, desktopFile]
    Renamed,    \* the classes and desktop entries a window may name later
    GameMenus,  \* the programs and desktop entries the menu may name as games'
    Connecting, \* X11 clients: [pid, identities]
    X11Outputs, \* outputs: [pixels, scale, x11Scale, single]
    X11Modes,   \* sizes Xwayland lists
    NoName,     \* the empty component
    ServedLimit,
    MaxSteps    \* bound: readings, menus, windows and connections

IsName(value) == value \in Seq(ToSet(value))
NoClaim == "none"

ASSUME RecognitionAssumption ==
    /\ ServedLimit \in Nat \ {0} /\ MaxSteps \in Nat
    /\ \A r \in Readings :
          /\ r.list \in Seq(ToSet(r.list))
          /\ \A e \in ToSet(r.list) :
                /\ IsName(e.executable.text) /\ IsName(e.windowClass.text) /\ IsName(e.instance.text)
                /\ e.executable.text # <<>> \/ e.windowClass.text # <<>> \/ e.instance.text # <<>>
                /\ e.id # NoClaim /\ "acts" \notin DOMAIN e.overrides
          /\ \A e, f \in ToSet(r.list) : e.id = f.id => e = f
          /\ r.switchedOff \in BOOLEAN
    /\ \A w \in Opened :
          /\ IsName(w.executable) /\ IsName(w.windowClass) /\ IsName(w.instance) /\ w.pid # 0
          /\ w = [executable |-> w.executable, windowClass |-> w.windowClass, instance |-> w.instance,
                  pid |-> w.pid, desktopFile |-> w.desktopFile]

VARIABLES
    reading,     \* the settings as read last
    listGeneration, \* how often they were read
    compiled,    \* the index, and the generation it is of
    openWindows, \* by address
    resolved,    \* what is kept of the window of an address
    served,      \* the record of served processes, oldest first
    gameNames,   \* what the menu names as games now, which a current index tells
                 \* (GameIndex)
    sinceOpened, \* history: of an open window, what was a game's at some time since it
                 \* opened, and what always was
    steps

recognitionVars == <<reading, listGeneration, compiled, openWindows, resolved, served, gameNames, sinceOpened, steps>>

(* pattern.cpp: an expression is anchored, and one that cannot be used never *)
(* matches.                                                                  *)
Stated(p) == p.text # <<>>
Matches(p, value) ==
    CASE p.kind = "Exact" -> value = p.text
      [] p.kind \in {"Substring", "Expression"} ->
           value # <<>> /\ \E i \in DOMAIN value : IsPrefix(p.text, SubSeq(value, i, Len(value)))
      [] p.kind = "AnyFolder" -> Len(value) > Len(p.text) /\ IsSuffix(p.text, value)
      [] p.kind = "Unusable" -> FALSE

\* Seeded fault: a part of a name is taken for the end of it.
EndsInPart(p) == IF Stated(p) /\ p.kind # "Unusable" THEN Last(p.text) ELSE NoName

\* What every value a pattern matches ends in, if that is one name.
FixedLastComponent(p) ==
    IF Stated(p) /\ p.kind \in {"Exact", "AnyFolder"} THEN Last(p.text) ELSE NoName

(* matching.cpp *)
StatesWindow(e) == Stated(e.windowClass) \/ Stated(e.instance)
GatesMatch(e, who) ==
    /\ Stated(e.executable) \/ StatesWindow(e)
    /\ Stated(e.executable) => Matches(e.executable, who.executable)
    /\ Stated(e.windowClass) => Matches(e.windowClass, who.windowClass)
    /\ Stated(e.instance) => Matches(e.instance, who.instance)

NotFiled == <<"unfiled", NoName>>
FileEntry(e) ==
    CASE FixedLastComponent(e.executable) # NoName -> <<"program", FixedLastComponent(e.executable)>>
      [] FixedLastComponent(e.executable) = NoName /\ FixedLastComponent(e.windowClass) # NoName ->
           <<"class", FixedLastComponent(e.windowClass)>>
      [] FixedLastComponent(e.executable) = NoName /\ FixedLastComponent(e.windowClass) = NoName
         /\ FixedLastComponent(e.instance) # NoName -> <<"instance", FixedLastComponent(e.instance)>>
      [] OTHER -> NotFiled
CompiledList ==
    IF compiled.generation = listGeneration THEN compiled
    ELSE [generation |-> listGeneration, filed |-> [i \in DOMAIN reading.list |-> FileEntry(reading.list[i])]]

LastName(value) == IF value = <<>> THEN NoName ELSE Last(value)
Candidates(filed, who) ==
    {i \in DOMAIN filed : filed[i] \in {NotFiled, <<"program", LastName(who.executable)>>,
                                        <<"class", LastName(who.windowClass)>>,
                                        <<"instance", LastName(who.instance)>>}}
FirstOf(indexes) == IF indexes = {} THEN NoClaim ELSE reading.list[Min(indexes)].id
ApplicationFor(filed, who) ==
    FirstOf({i \in Candidates(filed, who) : reading.list[i].enabled /\ GatesMatch(reading.list[i], who)})

\* Before a window exists only its program is known: an entry that asks for a
\* window's names as well leaves the program undecided.
Undecided == "undecided"
ApplicationAtBind(filed, executable) ==
    LET found == {i \in DOMAIN filed :
                     /\ \/ filed[i] = <<"program", LastName(executable)>>
                        \/ filed[i][1] # "program" /\ Stated(reading.list[i].executable)
                     /\ reading.list[i].enabled /\ Stated(reading.list[i].executable)
                     /\ Matches(reading.list[i].executable, executable)}
    IN  IF executable = <<>> \/ found = {} THEN NoClaim
        ELSE IF StatesWindow(reading.list[Min(found)]) THEN Undecided ELSE FirstOf(found)

(* settings.cpp: an entry states what differs from All games. *)
EntryOf(id) == CHOOSE e \in ToSet(reading.list) : e.id = id
MethodFor(id, cell) ==
    LET stated == IF id = NoClaim THEN "unstated" ELSE EntryOf(id).methods[cell]
    IN  IF stated = "unstated" THEN reading.methods[cell] ELSE stated
Layered(stated, below) ==
    [key \in DOMAIN stated \cup DOMAIN below |-> IF key \in DOMAIN stated THEN stated[key] ELSE below[key]]
\* The previous release's switch, where it was off, has nothing act.
ResolveSettings(id) ==
    IF id = NoClaim THEN Layered([acts |-> reading.all /\ ~reading.switchedOff], reading.values)
    ELSE Layered(EntryOf(id).overrides,
                 Layered([acts |-> EntryOf(id).enabled /\ ~reading.switchedOff], reading.values))

(* windowidentity.cpp *)
NoWindow == [pid |-> 0]
Unopened == [ever |-> {}, always |-> {}]
NotResolved == [kept |-> FALSE]
IsOpen(a) == openWindows[a] # NoWindow

Fresh(a) ==
    [kept |-> TRUE, gone |-> FALSE, executable |-> openWindows[a].executable, generation |-> 0,
     windowClass |-> <<>>, instance |-> <<>>, application |-> NoClaim,
     recognized |-> FALSE, desktopFile |-> NoName, game |-> FALSE]

\* Seeded fault: whatever is kept under the address is taken to be the
\* window's.
ResolvedOld(a) == IF resolved[a].kept THEN resolved[a] ELSE Fresh(a)

\* A window that is asked about first, or allocated where one was, is read.
ResolvedFor(a) ==
    IF resolved[a].kept /\ ~resolved[a].gone THEN resolved[a] ELSE Fresh(a)

\* Matched again when the list was read again or the window is named anew.
Matched(a) ==
    LET kept == ResolvedFor(a)
        w == openWindows[a]
        who == [executable |-> kept.executable, windowClass |-> w.windowClass, instance |-> w.instance]
    IN  IF kept.generation = listGeneration /\ kept.windowClass = w.windowClass /\ kept.instance = w.instance
        THEN kept
        ELSE [kept EXCEPT !.generation = listGeneration, !.windowClass = w.windowClass, !.instance = w.instance,
                          !.application = ApplicationFor(CompiledList.filed, who)]

\* Asked each time: the proxy may answer for a process after its window exists.
ServedBy(pid) == {s \in ToSet(served) : s.pid = pid}
ServedApplication(pid) ==
    LET enabled == {s \in ServedBy(pid) : \E e \in ToSet(reading.list) : e.id = s.profile /\ e.enabled}
    IN  IF enabled = {} THEN NoClaim ELSE (CHOOSE s \in enabled : TRUE).profile
ServedGame(pid) == \E s \in ServedBy(pid) : s.game
ApplicationForWindow(a) ==
    IF Matched(a).application # NoClaim THEN Matched(a).application ELSE ServedApplication(openWindows[a].pid)

\* By its program and the desktop entry it names.
NamesGame(kept, desktopFile, known) == kept.executable \in known \/ <<desktopFile>> \in known

\* Seeded fault: what a window was recognized as stands for it from then on.
RecognizedOnce(a) ==
    LET kept == Matched(a)
    IN  IF kept.recognized THEN kept
        ELSE [kept EXCEPT !.recognized = TRUE, !.desktopFile = openWindows[a].desktopFile,
                          !.game = NamesGame(kept, openWindows[a].desktopFile, gameNames)]

\* Kept until the window names another desktop entry, whatever the menu names.
Recognized(a) ==
    LET kept == Matched(a)
    IN  IF kept.recognized /\ kept.desktopFile = openWindows[a].desktopFile THEN kept
        ELSE [kept EXCEPT !.recognized = TRUE, !.desktopFile = openWindows[a].desktopFile,
                          !.game = NamesGame(kept, openWindows[a].desktopFile, gameNames)]
GameWindow(a) == Recognized(a).game \/ ServedGame(openWindows[a].pid)

\* All games acts for games alone.
ActsFor(a) ==
    LET id == ApplicationForWindow(a)
    IN  ResolveSettings(id).acts /\ (id # NoClaim \/ GameWindow(a))

Look(a) ==
    /\ IsOpen(a)
    /\ compiled' = CompiledList
    /\ resolved' = [b \in Addresses |->
           IF b = a THEN IF ApplicationForWindow(a) = NoClaim /\ ResolveSettings(NoClaim).acts THEN Recognized(a) ELSE Matched(a)
           ELSE IF ResolvedFor(a) # resolved[a] /\ resolved[b].kept /\ resolved[b].gone THEN NotResolved
           ELSE resolved[b]]
    /\ UNCHANGED <<reading, listGeneration, openWindows, served, gameNames, sinceOpened, steps>>

Stepped == steps < MaxSteps /\ steps' = steps + 1
OpenWindow(a, w) ==
    /\ Stepped /\ ~IsOpen(a) /\ \A b \in Addresses : openWindows[b].pid # w.pid
    /\ openWindows' = [openWindows EXCEPT ![a] = w]
    /\ sinceOpened' = [sinceOpened EXCEPT ![a] = [ever |-> gameNames, always |-> gameNames]]
    /\ UNCHANGED <<reading, listGeneration, compiled, resolved, served, gameNames>>
CloseWindow(a) ==
    /\ Stepped /\ IsOpen(a)
    /\ openWindows' = [openWindows EXCEPT ![a] = NoWindow]
    /\ resolved' = [resolved EXCEPT ![a] = IF @.kept THEN [@ EXCEPT !.gone = TRUE] ELSE @]
    /\ sinceOpened' = [sinceOpened EXCEPT ![a] = Unopened]
    /\ UNCHANGED <<reading, listGeneration, compiled, served, gameNames>>
RenameWindow(a, name) ==
    /\ Stepped /\ IsOpen(a)
    /\ openWindows' = [openWindows EXCEPT ![a].windowClass = <<name>>, ![a].desktopFile = name]
    /\ UNCHANGED <<reading, listGeneration, compiled, resolved, served, gameNames, sinceOpened>>
ReloadApplications(r) ==
    /\ Stepped
    /\ reading' = r /\ listGeneration' = listGeneration + 1
    /\ UNCHANGED <<compiled, openWindows, resolved, served, gameNames, sinceOpened>>

\* Games are installed and removed.
ReplaceMenu(names) ==
    /\ Stepped /\ gameNames' = names
    /\ sinceOpened' = [a \in Addresses |->
           IF IsOpen(a) THEN [ever |-> sinceOpened[a].ever \cup names, always |-> sinceOpened[a].always \cap names]
           ELSE sinceOpened[a]]
    /\ UNCHANGED <<reading, listGeneration, compiled, openWindows, resolved, served>>

(* x11proxypolicy.cpp *)
\* The first to be told counts; the oldest is dropped.
Recorded(record, s) ==
    IF s.pid = 0 \/ (\E known \in ToSet(record) : known.pid = s.pid) THEN record
    ELSE IF Len(record) = ServedLimit THEN Append(Tail(record), s) ELSE Append(record, s)

\* A disabled entry refuses what it names, and no later one is asked.
ConnectionApplication(identities) ==
    LET named == {i \in DOMAIN reading.list :
                     /\ Stated(reading.list[i].connection)
                     /\ \E who \in identities : Matches(reading.list[i].connection, who)}
    IN  IF named = {} THEN NoClaim
        ELSE IF reading.list[Min(named)].enabled THEN FirstOf(named) ELSE "disabled"
Unlisted(identities) == \A who \in identities : ApplicationAtBind(CompiledList.filed, who) = NoClaim

ConnectionSize(id, out) ==
    LET settings == ResolveSettings(id)
        desired == RequestedSize(settings, out.pixels)
    IN  IF /\ \A cell \in {"X11FullScreen", "X11Borderless"} : MethodFor(id, cell) \in {"Auto", "X11Resize"}
           /\ settings.acts /\ out.single
           /\ ExceedsMinimumPixels(out.pixels, settings.minimum) /\ Honours(settings, desired, out.pixels)
        THEN NearestListedSize(X11Modes, desired, out.pixels, settings.geometry)
        ELSE NoPixels

\* The screen a connecting client is told, and the entry it is told for.
ConnectionPolicy(client, out) ==
    LET selected == ConnectionApplication(client.identities)
        global == selected = NoClaim /\ Unlisted(client.identities)
        refused == [profile |-> NoClaim, game |-> FALSE, screen |-> NoPixels]
        game == \E who \in client.identities : who \in gameNames
    IN  IF \/ client.pid = 0 \/ selected = "disabled"
           \/ selected = NoClaim /\ ~(global /\ ResolveSettings(NoClaim).acts /\ game)
        THEN refused
        ELSE [profile |-> selected, game |-> global \/ game, screen |-> ConnectionSize(selected, out)]

ConnectX11(client, out) ==
    LET answer == ConnectionPolicy(client, out)
    IN  /\ Stepped
        /\ served' = IF IsEmpty(answer.screen) THEN served
                     ELSE Recorded(served, [pid |-> client.pid, screen |-> answer.screen,
                                            profile |-> answer.profile, game |-> answer.game])
        /\ compiled' = CompiledList
        /\ UNCHANGED <<reading, listGeneration, openWindows, resolved, gameNames, sinceOpened>>
\* Another process of the prefix is shown the screen its game was told.
ProcessShown(game, pid) ==
    /\ Stepped
    /\ \E s \in ServedBy(game) : served' = Recorded(served, [s EXCEPT !.pid = pid])
    /\ UNCHANGED <<reading, listGeneration, compiled, openWindows, resolved, gameNames, sinceOpened>>

RecognitionInit ==
    /\ reading \in Readings /\ listGeneration = 1
    /\ compiled = [generation |-> 0, filed |-> <<>>]
    /\ openWindows = [a \in Addresses |-> NoWindow] /\ resolved = [a \in Addresses |-> NotResolved]
    /\ gameNames \in GameMenus /\ sinceOpened = [a \in Addresses |-> Unopened]
    /\ served = <<>> /\ steps = 0
RecognitionNext ==
    \/ \E a \in Addresses :
          \/ Look(a) \/ CloseWindow(a)
          \/ \E w \in Opened : OpenWindow(a, w)
          \/ \E name \in Renamed : RenameWindow(a, name)
    \/ \E r \in Readings : ReloadApplications(r)
    \/ \E names \in GameMenus : ReplaceMenu(names)
    \/ \E client \in Connecting, out \in X11Outputs : ConnectX11(client, out)
    \/ \E game, pid \in {client.pid : client \in Connecting} : ProcessShown(game, pid)

RecognitionSpec == RecognitionInit /\ [][RecognitionNext]_recognitionVars

\* Whatever is kept, indexed or remembered, a window is claimed now by the
\* first enabled entry of the list read last that matches its program and the
\* names it has now, else by the entry its process was served for.  It acts when
\* it is claimed, or as a game under All games, unless the previous release's
\* switch is off; and it is taken for a game when its program or the desktop
\* entry it names now always was one's since the window opened, and for none
\* when neither was at any time since.
\* (resolvedFor(), upscaleApplicationForWindow(), upscaleGameWindow() and
\* upscaleSettingsForWindow(), windowidentity.cpp:75-160; upscaleResolveSettings(),
\* settings.cpp:444-461)
ClaimedByFirst ==
    \A a \in {b \in Addresses : IsOpen(b)} :
        LET w == openWindows[a]
            matching == {i \in DOMAIN reading.list :
                            reading.list[i].enabled /\ GatesMatch(reading.list[i], w)}
            claimed == IF matching # {} THEN reading.list[Min(matching)].id ELSE ServedApplication(w.pid)
            mayAct(names) ==
                /\ ~reading.switchedOff
                /\ \/ claimed # NoClaim
                   \/ reading.all /\ (NamesGame(w, w.desktopFile, names) \/ ServedGame(w.pid))
        IN  /\ ApplicationForWindow(a) = claimed
            /\ mayAct(sinceOpened[a].always) => ActsFor(a)
            /\ ActsFor(a) => mayAct(sinceOpened[a].ever)
================================================================================
