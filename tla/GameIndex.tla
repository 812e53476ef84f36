-------------------------------- MODULE GameIndex --------------------------------
(***************************************************************************)
(* What the desktop's menu says is a game (plugins/upscale/                *)
(* gamerecognition.cpp): the installed desktop entries, read once and      *)
(* again when a directory or an entry has another time than it was read    *)
(* with.  Packages are installed while the effect reads, and a file system *)
(* keeps times in ticks, so that a change need not show in a time.         *)
(***************************************************************************)
EXTENDS Integers, Sequences

CONSTANTS
    Locations,  \* directories of entries, those that count more first
    EntryIds,   \* names of entries
    EntryKinds, \* what an entry can be: "none", "plain", "hidden" or a game's
    TimeTick,   \* granularity of a file's time
    Settling,   \* how old a time has to be to be kept
    MaxClock, MaxInstalls

ASSUME GameIndexAssumption ==
    /\ Len(Locations) \in Nat \ {0} /\ DOMAIN Locations = 1..Len(Locations)
    /\ "." \notin EntryIds /\ "none" \in EntryKinds
    /\ TimeTick \in Nat \ {0} /\ Settling \in Nat /\ TimeTick <= Settling /\ MaxClock \in Nat

NoTime == -1
Paths == (DOMAIN Locations) \X ({"."} \cup EntryIds)

VARIABLES
    clock,
    menu,      \* the entry of each location and name
    times,     \* the modification time of each path, "." for the directory
    index,     \* s_index
    building,  \* the index that is being read
    installs

gameVars == <<clock, menu, times, index, building, installs>>

Stamp == clock - (clock % TimeTick)
ModifiedAt(path) == IF path[2] # "." /\ menu[path] = "none" THEN NoTime ELSE times[path]
NoIndex == [kept |-> FALSE]

(* The system. *)
Entries == {p \in Paths : p[2] # "."}
MenuGames ==
    {[id |-> p[2], kind |-> menu[p]] :
        p \in {q \in Entries : /\ menu[q] \notin {"none", "plain", "hidden"}
                               /\ \A j \in 1..(q[1] - 1) : menu[<<j, q[2]>>] = "none"}}
Installing == installs < MaxInstalls /\ installs' = installs + 1
ClockPasses == clock < MaxClock /\ clock' = clock + 1 /\ UNCHANGED <<menu, times, index, building, installs>>
\* A package's files take the place of older ones, with whatever time they have.
ReplaceEntry(p, kind, time) ==
    /\ Installing /\ menu[p] # kind /\ time <= Stamp
    /\ menu' = [menu EXCEPT ![p] = kind]
    /\ times' = [times EXCEPT ![p] = time, ![<<p[1], ".">>] = Stamp]
    /\ UNCHANGED <<clock, index, building>>
RewriteEntry(p, kind) ==
    /\ Installing /\ "none" \notin {menu[p], kind} /\ menu[p] # kind
    /\ menu' = [menu EXCEPT ![p] = kind]
    /\ times' = [times EXCEPT ![p] = Stamp]
    /\ UNCHANGED <<clock, index, building>>

(* Reading. *)
\* Seeded fault: every time is kept.
TimeAlwaysKept(modified) == modified

\* What changed just before it was read may change again within the tick.
TimeKept(modified) == IF modified < building.settled THEN modified ELSE NoTime

IndexCurrent ==
    index.kept /\ \A path \in DOMAIN index.read : index.read[path] = ModifiedAt(path)
NothingRead == [path \in {} |-> NoTime]
BeginIndex ==
    /\ ~building.kept /\ ~IndexCurrent
    /\ building' = [kept |-> TRUE, settled |-> clock - Settling, at |-> 1, step |-> "remember",
                    todo |-> {}, entry |-> ".", seen |-> {}, read |-> NothingRead, games |-> {}]
    /\ UNCHANGED <<clock, menu, times, index, installs>>
With(read, path) == [p \in DOMAIN read \cup {path} |->
                        IF p = path THEN TimeKept(ModifiedAt(path)) ELSE read[p]]
IndexStep == building.kept /\ UNCHANGED <<clock, menu, times, installs>>
RememberDirectory ==
    /\ IndexStep /\ building.step = "remember" /\ building.at \in DOMAIN Locations
    /\ building' = [building EXCEPT !.read = With(@, <<building.at, ".">>), !.step = "list"]
    /\ UNCHANGED index
ListDirectory ==
    /\ IndexStep /\ building.step = "list"
    /\ building' = [building EXCEPT !.step = "entry",
           !.todo = {n \in EntryIds : menu[<<building.at, n>>] # "none"}]
    /\ UNCHANGED index
\* The entry of a location read earlier hides the one of its name.  The entries
\* of a directory have names of their own: their order makes no difference.
RememberEntry ==
    /\ IndexStep /\ building.step = "entry"
    /\ \E n \in building.todo :
          building' = IF n \in building.seen THEN [building EXCEPT !.todo = @ \ {n}]
                      ELSE [building EXCEPT !.seen = @ \cup {n}, !.read = With(@, <<building.at, n>>),
                                            !.step = "content", !.entry = n]
    /\ UNCHANGED index
ReadEntry ==
    /\ IndexStep /\ building.step = "content"
    /\ LET kind == menu[<<building.at, building.entry>>]
       IN  building' = [building EXCEPT !.step = "entry", !.todo = @ \ {building.entry},
               !.games = IF kind \in {"none", "plain", "hidden"} THEN @
                         ELSE @ \cup {[id |-> building.entry, kind |-> kind]}]
    /\ UNCHANGED index
LeaveDirectory ==
    /\ IndexStep /\ building.step = "entry" /\ building.todo = {}
    /\ IF building.at < Len(Locations)
       THEN building' = [building EXCEPT !.at = @ + 1, !.step = "remember"] /\ UNCHANGED index
       ELSE /\ building' = NoIndex
            /\ index' = [kept |-> TRUE, read |-> building.read, games |-> building.games]

GameInit ==
    /\ clock = 0 /\ installs = 0
    /\ menu = [p \in Entries |-> "none"]
    /\ times = [p \in Paths |-> NoTime - TimeTick]
    /\ index = NoIndex /\ building = NoIndex
GameNext ==
    \/ ClockPasses \/ BeginIndex \/ RememberDirectory \/ ListDirectory \/ RememberEntry \/ ReadEntry \/ LeaveDirectory
    \/ \E p \in Entries, kind \in EntryKinds :
          \/ RewriteEntry(p, kind)
          \/ \E time \in {NoTime - TimeTick, Stamp} : ReplaceEntry(p, kind, time)

GameSpec == GameInit /\ [][GameNext]_gameVars

\* An index that is taken to be current names the games the menu has now,
\* whatever was installed, removed or rewritten in the tick it was read in or
\* while it was read.
IndexTellsTheMenu == IndexCurrent => index.games = MenuGames
================================================================================
