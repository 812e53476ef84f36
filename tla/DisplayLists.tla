---------------------------- MODULE DisplayLists ----------------------------
(***************************************************************************)
(* The screen one X11 connection is shown (x11proxy/display.cpp,           *)
(* display_legacy.cpp): of every list the server sends, only what has the  *)
(* size asked for, under numbers that mean the same to the server, until   *)
(* the server no longer has that size and its own lists pass.              *)
(*                                                                         *)
(* The server is external and changes its modes at any time.  A mode is a  *)
(* name with a size; a legacy size is known by its place in a list.        *)
(***************************************************************************)
EXTENDS Integers, Sequences, SequencesExt, FiniteSets

CONSTANTS
    Modes,       \* the server's modes
    NoMode,
    SizeOf,      \* the size of each mode
    Lists,       \* lists of modes the server can have
    Asks,        \* sizes asked for
    Timed,       \* modes the effect can name with its answer
    MaxServer    \* bound: how often the server's screen changes

ASSUME ListsAssumption ==
    /\ NoMode \notin Modes
    /\ DOMAIN SizeOf = Modes
    /\ Lists \subseteq Seq(Modes) /\ Timed \subseteq Modes \cup {NoMode}
    /\ MaxServer \in Nat

VARIABLES
    offers,    \* the server's modes in order, and its monitors
    ask,       \* m_size
    speaking,  \* m_enabled
    modes,     \* m_modes
    current,   \* m_currentMode, with its timing
    places,    \* m_sizes: the server's place of each place shown
    known,     \* modes the client was shown as those of the screen
    legacy,    \* what the client was shown last for each place: a size, and
               \* where the server has it
    named,     \* modes the last reply named
    serverChanges

listVars == <<offers, ask, speaking, modes, current, places, known, legacy, named, serverChanges>>

Place == [size : Range(SizeOf), at : Nat]

ListsTypeOK ==
    /\ offers \in [list : Lists, monitors : {1, 2}]
    /\ ask \in Asks /\ speaking \in BOOLEAN
    /\ modes \subseteq Modes /\ current \in Modes \cup {NoMode}
    /\ places \in Seq(Nat) /\ legacy \in Seq(Place)
    /\ known \subseteq Modes /\ named \subseteq Modes
    /\ serverChanges \in 0..MaxServer

\* setup(): the effect may supply the mode the connection is to have; a client
\* may ask for its timing before it asks for modes.
ListsInit ==
    /\ offers \in [list : Lists, monitors : {1}]
    /\ ask \in Asks /\ speaking = TRUE
    /\ current \in {mode \in Timed : mode # NoMode => SizeOf[mode] = ask}
    /\ modes = {current} \ {NoMode} /\ known = modes
    /\ places = <<>> /\ legacy = <<>> /\ named = {}
    /\ serverChanges = 0

-----------------------------------------------------------------------------
Wanted == {i \in DOMAIN offers.list : SizeOf[offers.list[i]] = ask}
Passed == Range(offers.list)

\* Seeded fault: with the policy goes the table of legacy places.
DisableAll == speaking' = FALSE /\ modes' = {} /\ current' = NoMode /\ places' = <<>>

\* disable(): the server's own lists pass from here on.
Disable == speaking' = FALSE /\ modes' = {} /\ current' = NoMode /\ places' = places

Unchanged == UNCHANGED <<speaking, modes, current, places>>

\* resources(): RRGetScreenResources on one output.
ScreenResources ==
    /\ IF ~speaking
       THEN Unchanged /\ named' = Passed
       ELSE IF offers.monitors # 1 \/ Wanted = {}
       THEN Disable /\ named' = Passed
       ELSE /\ modes' = {offers.list[i] : i \in Wanted}
            /\ current' = offers.list[Min(Wanted)]
            /\ named' = modes'
            /\ UNCHANGED <<speaking, places>>
    /\ known' = named'
    /\ UNCHANGED <<offers, ask, legacy, serverChanges>>

\* Seeded fault: every mode of the output that has the size.
OfferedAnew == {mode \in Passed : SizeOf[mode] = ask}

\* The modes of the output this connection was told about.
OfferedStill == Passed \cap modes

\* outputInfo(): RRGetOutputInfo.
OutputInfo ==
    /\ IF ~speaking \/ modes = {}
       THEN Unchanged /\ named' = Passed
       ELSE IF OfferedStill = {}
       THEN Disable /\ named' = Passed
       ELSE Unchanged /\ named' = OfferedStill
    /\ UNCHANGED <<offers, ask, known, legacy, serverChanges>>

\* randr(), for RRGetCrtcInfo: the mode the output runs in.
CrtcInfo ==
    /\ named' = IF speaking /\ current # NoMode THEN {current}
                ELSE {offers.list[1]}
    /\ UNCHANGED <<offers, ask, speaking, modes, current, places, known, legacy, serverChanges>>

\* Monitors and Xinerama screens: the policy is for one.
MonitorList ==
    /\ IF speaking /\ offers.monitors # 1 THEN Disable ELSE Unchanged
    /\ named' = {}
    /\ UNCHANGED <<offers, ask, known, legacy, serverChanges>>

ServersPlaces == [i \in DOMAIN offers.list |-> [size |-> SizeOf[offers.list[i]], at |-> i]]

\* screenInfo(): the places of the sizes kept, in the order of the server's.
ScreenInfo ==
    LET kept == SelectSeq(ServersPlaces, LAMBDA place : place.size = ask) IN
    /\ IF speaking /\ kept # <<>>
       THEN /\ places' = [i \in DOMAIN kept |-> kept[i].at]
            /\ legacy' = kept
            /\ UNCHANGED <<speaking, modes, current>>
       ELSE /\ places' = <<>> /\ legacy' = <<>>
            /\ IF speaking THEN speaking' = FALSE /\ modes' = {} /\ current' = NoMode
               ELSE UNCHANGED <<speaking, modes, current>>
    /\ named' = {}
    /\ UNCHANGED <<offers, ask, known, serverChanges>>

\* vidmode(): the current timing is the one of the mode shown, and a client that
\* was shown none is shown none of this policy.
VidModeLine ==
    /\ IF speaking /\ current = NoMode THEN Disable ELSE Unchanged
    /\ named' = {}
    /\ UNCHANGED <<offers, ask, known, legacy, serverChanges>>

\* nativeSizeIndex(): the place a client names, as the server has it; what is in
\* no table shown passes as it is once the policy is withdrawn.
NativeSizeIndex(i) ==
    IF i \in DOMAIN places THEN places[i] ELSE i

ServerChanges(list, monitors) ==
    /\ serverChanges < MaxServer /\ serverChanges' = serverChanges + 1
    /\ offers' = [list |-> list, monitors |-> monitors]
    /\ UNCHANGED <<ask, speaking, modes, current, places, known, legacy, named>>

ListsNext ==
    \/ ScreenResources \/ OutputInfo \/ CrtcInfo \/ MonitorList \/ ScreenInfo \/ VidModeLine
    \/ \E list \in Lists, monitors \in {1, 2} : ServerChanges(list, monitors)

ListsSpec == ListsInit /\ [][ListsNext]_listVars
-----------------------------------------------------------------------------
\* What a client was shown of its screen stays true.  While it is shown a screen
\* of its own, every mode a reply names is one of that screen's; a place in the
\* list of sizes it read last means to the server what it meant in that list,
\* withdrawn or not.  (request(), reply() and outputInfo(), display.cpp:75-210)
ShownStaysTrue ==
    /\ speaking /\ known # {} => named \subseteq known
    /\ \A i \in DOMAIN legacy : NativeSizeIndex(i) = legacy[i].at
=============================================================================
