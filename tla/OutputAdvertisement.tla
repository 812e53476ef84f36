------------------------- MODULE OutputAdvertisement -------------------------
(***************************************************************************)
(* What the effect tells one program about its screens as it binds them    *)
(* (plugins/upscale/modeoverride.cpp, logicalsize.cpp): a smaller current  *)
(* mode on its wl_output, and on every xdg_output it creates the logical   *)
(* size that belongs with that mode.  Both are given back when the         *)
(* settings are saved or the effect ends.                                  *)
(*                                                                         *)
(* KWin creates the objects and describes the real output on them; the     *)
(* logical size of an xdg_output goes out between KWin's own events, which *)
(* the effect reads as they are logged.  A size is a percentage of that of *)
(* the monitor it was told of; the monitor at a connector is another after *)
(* an unplug, or set up anew while it is there.  An object of a screen     *)
(* that is gone is inert: what is still sent on it is left out.            *)
(***************************************************************************)
EXTENDS Integers, Sequences, SequencesExt, FiniteSets

CONSTANTS
    Programs,   \* Wayland connections
    Screens,
    ProgramOf,  \* for each program: who it is, the versions of its objects
    Monitors,   \* what can be at a connector: large enough, a whole scale is reachable
    Wishes,     \* what the settings can ask for
    MaxObjects, \* bound: objects of one kind each program creates
    MaxAdSaves    \* bound: settings saved, screens plugged, unplugged and set up anew

Untold == 0
Gone == "gone"
Real == 100

Wish == [method : {"Off", "Auto", "AdvertisedMode", "AdvertisedScale", "AdvertisedModeAndScale",
                   "X11Resize"},
         size : 1..Real, allGames : BOOLEAN]

ASSUME AdvertisementAssumption ==
    /\ ProgramOf \in [Programs -> [who : {"kwin", "undecided", "claimed", "game", "desktop"},
                                   output : 1..4, xdg : 1..3]]
    /\ Monitors \subseteq [large : BOOLEAN, steps : BOOLEAN]
    /\ Wishes \subseteq Wish
    /\ Gone \notin Screens
    /\ MaxObjects \in [Programs -> Nat] /\ MaxAdSaves \in Nat

VARIABLES
    plugged,    \* connectors with a Wayland object KWin offers
    monitor,    \* what is at each connector, as it is set up
    withdrawn,  \* Wayland objects of a connector KWin offers no more and has yet to destroy
    connected,  \* programs still connected
    wish,       \* the settings of the profile that answers for a program
    running,    \* the effect has not ended
    outputs,    \* wl_output objects of each program, with the mode told last
    xdgs,       \* xdg_output objects of each program
    sending,    \* KWin's events on a new xdg_output still to come
    announced,  \* m_announced: screens, or one that is gone, and programs
    advertised, \* m_advertised: the size told by program and connector
    logical,    \* m_clients: the logical size told by program and connector
    older,      \* history: programs told of a connector before its monitor was changed
    idle,       \* m_idle and m_logger: an object is being watched
    adSaves

screenVars == <<plugged, monitor, withdrawn>>
adVars == <<screenVars, connected, wish, running, outputs, xdgs, sending, announced, advertised,
            logical, older, idle, adSaves>>

\* An xdg_output: the size sent on it last, the size its program applied, and
\* what m_resources keeps of it.  It is inert once its screen is gone.
Object == [screen : Screens \cup {Gone}, sent : 0..Real, applied : 0..Real, record : {"waiting", "told", "none"},
           positioned : BOOLEAN, sized : BOOLEAN]

Nothing == [s \in Screens |-> Untold]

AdTypeOK ==
    /\ plugged \subseteq Screens /\ connected \subseteq Programs
    /\ monitor \in [Screens -> Monitors] /\ withdrawn \in [Screens -> Nat]
    /\ older \subseteq Programs \X Screens
    /\ wish \in Wishes /\ running \in BOOLEAN
    /\ \A p \in Programs :
        /\ \A i \in DOMAIN outputs[p] :
               outputs[p][i] \in [screen : Screens \cup {Gone}, mode : 1..Real, scaled : BOOLEAN]
        /\ \A i \in DOMAIN xdgs[p] : xdgs[p][i] \in Object
    /\ announced \subseteq (Screens \cup {Gone}) \X Programs
    /\ advertised \in [Programs -> [Screens -> 0..Real]]
    /\ logical \in [Programs -> [Screens -> 0..Real]]
    /\ idle \in BOOLEAN /\ adSaves \in 0..MaxAdSaves

AdInit ==
    /\ plugged \in SUBSET Screens /\ connected = Programs
    /\ monitor \in [Screens -> Monitors] /\ withdrawn = [s \in Screens |-> 0]
    /\ wish \in Wishes /\ running = TRUE
    /\ outputs = [p \in Programs |-> <<>>] /\ xdgs = [p \in Programs |-> <<>>]
    /\ sending = <<>>
    /\ announced = {} /\ advertised = [p \in Programs |-> Nothing]
    /\ logical = [p \in Programs |-> Nothing] /\ older = {}
    /\ idle = FALSE /\ adSaves = 0

-----------------------------------------------------------------------------
\* decideAtBind(): the method a program is told by; KWin's own clients, a path
\* that does not decide and a program no profile acts for are told nothing.
DecideAtBind(p) ==
    LET who == ProgramOf[p].who IN
    IF \/ who = "kwin" \/ who = "undecided"
       \/ who # "claimed" /\ ~(wish.allGames /\ who = "game")
       \/ wish.method \in {"Off", "X11Resize"}
    THEN "Off"
    ELSE IF wish.method = "Auto" THEN "AdvertisedMode" ELSE wish.method

\* The size a screen is told to have, Untold where there is nothing to say.
AdvertisementFor(s, method) ==
    IF /\ monitor[s].large
       /\ wish.size # Real
       /\ method = "AdvertisedMode" \/ monitor[s].steps
    THEN wish.size ELSE Untold

ScaleTold(method) == method \in {"AdvertisedScale", "AdvertisedModeAndScale"}

\* A client too old for the event that carries a scale is told nothing.
SendAdvertisement(p, method) == ScaleTold(method) => ProgramOf[p].output >= 2

\* KWin describes the screen; the effect then says it is smaller, and remembers
\* what it said.  A mode without a scale has a logical size of its own.
Bind(p, s) ==
    LET method == DecideAtBind(p)
        size == AdvertisementFor(s, method)
        told == running /\ method # "Off" /\ size # Untold /\ SendAdvertisement(p, method)
        bound(mode, scaled) ==
            outputs' = [outputs EXCEPT ![p] =
                Append(@, [screen |-> s, mode |-> mode, scaled |-> scaled])]
    IN  /\ p \in connected /\ s \in plugged /\ sending = <<>>
        /\ Len(outputs[p]) < MaxObjects[p]
        /\ IF told
           THEN /\ bound(IF method = "AdvertisedScale" THEN Real ELSE size, ScaleTold(method))
                /\ announced' = announced \cup {<<s, p>>} /\ older' = older \ {<<p, s>>}
                /\ advertised' = [advertised EXCEPT ![p][s] = size]
                /\ logical' = IF ScaleTold(method) THEN logical
                              ELSE [logical EXCEPT ![p][s] = size]
           ELSE /\ bound(Real, FALSE)
                /\ UNCHANGED <<announced, advertised, logical, older>>
        /\ UNCHANGED <<screenVars, connected, wish, running, xdgs, sending, idle, adSaves>>

\* What KWin sends on a new xdg_output, in the request that creates it; a version
\* before names has none.
EventsOf(p) == <<"position", "size">> \o (IF ProgramOf[p].xdg = 1 THEN <<>> ELSE <<"name">>)
                   \o <<"done">>

\* created(): only a program this told something is watched for the objects it
\* creates; every event KWin sends on them now is read.
CreateXdgOutput(p, i) ==
    LET watched == logical[p] # Nothing IN
    /\ p \in connected /\ i \in DOMAIN outputs[p] /\ sending = <<>>
    /\ outputs[p][i].screen \in plugged
    /\ Len(xdgs[p]) < MaxObjects[p]
    /\ xdgs' = [xdgs EXCEPT ![p] = Append(@,
           [screen |-> outputs[p][i].screen, sent |-> Untold, applied |-> Untold,
            record |-> IF watched THEN "waiting" ELSE "none",
            positioned |-> FALSE, sized |-> FALSE])]
    /\ sending' = [k \in DOMAIN EventsOf(p) |-> <<p, Len(xdgs'[p]), EventsOf(p)[k]>>]
    /\ idle' = (idle \/ watched)
    /\ UNCHANGED <<screenVars, connected, wish, running, outputs, announced, advertised, logical, older,
                   adSaves>>

\* destroyed(): the program lets go of an xdg_output.
DestroyXdgOutput(p, i) ==
    /\ p \in connected /\ i \in DOMAIN xdgs[p] /\ sending = <<>>
    /\ xdgs[p][i].screen # Gone
    /\ xdgs' = [xdgs EXCEPT ![p][i].screen = Gone, ![p][i].record = "none"]
    /\ UNCHANGED <<screenVars, connected, wish, running, outputs, sending, announced, advertised, logical,
                   older, idle, adSaves>>

\* answer(): an object whose screen is known by its position, and by whose name a
\* size is on record, is told it; any other is left as KWin described it.
Answered(x, p, done) ==
    IF x.positioned /\ x.screen \in plugged /\ logical[p][x.screen] # Untold
    THEN [x EXCEPT !.record = "told", !.sent = logical[p][x.screen],
                   !.applied = IF done THEN logical[p][x.screen] ELSE @]
    ELSE [x EXCEPT !.record = "none"]

\* Seeded fault: the objects are answered when the round of requests is over.
LoggedLate(x, p, event) ==
    IF x.record # "waiting" THEN x
    ELSE IF event = "position" THEN [x EXCEPT !.positioned = TRUE]
    ELSE IF event = "size" THEN [x EXCEPT !.sized = TRUE]
    ELSE x

\* logged(): an event about to be sent on a watched object.  The told size goes
\* before the first event after KWin's size.
Logged(x, p, event) ==
    IF x.record # "waiting" THEN x
    ELSE IF event = "position" THEN [x EXCEPT !.positioned = TRUE]
    ELSE IF event = "size" THEN [x EXCEPT !.sized = TRUE]
    ELSE IF x.sized THEN Answered(x, p, FALSE)
    ELSE x

SendEvent ==
    LET p == Head(sending)[1]
        i == Head(sending)[2]
        event == Head(sending)[3]
        heard == IF idle THEN Logged(xdgs[p][i], p, event) ELSE xdgs[p][i]
    IN  /\ sending # <<>>
        /\ xdgs' = [xdgs EXCEPT ![p][i] =
               CASE event = "size" -> [heard EXCEPT !.sent = Real]
                 [] event = "done" -> [heard EXCEPT !.applied = heard.sent]
                 [] OTHER -> heard]
        /\ sending' = Tail(sending)
        /\ UNCHANGED <<screenVars, connected, wish, running, outputs, announced, advertised, logical,
                       older, idle, adSaves>>

\* Once the round of requests is handled: an object not answered is answered
\* with a done of its own.
Idle ==
    /\ idle /\ sending = <<>>
    /\ idle' = FALSE
    /\ xdgs' = [p \in Programs |-> [i \in DOMAIN xdgs[p] |->
                   IF xdgs[p][i].record = "waiting" THEN Answered(xdgs[p][i], p, TRUE)
                   ELSE xdgs[p][i]]]
    /\ UNCHANGED <<screenVars, connected, wish, running, outputs, sending, announced, advertised,
                   logical, older, adSaves>>

\* Seeded fault: only what was told without a logical size is given back.
RestoreModes ==
    /\ outputs' = [p \in Programs |-> [i \in DOMAIN outputs[p] |->
           IF <<outputs[p][i].screen, p>> \in announced /\ outputs[p][i].screen \in plugged
           THEN [outputs[p][i] EXCEPT !.mode = Real, !.scaled = FALSE] ELSE outputs[p][i]]]
    /\ announced' = {} /\ UNCHANGED <<xdgs, logical, older, idle>>

\* restore(): the real mode and scale to every object of a program that was
\* announced to, the real logical size to every xdg_output that was told one.
Restore ==
    /\ outputs' = [p \in Programs |-> [i \in DOMAIN outputs[p] |->
           IF <<outputs[p][i].screen, p>> \in announced /\ outputs[p][i].screen \in plugged
           THEN [outputs[p][i] EXCEPT !.mode = Real, !.scaled = FALSE] ELSE outputs[p][i]]]
    /\ xdgs' = [p \in Programs |-> [i \in DOMAIN xdgs[p] |->
           IF xdgs[p][i].record = "told" /\ xdgs[p][i].screen \in plugged
           THEN [xdgs[p][i] EXCEPT !.record = "none", !.sent = Real, !.applied = Real]
           ELSE [xdgs[p][i] EXCEPT !.record = "none"]]]
    /\ announced' = {}
    /\ logical' = [p \in Programs |-> Nothing] /\ older' = {}
    /\ idle' = FALSE

\* The settings are saved: what a program was told stays on record.
Save(asked) ==
    /\ running /\ sending = <<>> /\ ~idle /\ adSaves < MaxAdSaves
    /\ adSaves' = adSaves + 1
    /\ wish' = asked
    /\ IF announced # {} THEN Restore ELSE UNCHANGED <<outputs, xdgs, announced, logical, older, idle>>
    /\ UNCHANGED <<screenVars, connected, running, sending, advertised>>

\* The effect is unloaded: the record goes as well.
End ==
    /\ running /\ sending = <<>> /\ ~idle
    /\ running' = FALSE
    /\ Restore
    /\ advertised' = [p \in Programs |-> Nothing]
    /\ UNCHANGED <<screenVars, connected, wish, sending, adSaves>>

Disconnect(p) ==
    /\ p \in connected /\ sending = <<>>
    /\ connected' = connected \ {p}
    /\ outputs' = [outputs EXCEPT ![p] = <<>>] /\ xdgs' = [xdgs EXCEPT ![p] = <<>>]
    /\ announced' = {a \in announced : a[2] # p}
    /\ advertised' = [advertised EXCEPT ![p] = Nothing]
    /\ logical' = [logical EXCEPT ![p] = Nothing] /\ older' = {o \in older : o[1] # p}
    /\ UNCHANGED <<screenVars, wish, running, sending, idle, adSaves>>

\* The programs told of a screen before it changed.
ToldBefore(s) == older \cup {<<p, s>> : p \in {q \in Programs : <<s, q>> \in announced \/ logical[q][s] # Untold}}

\* screenAdded: the new screen is watched before any program can bind it.  What
\* m_clients keeps by the connector's name is not looked at.
Plug(s, now) ==
    /\ s \notin plugged /\ adSaves < MaxAdSaves
    /\ sending = <<>> /\ ~idle
    /\ plugged' = plugged \cup {s} /\ monitor' = [monitor EXCEPT ![s] = now]
    /\ older' = ToldBefore(s)
    /\ adSaves' = adSaves + 1
    /\ UNCHANGED <<withdrawn, connected, wish, running, outputs, xdgs, sending, announced, advertised,
                   logical, idle>>

\* KWin takes the Wayland object of a screen back; its programs' objects are inert.
Unplug(s) ==
    LET inert(objects) == [p \in Programs |-> [i \in DOMAIN objects[p] |->
            IF objects[p][i].screen = s THEN [objects[p][i] EXCEPT !.screen = Gone] ELSE objects[p][i]]] IN
    /\ s \in plugged /\ adSaves < MaxAdSaves
    /\ sending = <<>> /\ ~idle
    /\ plugged' = plugged \ {s} /\ adSaves' = adSaves + 1
    /\ withdrawn' = [withdrawn EXCEPT ![s] = @ + 1]
    /\ outputs' = inert(outputs) /\ xdgs' = inert(xdgs)
    /\ announced' = {IF a[1] = s THEN <<Gone, a[2]>> ELSE a : a \in announced}
    /\ UNCHANGED <<monitor, connected, wish, running, sending, advertised, logical, older, idle>>

\* KWin destroys a Wayland object it withdrew: what was told goes by its name.
Destroy(s) ==
    /\ withdrawn[s] > 0 /\ sending = <<>> /\ ~idle
    /\ withdrawn' = [withdrawn EXCEPT ![s] = @ - 1]
    /\ advertised' = [p \in Programs |-> [advertised[p] EXCEPT ![s] = Untold]]
    /\ UNCHANGED <<plugged, monitor, connected, wish, running, outputs, xdgs, sending, announced, logical,
                   older, idle, adSaves>>

\* The mode, the scale or both of a screen are changed: KWin tells every object of
\* it what changed, and its logical size.
SetUp(s, now, changed) ==
    LET described(o) == [screen |-> o.screen, mode |-> IF "mode" \in changed THEN Real ELSE o.mode,
                         scaled |-> o.scaled /\ "scale" \notin changed] IN
    /\ s \in plugged /\ changed # {} /\ adSaves < MaxAdSaves
    /\ sending = <<>> /\ ~idle
    /\ monitor' = [monitor EXCEPT ![s] = now] /\ adSaves' = adSaves + 1
    /\ outputs' = [p \in Programs |-> [i \in DOMAIN outputs[p] |->
           IF outputs[p][i].screen = s THEN described(outputs[p][i]) ELSE outputs[p][i]]]
    /\ xdgs' = [p \in Programs |-> [i \in DOMAIN xdgs[p] |->
           IF xdgs[p][i].screen = s THEN [xdgs[p][i] EXCEPT !.sent = Real, !.applied = Real] ELSE xdgs[p][i]]]
    /\ older' = ToldBefore(s)
    /\ UNCHANGED <<plugged, withdrawn, connected, wish, running, sending, announced, advertised, logical, idle>>

AdNext ==
    \/ \E p \in Programs, s \in Screens : Bind(p, s)
    \/ \E p \in Programs : \E i \in 1..MaxObjects[p] : CreateXdgOutput(p, i)
    \/ SendEvent \/ Idle \/ End
    \/ \E asked \in Wishes : Save(asked)
    \/ \E p \in Programs : Disconnect(p)
    \/ \E p \in Programs : \E i \in 1..MaxObjects[p] : DestroyXdgOutput(p, i)
    \/ \E s \in Screens : Unplug(s) \/ Destroy(s)
    \/ \E s \in Screens, now \in Monitors : Plug(s, now)
    \/ \E s \in Screens, now \in Monitors, changed \in SUBSET {"mode", "scale"} : SetUp(s, now, changed)

AdSpec == AdInit /\ [][AdNext]_adVars
-----------------------------------------------------------------------------
\* The object of a screen that a program created last.
Newest(objects, s) == objects[Max({i \in DOMAIN objects : objects[i].screen = s})]

\* The logical size that goes with what a program was told last: a mode told with
\* a scale keeps the screen's own.
Belongs(p, s) == IF Newest(outputs[p], s).scaled THEN Real ELSE Newest(outputs[p], s).mode

\* A program never applies a logical size other than the one that belongs with
\* the mode it was told last: not even KWin's own, for a moment, before the
\* told one follows.  A program that has not been told of a screen again since
\* its monitor changed is the exception; see OnlyToldScreens.
\* (logged(), logicalsize.cpp:178-210)
AppliedTogether ==
    [][\A p \in Programs : \A i \in DOMAIN xdgs[p] \cap DOMAIN xdgs'[p] :
           xdgs'[p][i].applied # xdgs[p][i].applied /\ xdgs'[p][i].screen = xdgs[p][i].screen
               => \/ xdgs'[p][i].applied = Belongs(p, xdgs[p][i].screen)'
                  \/ <<p, xdgs[p][i].screen>> \in older']_adVars

\* Nothing a program was told is left with it once nobody would take it back:
\* without an announcement of its screen every object says what KWin said.  The
\* logical size of a changed monitor is not announced, but there is another
\* announcement, so that it goes back with it.
\* (restore(), modeoverride.cpp:290-334, logicalsize.cpp:82-113)
NothingStaysTold ==
    \A p \in connected : \A s \in plugged :
        <<s, p>> \notin announced =>
            /\ \A i \in DOMAIN outputs[p] : outputs[p][i].screen = s =>
                   outputs[p][i].mode = Real /\ ~outputs[p][i].scaled
            /\ \A i \in DOMAIN xdgs[p] : xdgs[p][i].screen = s =>
                   \/ xdgs[p][i].applied \in {Untold, Real}
                   \/ <<p, s>> \in older /\ \E a \in announced : a[2] = p

\* "An object [...] whose output was not told anything, is left as KWin described
\* it": every xdg_output that was told a size is of a screen with an announcement.
\* (answer(), logicalsize.cpp:247-269; violated)
OnlyToldScreens ==
    \A p \in connected : \A i \in DOMAIN xdgs[p] :
        xdgs[p][i].record = "told" /\ xdgs[p][i].screen \in plugged
            => <<xdgs[p][i].screen, p>> \in announced

\* advertised() is "the size last advertised to this client for this output": what
\* a program's wl_output still says is on record.  (modeoverride.h:65; violated)
AdvertisedOnRecord ==
    \A p \in connected : \A i \in DOMAIN outputs[p] :
        outputs[p][i].screen \in plugged /\ (outputs[p][i].mode # Real \/ outputs[p][i].scaled)
            => advertised[p][outputs[p][i].screen] # Untold
=============================================================================
