---------------------------- MODULE EffectFrames ----------------------------
(***************************************************************************)
(* The effect's frames (plugins/upscale/upscale.cpp, upscale_over.cpp,     *)
(* upscale_display.cpp, display.cpp): which window an output enlarges, how *)
(* much of the output a frame repaints, what a refused or failed pass      *)
(* leaves behind, and when the text drawn over the picture is erased.      *)
(*                                                                         *)
(* KWin repaints what is damaged and calls the paint hooks of an effect    *)
(* that says it is active.  It repaints everything when windows are opened,*)
(* closed, raised or moved to another output, and on an output that is     *)
(* locked or changed.  A frame is painted without interruption.            *)
(***************************************************************************)
EXTENDS Integers, FiniteSets

CONSTANTS
    Games,      \* windows
    NoGame,
    Heads,      \* outputs
    Shown,      \* ticks an announcement stays, OsdTimeout
    FirstOsds,  \* the display's settings at first
    Wayland,    \* the windows a smaller buffer can be asked of
    Openings,   \* how windows open: which, on which output, in which shape
    MaxEvents   \* bound: how often something happens besides frames

Osds == {"off", "timed", "always"}
Shapes == {"full", "over", "windowed"}

ASSUME FramesAssumption ==
    /\ NoGame \notin Games /\ Heads # {} /\ Shown \in Nat \ {0} /\ MaxEvents \in Nat
    /\ FirstOsds \subseteq Osds /\ Wayland \subseteq Games
    /\ Openings \subseteq [game : Games, on : Heads, shape : Shapes, small : BOOLEAN]

VARIABLES
    games,       \* each window: its life, output and shape, and whether its
                 \* settings, surface and buffer leave something to enlarge
    activeGame,  \* the active window
    locked,
    colored,     \* outputs whose colours cannot be drawn in
    adjusted,    \* outputs another effect adjusts the pass of
    osd,         \* the display's settings
    failed,      \* m_failed
    unsupported, \* m_unsupportedColors
    scaler,      \* m_scaler
    enlargedBy,  \* m_enlarged
    drawnOver,   \* m_drawnOver
    rendered,    \* m_renderedInputs
    display,     \* m_drawn, m_announced and what is left of its time
    damage,      \* what KWin is to repaint of each output
    pixels,      \* what each output shows: a picture, whole or
                 \* not, and the window the text over it is of
    asked,       \* m_requests: the windows asked for a smaller buffer, and those
                 \* whose answer, or silence, is known
    happened,
    behind       \* history: outputs KWin painted without the effect while the effect took a
                 \* window for enlarged or had text there, until it paints them whole

frameVars == <<games, activeGame, locked, colored, adjusted, osd, failed, unsupported, scaler,
               enlargedBy, drawnOver, rendered, display, damage, pixels, asked, happened, behind>>

FramesTypeOK ==
    /\ games \in [Games -> [life : {"none", "open", "gone"}, on : Heads, shape : Shapes,
                            small : BOOLEAN]]
    /\ activeGame \in Games \cup {NoGame} /\ locked \in BOOLEAN
    /\ colored \subseteq Heads /\ adjusted \subseteq Heads /\ osd \in Osds
    /\ failed \in BOOLEAN /\ unsupported \subseteq Games /\ scaler \in BOOLEAN
    /\ enlargedBy \in [Heads -> Games \cup {NoGame}] /\ drawnOver \in [Heads -> Games \cup {NoGame}]
    /\ rendered \subseteq Games
    /\ display \in [drawn : BOOLEAN, announced : Games \cup {NoGame}, left : 0..Shown]
    /\ damage \in [Heads -> {"none", "part", "source", "full"}]
    /\ pixels \in [Heads -> [by : Games \cup {NoGame}, whole : BOOLEAN,
                             text : Games \cup {NoGame}]]
    /\ asked \in [Games -> {"no", "waiting", "over"}]
    /\ happened \in 0..MaxEvents /\ behind \subseteq Heads

FramesInit ==
    /\ games = [w \in Games |-> [life |-> "none", on |-> CHOOSE o \in Heads : TRUE,
                                 shape |-> "windowed", small |-> FALSE]]
    /\ activeGame = NoGame /\ locked = FALSE /\ colored = {} /\ adjusted = {} /\ osd \in FirstOsds
    /\ failed = FALSE /\ unsupported = {} /\ scaler = FALSE
    /\ enlargedBy = [o \in Heads |-> NoGame] /\ drawnOver = [o \in Heads |-> NoGame]
    /\ rendered = {}
    /\ display = [drawn |-> FALSE, announced |-> NoGame, left |-> 0]
    /\ damage = [o \in Heads |-> "full"]
    /\ pixels = [o \in Heads |-> [by |-> NoGame, whole |-> TRUE, text |-> NoGame]]
    /\ asked = [w \in Games |-> "no"] /\ happened = 0 /\ behind = {}

-----------------------------------------------------------------------------
\* A window switched away from on its own output is not shown there.
Uncovered(w) ==
    activeGame \in {NoGame, w} \/ games[activeGame].on # games[w].on

\* placementRefusal(): where and how the window is shown allows it.
Placed(w) == games[w].life = "open" /\ games[w].shape # "windowed" /\ Uncovered(w)

\* windowRefusal(): so do its surface and its buffer.
Eligible(w) == Placed(w) /\ games[w].small

EligibleOn(o) == {w \in Games : games[w].on = o /\ Eligible(w)}

\* findCandidate(): the only eligible window of an output.
FindCandidate(o) ==
    LET found == EligibleOn(o) IN
    IF failed \/ locked \/ Cardinality(found) # 1 \/ found \subseteq unsupported THEN NoGame
    ELSE CHOOSE w \in found : TRUE

\* candidate() outside a paint pass: one of any output.
SomeCandidate == \E o \in Heads : FindCandidate(o) # NoGame

\* explained(): the active window, presenting full screen.
Explained ==
    IF activeGame # NoGame /\ games[activeGame].shape # "windowed" THEN activeGame ELSE NoGame

Announcing(w) == display.announced # w \/ display.left > 0

\* activeFor()
DisplayActiveFor(w) == osd = "always" \/ (osd = "timed" /\ Announcing(w))

\* upscaleWindowAwaitingBuffer(): the window an output would enlarge once its
\* buffer allowed it.
BufferAwaited(o) ==
    LET placed == {w \in Games : games[w].on = o /\ Placed(w)} IN
    IF Cardinality(placed) = 1 THEN CHOOSE w \in placed : TRUE ELSE NoGame

\* autoWaiting(): one to ask, or one asked that has not answered.
AutoWaiting ==
    \/ \E w \in Games : asked[w] = "waiting"
    \/ \E o \in Heads :
           BufferAwaited(o) \in {w \in Wayland : asked[w] = "no" /\ ~games[w].small}

\* isActive(): otherwise KWin calls no hook.
IsActive ==
    SomeCandidate \/ AutoWaiting \/ (~locked /\ Explained # NoGame /\ DisplayActiveFor(Explained))

Full == [o \in Heads |-> "full"]

\* The worse of two damages of an output: of a part of it, of all that a picture
\* is made from, or of the whole of it.
Damaged(o, part) ==
    [damage EXCEPT ![o] = IF "full" \in {@, part} THEN "full"
                          ELSE IF "source" \in {@, part} THEN "source" ELSE "part"]

\* hide(): text that reached the screen is erased by a frame of its own.
Hidden == [display EXCEPT !.drawn = FALSE]

\* releaseWhatTheGameLeftBehind(), after what happened: the text of nothing, and
\* the buffers of no window, go.
Release(damaged) ==
    LET hides == display.drawn /\ (~(SomeCandidate' \/ Explained' # NoGame) \/ locked') IN
    /\ display' = IF hides THEN Hidden ELSE display
    /\ damage' = IF hides THEN Full ELSE damaged
    /\ scaler' = (scaler /\ SomeCandidate')

-----------------------------------------------------------------------------
\* Seeded fault: only a window drawn over its output has it painted whole.
PaintedOver(o, drawn) ==
    drawnOver[o] # NoGame \/ (drawn # NoGame /\ games[drawn].shape = "over")

\* preparePaintArea(): the frame in which a window starts or stops being
\* enlarged, every frame it is drawn over its output and the one after.
PaintedWhole(o, drawn) ==
    \/ enlargedBy[o] # drawn
    \/ drawnOver[o] # NoGame
    \/ drawn # NoGame /\ games[drawn].shape = "over"

\* What becomes of the candidate's pass; the driver may fail at any.
Outcomes(o, drawn) ==
    IF drawn = NoGame THEN {"none"}
    ELSE IF o \in colored THEN {"colors"}
    ELSE IF o \in adjusted THEN {"pass"}
    ELSE {"enlarged", "failure"}

\* What the output shows after painting a part of it or all.
Painted(o, by, all) ==
    LET before == pixels[o] IN
    [by |-> by,
     whole |-> all \/ (before.whole /\ before.by = by /\ damage[o] # "source"),
     text |-> IF all THEN NoGame ELSE before.text]

\* The display a frame of o draws: of the window selected, else explained.
Described(o) == IF FindCandidate(o) # NoGame THEN FindCandidate(o) ELSE Explained

\* update() and compose(): a window not announced yet is, for a while; figures
\* stay.
Composed(w) ==
    LET fresh == w # display.announced IN
    [drawn |-> osd = "always" \/ fresh \/ display.left > 0, announced |-> w,
     left |-> IF fresh THEN Shown ELSE display.left]

\* paintDisplay(), once the frame is painted: shown, or hidden, or of a window
\* that is elsewhere.
PaintDisplay(o, after, again) ==
    LET w == Described(o)'
        rest == IF again THEN Full ELSE [damage EXCEPT ![o] = "none"]
    IN  IF locked \/ w = NoGame \/ (games[w].on = o /\ osd = "off")
        THEN /\ display' = Hidden
             /\ damage' = IF display.drawn THEN Full ELSE rest
             /\ pixels' = [pixels EXCEPT ![o] = after]
        ELSE IF games[w].on # o
        THEN display' = display /\ damage' = rest /\ pixels' = [pixels EXCEPT ![o] = after]
        ELSE /\ display' = Composed(w)
             /\ damage' = rest
             /\ pixels' = [pixels EXCEPT ![o] = [after EXCEPT !.text = IF Composed(w).drawn THEN w ELSE @]]

\* drawWindow() of the candidate: a pass that cannot be replaced leaves the
\* window to KWin, and one that will not be for long has everything painted again.
DrawCandidate(o, drawn, outcome) ==
    /\ unsupported' = IF outcome = "colors" THEN unsupported \cup {drawn} ELSE unsupported
    /\ failed' = (failed \/ outcome = "failure")
    /\ scaler' = ((scaler \/ outcome = "enlarged") /\ outcome # "failure")
    /\ rendered' = (rendered \ {w \in Games : games[w].on = o})
                        \cup (IF outcome = "enlarged" THEN {drawn} ELSE {})

\* askForSmallerBuffer(): others of the output are let go; the one asked answers,
\* or its patience ends, in one of the frames (WaylandScale).
RequestAnswered(w) ==
    IF asked[w] = "no" THEN (IF games[w].small THEN {"no"} ELSE {"waiting"})
    ELSE IF asked[w] = "over" \/ games[w].small THEN {"over"} ELSE {"waiting", "over"}
AskForBuffer(o, w) ==
    \E answer \in IF w \in Wayland THEN RequestAnswered(w) ELSE {"no"} :
        asked' = [v \in Games |-> IF v = w THEN answer ELSE IF games[v].on = o THEN "no" ELSE asked[v]]

\* A frame of an output while the effect is active.
Frame(o) ==
    LET drawn == FindCandidate(o)
        all == damage[o] = "full" \/ PaintedWhole(o, drawn) IN
    /\ IsActive /\ damage[o] # "none"
    /\ enlargedBy' = [enlargedBy EXCEPT ![o] = drawn]
    /\ drawnOver' = [drawnOver EXCEPT ![o] =
           IF drawn # NoGame /\ games[drawn].shape = "over" THEN drawn ELSE NoGame]
    /\ behind' = IF all THEN behind \ {o} ELSE behind
    /\ AskForBuffer(o, IF drawn # NoGame THEN drawn ELSE BufferAwaited(o))
    /\ UNCHANGED <<games, activeGame, locked, colored, adjusted, osd, happened>>
    /\ \E outcome \in Outcomes(o, drawn) :
           /\ DrawCandidate(o, drawn, outcome)
           /\ PaintDisplay(o, Painted(o, IF outcome = "enlarged" THEN drawn ELSE NoGame, all),
                           outcome \in {"colors", "failure"})

\* A frame without the effect.
PlainFrame(o) ==
    /\ ~IsActive /\ damage[o] # "none"
    /\ pixels' = [pixels EXCEPT ![o] = Painted(o, NoGame, damage[o] = "full")]
    /\ damage' = [damage EXCEPT ![o] = "none"]
    /\ behind' = IF enlargedBy[o] # NoGame \/ pixels'[o].text # NoGame THEN behind \cup {o} ELSE behind
    /\ UNCHANGED <<games, activeGame, locked, colored, adjusted, osd, failed, unsupported, scaler,
                   enlargedBy, drawnOver, rendered, display, asked, happened>>

-----------------------------------------------------------------------------
Happens == happened < MaxEvents /\ happened' = happened + 1

\* recheck(): a window that stopped being its output's only one is let go.
Rechecked(w) ==
    asked' = [asked EXCEPT ![w] = IF \E o \in Heads : BufferAwaited(o)' = w THEN @ ELSE "no"]

Settled == UNCHANGED <<osd, failed, enlargedBy, drawnOver, pixels, behind>>

Open(new) ==
    /\ Happens /\ games[new.game].life = "none"
    /\ games' = [games EXCEPT ![new.game] = [life |-> "open", on |-> new.on, shape |-> new.shape,
                                             small |-> new.small]]
    /\ activeGame' = new.game
    /\ UNCHANGED <<locked, colored, adjusted, unsupported, rendered, asked>> /\ Settled
    /\ Release(Full)

\* Seeded fault: a window is painted again where its client drew.
DamagesPart(w) ==
    Damaged(games[w].on, IF pixels[games[w].on].by = w THEN "source" ELSE "part")

\* windowDamaged: the enlargement reads neighbouring pixels, so the whole of an
\* enlarged window is painted again; one drawn over its output is anyway.
Damages(w) ==
    LET o == games[w].on IN
    Damaged(o, IF \E other \in Heads : enlargedBy[other] = w
               THEN IF games[w].shape = "full" THEN "full" ELSE "part"
               ELSE IF pixels[o].by = w THEN "source" ELSE "part")

\* A commit, of another size perhaps, into the same rectangle.
CommitBuffer(w, small) ==
    /\ Happens /\ games[w].life = "open"
    /\ games' = [games EXCEPT ![w].small = small]
    /\ damage' = Damages(w)
    /\ UNCHANGED <<activeGame, locked, colored, adjusted, unsupported, scaler, rendered, display,
                   asked>>
    /\ Settled

\* A window enters or leaves fullscreen, which is signalled, or changes its size
\* only; KWin repaints the rectangles it had and has.
Reshape(w, shape, signalled) ==
    LET touched == IF "full" \in {shape, games[w].shape} THEN "full" ELSE "part" IN
    /\ Happens /\ games[w].life = "open" /\ games[w].shape # shape
    /\ signalled => touched = "full"
    /\ games' = [games EXCEPT ![w].shape = shape]
    /\ UNCHANGED <<activeGame, locked, colored, adjusted, unsupported, rendered>> /\ Settled /\ Rechecked(w)
    /\ IF signalled THEN Release(Damaged(games[w].on, touched))
       ELSE damage' = Damaged(games[w].on, touched) /\ UNCHANGED <<scaler, display>>

Raise(w) ==
    /\ Happens /\ w \in ({NoGame} \cup {v \in Games : games[v].life = "open"}) \ {activeGame}
    /\ activeGame' = w
    /\ UNCHANGED <<games, locked, colored, adjusted, unsupported, rendered, asked>> /\ Settled
    /\ Release(Full)

CloseGame(w) ==
    /\ Happens /\ games[w].life = "open"
    /\ games' = [games EXCEPT ![w].life = "gone"]
    /\ activeGame' = IF activeGame = w THEN NoGame ELSE activeGame
    /\ unsupported' = unsupported \ {w} /\ rendered' = rendered \ {w}
    /\ asked' = [asked EXCEPT ![w] = "no"]
    /\ UNCHANGED <<locked, colored, adjusted>> /\ Settled
    /\ Release(Full)

LockScreen ==
    /\ Happens /\ locked' = ~locked
    /\ UNCHANGED <<games, activeGame, colored, adjusted, unsupported, rendered, asked>> /\ Settled
    /\ Release(Full)

MoveGame(w, o) ==
    /\ Happens /\ games[w].life = "open" /\ games[w].on # o
    /\ games' = [games EXCEPT ![w].on = o]
    /\ damage' = Full
    /\ UNCHANGED <<activeGame, locked, colored, adjusted, unsupported, scaler, rendered, display>>
    /\ Settled /\ Rechecked(w)

\* watchOutput(): a colour refusal is valid for the configuration it was painted in.
ChangeOutput(o) ==
    /\ Happens /\ colored' = IF o \in colored THEN colored \ {o} ELSE colored \cup {o}
    /\ unsupported' = {w \in unsupported : games[w].on # o}
    /\ damage' = Full
    /\ UNCHANGED <<games, activeGame, locked, adjusted, scaler, rendered, display, asked>> /\ Settled

\* Another effect starts or ends a transition of the output.
AdjustPass(o) ==
    /\ Happens /\ adjusted' = IF o \in adjusted THEN adjusted \ {o} ELSE adjusted \cup {o}
    /\ damage' = Full
    /\ UNCHANGED <<games, activeGame, locked, colored, unsupported, scaler, rendered, display, asked>>
    /\ Settled

\* reconfigure()
SaveSettings(newOsd) ==
    /\ Happens /\ osd' = newOsd
    /\ failed' = FALSE /\ rendered' = {} /\ unsupported' = {} /\ scaler' = FALSE
    /\ asked' = [w \in Games |-> "no"]
    /\ display' = [drawn |-> FALSE, announced |-> NoGame, left |-> 0]
    /\ damage' = Full
    /\ UNCHANGED <<games, activeGame, locked, colored, adjusted, enlargedBy, drawnOver, pixels,
                   behind>>

\* The announcement's time passes; its timer asks for the frame that erases it.
Expire ==
    /\ display.left > 0
    /\ display' = [display EXCEPT !.left = @ - 1]
    /\ damage' = IF display.left = 1 THEN Full ELSE damage
    /\ UNCHANGED <<games, activeGame, locked, colored, adjusted, unsupported, scaler, rendered,
                   asked, happened>>
    /\ Settled

FramesNext ==
    \/ \E o \in Heads : Frame(o) \/ PlainFrame(o) \/ ChangeOutput(o) \/ AdjustPass(o)
    \/ \E new \in Openings : Open(new)
    \/ \E w \in Games, small \in BOOLEAN : CommitBuffer(w, small)
    \/ \E w \in Games, shape \in Shapes, signalled \in BOOLEAN : Reshape(w, shape, signalled)
    \/ \E w \in Games \cup {NoGame} : Raise(w)
    \/ \E w \in Games : CloseGame(w)
    \/ \E w \in Games, o \in Heads : MoveGame(w, o)
    \/ \E newOsd \in Osds : SaveSettings(newOsd)
    \/ LockScreen \/ Expire

FramesSpec == FramesInit /\ [][FramesNext]_frameVars
-----------------------------------------------------------------------------
\* What an output shows is of one piece and about something.  The frames of an
\* output never leave a picture beside the one before it, and no text but that of
\* the window described there, while it is to be shown; what does not hold is
\* about to be painted again.  Left out are the outputs KWin painted without the
\* effect after the effect had left something there, until a frame of the
\* effect's paints the whole of them (see StartsWhole and TextComesOff).
\* (preparePaintArea(), upscale_over.cpp:43-67; releaseWhatTheGameLeftBehind() and
\* watchWindow(), upscale.cpp:158-208; paintDisplay(), upscale_display.cpp:72-105;
\* hide(), display.cpp:305-322)
ScreenStaysTrue ==
    \A o \in Heads \ behind : damage[o] = "none" =>
        /\ pixels[o].whole
        /\ pixels[o].text # NoGame =>
               pixels[o].text = Described(o) /\ ~locked /\ DisplayActiveFor(pixels[o].text)

\* "A window that starts being enlarged changes its whole picture at once [...]:
\* either frame is painted whole, whatever the commit that caused it damaged"
\* (upscale_over.cpp:47-49; violated)
StartsWhole ==
    [][\A o \in Heads, w \in Games :
           Frame(o) /\ pixels[o].by # w /\ pixels'[o].by = w => pixels'[o].whole]_frameVars

\* "The moments a display can stop having anything to describe [...] are the only
\* chances to take what was drawn off the screen" (upscale.cpp:108-110): text left
\* on an output is about to be painted over when there is nothing to describe.  (violated)
TextComesOff ==
    \A o \in Heads : damage[o] = "none" /\ pixels[o].text # NoGame => SomeCandidate \/ Explained # NoGame
=============================================================================
