---------------------------- MODULE WaylandScale ----------------------------
(***************************************************************************)
(* The effect's request to one Wayland surface to render smaller           *)
(* (plugins/upscale/waylandscale.cpp, waylandresize.cpp,                   *)
(* waylandinitial.cpp, autorequest.cpp).  It lowers the preferred scale of *)
(* the window its output would enlarge, waits a number of frames for a     *)
(* smaller buffer, then asks for a smaller fullscreen size, and gives      *)
(* scale and size back when the window stops qualifying or nothing came of *)
(* it.                                                                     *)
(*                                                                         *)
(* KWin sets the same scale itself, whenever the window's output or that   *)
(* output's scale changes, and requests states a client commits later.     *)
(* KWin and the clients are external.  KWin's signals call the handlers    *)
(* synchronously: a handler is an operator from the windows and requests   *)
(* before it, s, to those after it.                                        *)
(***************************************************************************)
EXTENDS Integers, FiniteSets

CONSTANTS
    Surfaces,     \* windows of Wayland clients
    Outputs,
    OutputScales, \* scales an output can have, in percent
    FirstScales,  \* the scale each output has at first
    Ratios,       \* ratios the settings can come to, in percent
    Off,          \* settings that do not act
    NoSurface,
    Clients,      \* for each window, the clients it may be of: what one draws
                  \* smaller for, see Draws, and its slot's method
    OpensOn,      \* the outputs a window may open on
    Patience,     \* frames a client is given, 30 in the code
    MaxScaleChanges    \* bound: how often KWin and the user change something

WholeScale == 100

ASSUME ScaleAssumption ==
    /\ OutputScales \subseteq Nat \ {0} /\ Ratios \subseteq 1..(WholeScale - 1)
    /\ Off \notin 1..WholeScale /\ Outputs # {}
    /\ NoSurface \notin Surfaces
    /\ FirstScales \in [Outputs -> OutputScales]
    /\ Clients \in [Surfaces -> SUBSET [kind : {"scale", "size", "first", "viewport", "deaf"},
                                        method : {"auto", "advertised"}]]
    /\ OpensOn \in [Surfaces -> SUBSET Outputs]
    /\ Patience \in Nat \ {0} /\ MaxScaleChanges \in Nat

VARIABLES
    client,   \* kind of client and method of each window
    scales,   \* the scale of each output
    ratio,    \* the ratio the settings come to, WholeScale or Off
    active,   \* the window that holds the activation
    windows,  \* KWin's state of each window, see Window
    scaleRequests, \* m_requests
    scaleChanges

scaleVars == <<client, scales, ratio, active, windows, scaleRequests, scaleChanges>>

Sizes == {"screen", "smaller", "normal"}

\* What KWin has asked of the window - fullscreen or not, a geometry, a scale -
\* and what its client committed last.  "smaller" is the rectangle the request
\* keeps, at its ratio.
Window == [life : {"none", "new", "mapped", "gone"}, target : Nat,
           asked : BOOLEAN, held : Sizes,
           full : BOOLEAN, frame : Sizes, on : Outputs, small : BOOLEAN]

NoRequest == [ratio |-> WholeScale, original |-> 0, frames |-> 0, answered |-> FALSE,
              ignored |-> FALSE, allowResize |-> FALSE, resizing |-> FALSE]
Request == [ratio : Ratios \cup {WholeScale}, original : Nat, frames : 0..Patience,
            answered : BOOLEAN, ignored : BOOLEAN, allowResize : BOOLEAN,
            resizing : BOOLEAN]

ScaleTypeOK ==
    /\ \A w \in Surfaces : client[w] \in Clients[w]
    /\ scales \in [Outputs -> OutputScales]
    /\ ratio \in Ratios \cup {WholeScale, Off}
    /\ active \in Surfaces \cup {NoSurface}
    /\ windows \in [Surfaces -> Window]
    /\ scaleRequests \in [Surfaces -> Request]
    /\ scaleChanges \in 0..MaxScaleChanges

ScaleInit ==
    /\ client \in {c \in [Surfaces -> UNION {Clients[w] : w \in Surfaces}] :
                        \A w \in Surfaces : c[w] \in Clients[w]}
    /\ scales = FirstScales
    /\ ratio \in Ratios
    /\ active = NoSurface
    /\ windows = [w \in Surfaces |->
            [life |-> "none", target |-> 0, asked |-> FALSE, held |-> "normal",
             full |-> FALSE, frame |-> "normal",
             on |-> CHOOSE o \in Outputs : TRUE, small |-> FALSE]]
    /\ scaleRequests = [w \in Surfaces |-> NoRequest]
    /\ scaleChanges = 0

-----------------------------------------------------------------------------
\* What the handlers read.

Known(s, w) == s.requests[w] # NoRequest

Times(scale, part) == (scale * part) \div WholeScale

\* resizedGeometry(): the smaller geometry a standing request keeps.
Resized(s, w) == s.requests[w].resizing /\ ~s.requests[w].ignored

\* A window out of fullscreen has a decoration scheduled.
RequestedPresentation(s, w) ==
    LET win == s.windows[w] IN
    \/ Resized(s, w) /\ win.asked /\ win.held = "smaller"
    \/ win.held = "screen" /\ (win.full \/ win.asked)

DrawnOver(s, w) == s.windows[w].full /\ Resized(s, w) /\ s.windows[w].frame = "smaller"

\* A fullscreen window switched away from keeps its state: it counts while what
\* holds the activation is on another output.
Showing(s, w) ==
    \/ active \in {NoSurface, w}
    \/ s.windows[active].on # s.windows[w].on

Qualifies(s, w) ==
    LET win == s.windows[w] IN
    /\ win.life = "mapped" /\ win.full
    /\ Showing(s, w)
    /\ ratio # Off
    /\ win.frame = "screen" \/ DrawnOver(s, w)

\* upscaleWindowAwaitingBuffer(): the only window on the output that would be
\* enlarged once its buffer allowed it.
Awaiting(s, o) ==
    LET found == {w \in Surfaces : s.windows[w].on = o /\ Qualifies(s, w)} IN
    IF Cardinality(found) = 1 THEN CHOOSE w \in found : TRUE ELSE NoSurface

-----------------------------------------------------------------------------
\* The handlers.

\* A fullscreen rectangle that is still the request's goes back to the output's;
\* a window leaving fullscreen has its own geometry scheduled already.
RestoredGeometry(s, w, request) ==
    LET win == s.windows[w] IN
    IF request.resizing /\ win.asked /\ win.held = "smaller"
    THEN [win EXCEPT !.held = "screen"]
    ELSE win

\* Forgotten before the scale goes back: the signal of the one must not find the
\* other.
ReleaseScale(s, w) ==
    IF ~Known(s, w) THEN s
    ELSE [windows |-> [s.windows EXCEPT ![w] =
              [RestoredGeometry(s, w, s.requests[w]) EXCEPT !.target = s.requests[w].original]],
          requests |-> [s.requests EXCEPT ![w] = NoRequest]]

\* Seeded fault: the scale is set again, and KWin's own value forgotten.
TargetReasserted(s, w) ==
    LET entry == s.requests[w] IN
    IF ~Known(s, w) \/ entry.ignored \/ entry.resizing THEN s
    ELSE [s EXCEPT !.windows[w].target = Times(entry.original, entry.ratio)]

\* nextTargetScaleChanged: the value this control set, heard back, or KWin's,
\* which is the window's own scale from then on.  The signal of the scale set
\* here is heard back and changes nothing.
TargetHeard(s, w) ==
    LET entry == s.requests[w]
        current == s.windows[w].target
        set == IF entry.ignored \/ entry.resizing THEN entry.original
               ELSE Times(entry.original, entry.ratio)
        kept == [s EXCEPT !.requests[w].original = current]
    IN  IF ~Known(s, w) \/ current = set THEN s
        ELSE IF entry.resizing THEN ReleaseScale(kept, w)
        ELSE IF entry.ignored THEN kept
        ELSE [kept EXCEPT !.windows[w].target = Times(current, entry.ratio)]

\* setNextTargetScale() by KWin: a value that does not change signals nothing.
SetTarget(s, w, scale) ==
    IF s.windows[w].target = scale THEN s
    ELSE TargetHeard([s EXCEPT !.windows[w].target = scale], w)

\* A window that stops being the one its output would enlarge gets back what
\* was asked of it; one whose first configure is being made is judged later.
Recheck(s, w) ==
    IF /\ s.windows[w].life = "mapped"
       /\ Awaiting(s, s.windows[w].on) # w \/ ~RequestedPresentation(s, w)
    THEN ReleaseScale(s, w)
    ELSE s

\* The state first: the signals of both changes must see the request being made.
Resize(s, w) ==
    LET entry == s.requests[w]
        asked == [s EXCEPT !.requests[w].resizing = TRUE, !.requests[w].frames = 0,
                           !.windows[w].target = entry.original,
                           !.windows[w].held = "smaller"]
    IN  Recheck(asked, w)

\* The client did nothing with the request: it keeps its own scale and geometry,
\* and the request, so that it is not asked the same question again.
IgnoreAnswer(s, w) ==
    LET told == [s EXCEPT !.requests[w].ignored = TRUE,
                          !.windows[w].target = s.requests[w].original]
        back == RestoredGeometry(told, w, s.requests[w])
    IN  IF back = told.windows[w] THEN told
        ELSE Recheck([told EXCEPT !.windows[w] = back], w)

\* Seeded fault: the smaller size is waited for without end.
CheckAnswerOnce(s, w) ==
    LET win == s.windows[w]
        entry == s.requests[w]
    IN  IF ~(win.frame = "screen" \/ DrawnOver(s, w)) THEN ReleaseScale(s, w)
        ELSE IF win.small THEN [s EXCEPT !.requests[w].answered = TRUE]
        ELSE IF entry.resizing THEN s
        ELSE IF entry.frames + 1 < Patience THEN [s EXCEPT !.requests[w].frames = @ + 1]
        ELSE IF entry.allowResize /\ win.asked THEN Resize(s, w)
        ELSE IgnoreAnswer(s, w)

\* checkAnswer(): a smaller buffer answers; a client out of patience is asked for
\* a smaller size where its method allows, and then left alone.
CheckAnswer(s, w) ==
    LET win == s.windows[w]
        counted == [s EXCEPT !.requests[w].frames = @ + 1]
        entry == counted.requests[w]
    IN  IF ~(win.frame = "screen" \/ DrawnOver(s, w)) THEN ReleaseScale(s, w)
        ELSE IF win.small THEN [s EXCEPT !.requests[w].answered = TRUE]
        ELSE IF entry.frames < Patience THEN counted
        ELSE IF ~entry.resizing /\ entry.allowResize /\ win.asked
             THEN Resize(counted, w)
        ELSE IgnoreAnswer(counted, w)

\* request(): a fresh question, a different one, or the frame's look at the
\* answer.
AskAfresh(s, w, wish, allowResize) ==
    LET entry == s.requests[w]
        original == s.windows[w].target
        fresh == [NoRequest EXCEPT !.ratio = wish, !.original = original,
                                   !.allowResize = allowResize]
    IN  IF wish >= WholeScale \/ ~RequestedPresentation(s, w) THEN ReleaseScale(s, w)
        ELSE IF ~Known(s, w)
             THEN [windows |-> [s.windows EXCEPT ![w].target = Times(original, wish)],
                   requests |-> [s.requests EXCEPT ![w] = fresh]]
        ELSE IF entry.ratio # wish
             THEN IF entry.resizing THEN ReleaseScale(s, w)
                  ELSE [windows |-> [s.windows EXCEPT ![w].target = Times(entry.original, wish)],
                        requests |-> [s.requests EXCEPT ![w] =
                            [entry EXCEPT !.ratio = wish, !.frames = 0, !.answered = FALSE,
                                          !.ignored = FALSE]]]
        ELSE IF entry.answered \/ entry.ignored THEN s
        ELSE CheckAnswer(s, w)

\* A window that draws smaller without being asked is left alone.
AutoRatio(s, w) ==
    IF ratio = Off \/ (s.windows[w].small /\ ~Known(s, w)) THEN WholeScale ELSE ratio

ReleaseOthers(s, o, kept) ==
    LET others == {w \in Surfaces \ {kept} : Known(s, w) /\ s.windows[w].life = "mapped"
                                              /\ s.windows[w].on = o}
    IN  [windows |-> [w \in Surfaces |->
             IF w \in others THEN ReleaseScale(s, w).windows[w] ELSE s.windows[w]],
         requests |-> [w \in Surfaces |->
             IF w \in others THEN NoRequest ELSE s.requests[w]]]

-----------------------------------------------------------------------------
Alive(w) == windows[w].life \in {"new", "mapped"}

Now == [windows |-> windows, requests |-> scaleRequests]

Becomes(after) == \E s \in {after} : windows' = s.windows /\ scaleRequests' = s.requests

Changed == scaleChanges < MaxScaleChanges /\ scaleChanges' = scaleChanges + 1

\* A frame of one output.
AskForSmallerBuffer(o) ==
    /\ UNCHANGED <<client, scales, ratio, active, scaleChanges>>
    /\ \E w \in {Awaiting(Now, o)} : \E alone \in {ReleaseOthers(Now, o, w)} :
           Becomes(IF w = NoSurface THEN alone
                   ELSE AskAfresh(alone, w, AutoRatio(alone, w), client[w].method = "auto"))

\* KWin initializes a toplevel that asked for fullscreen before its first
\* configure: a client without fractional scales gets the smaller size in it.
Initialize(w, o) ==
    LET new == [windows[w] EXCEPT !.life = "new", !.target = scales[o], !.asked = TRUE,
                                  !.held = "screen", !.on = o]
        placed == [Now EXCEPT !.windows[w] = new]
        first == [NoRequest EXCEPT !.ratio = ratio, !.original = scales[o]]
    IN  /\ windows[w].life = "none"
        /\ Becomes(IF /\ client[w] = [kind |-> "first", method |-> "auto"]
                      /\ scales[o] = 100
                      /\ ratio \in 50..(WholeScale - 1)
                   THEN Resize([placed EXCEPT !.requests[w] = first], w)
                   ELSE placed)
        /\ UNCHANGED <<client, scales, ratio, active, scaleChanges>>

\* What a client of each kind draws, once it acts on what KWin asks of it: one
\* follows the scale, one the size of its window, one the size it was told
\* first; one shows its old buffer in a smaller window, one does nothing.
TakesSize(w) ==
    \/ client[w].kind \in {"size", "viewport"}
    \/ client[w].kind = "first" /\ (windows[w].life = "new" \/ windows[w].frame = "smaller")

Draws(w) ==
    LET win == windows[w]
        frame == IF win.held = "smaller" /\ ~TakesSize(w) THEN "screen" ELSE win.held IN
    [win EXCEPT !.life = "mapped", !.full = win.asked, !.frame = frame,
                !.small = \/ client[w].kind = "scale" /\ win.target < scales[win.on]
                          \/ client[w].kind \in {"size", "first"} /\ frame = "smaller"]

\* The client commits: KWin's signals follow where its state changed.
Commit(w) ==
    LET win == Draws(w) IN
    /\ windows[w].life \in {"new", "mapped"}
    /\ win # windows[w]
    /\ Becomes(IF [win EXCEPT !.small = windows[w].small] = windows[w]
               THEN [Now EXCEPT !.windows[w] = win]
               ELSE Recheck([Now EXCEPT !.windows[w] = win], w))
    /\ active' = IF windows[w].life = "new" THEN w ELSE active
    /\ UNCHANGED <<client, scales, ratio, scaleChanges>>

\* KWin asks the window for another state: frameGeometryAboutToChange is sent
\* before the configure.
ChangeState(w) ==
    /\ windows[w].life = "mapped"
    /\ Changed
    /\ Becomes(Recheck([Now EXCEPT !.windows[w].asked = ~windows[w].asked,
                                   !.windows[w].held = IF windows[w].asked THEN "normal"
                                                       ELSE "screen"], w))
    /\ UNCHANGED <<client, scales, ratio, active>>

\* KWin moves the window to another output, and sets that output's scale first.
MoveToOutput(w, o) ==
    /\ windows[w].life = "mapped" /\ windows[w].on # o
    /\ windows[w].full = windows[w].asked
    /\ Changed
    /\ LET told == SetTarget(Now, w, scales[o])
           size == IF windows[w].asked THEN "screen" ELSE "normal" IN
       Becomes(Recheck([told EXCEPT !.windows[w].on = o, !.windows[w].held = size,
                                    !.windows[w].frame = size], w))
    /\ UNCHANGED <<client, scales, ratio, active>>

\* The scale of an output changes, and KWin sets it on the windows there.
RescaleOutput(o, scale) ==
    /\ scales[o] # scale
    /\ Changed
    /\ scales' = [scales EXCEPT ![o] = scale]
    /\ LET told == [w \in Surfaces |-> IF windows[w].on = o /\ Alive(w)
                                        THEN SetTarget(Now, w, scale) ELSE Now] IN
       Becomes([windows |-> [w \in Surfaces |-> told[w].windows[w]],
                requests |-> [w \in Surfaces |-> told[w].requests[w]]])
    /\ UNCHANGED <<client, ratio, active>>

Activate(w) ==
    /\ w # active
    /\ w # NoSurface => windows[w].life = "mapped"
    /\ Changed
    /\ active' = w
    /\ UNCHANGED <<client, scales, ratio, windows, scaleRequests>>

\* The settings are saved: everything asked is given back.
Reconfigure(wish) ==
    /\ wish # ratio
    /\ Changed
    /\ ratio' = wish
    /\ LET known == {w \in Surfaces : Known(Now, w)} IN
       Becomes([windows |-> [w \in Surfaces |-> IF w \in known THEN ReleaseScale(Now, w).windows[w]
                                                ELSE windows[w]],
                requests |-> [w \in Surfaces |-> NoRequest]])
    /\ UNCHANGED <<client, scales, active>>

Close(w) ==
    /\ windows[w].life \in {"new", "mapped"}
    /\ Changed
    /\ Becomes([Now EXCEPT !.windows[w].life = "gone", !.requests[w] = NoRequest])
    /\ active' = IF active = w THEN NoSurface ELSE active
    /\ UNCHANGED <<client, scales, ratio>>

ScaleNext ==
    \/ \E o \in Outputs : AskForSmallerBuffer(o)
    \/ \E w \in Surfaces : Commit(w) \/ ChangeState(w) \/ Close(w)
    \/ \E w \in Surfaces : \E o \in OpensOn[w] : Initialize(w, o)
    \/ \E w \in Surfaces, o \in Outputs : MoveToOutput(w, o)
    \/ \E o \in Outputs, scale \in OutputScales : RescaleOutput(o, scale)
    \/ \E w \in Surfaces \cup {NoSurface} : Activate(w)
    \/ \E wish \in Ratios \cup {WholeScale, Off} : Reconfigure(wish)

ScaleFairness == \A o \in Outputs : WF_scaleVars(AskForSmallerBuffer(o))

ScaleSpec == ScaleInit /\ [][ScaleNext]_scaleVars /\ ScaleFairness
-----------------------------------------------------------------------------
\* What was asked of a window goes back with the request.  One whose scale is not
\* asked for has the scale of the output KWin put it on, so whatever KWin set
\* while a request stood is what it got; one kept smaller than its output has a
\* request that stands.  (observe() and release(), waylandscale.cpp:72-94,
\* 234-259; restoreGeometry(), waylandresize.cpp:40-47)
GivenBack ==
    \A w \in Surfaces : Alive(w) =>
        /\ scaleRequests[w] = NoRequest \/ scaleRequests[w].ignored \/ scaleRequests[w].resizing
               => windows[w].target = scales[windows[w].on]
        /\ windows[w].asked /\ windows[w].held = "smaller" => Resized(Now, w)

\* A client that draws is never waited for for ever: what was asked is answered,
\* given up or withdrawn, as long as frames are drawn, whatever the client does.
\* (checkAnswer(), waylandscale.cpp:171-205)
Waiting(w) == Known(Now, w) /\ ~scaleRequests[w].answered /\ ~scaleRequests[w].ignored

RequestEnds == \A w \in Surfaces : windows[w].life = "mapped" /\ Waiting(w) ~> ~Waiting(w)
=============================================================================
