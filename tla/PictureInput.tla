---------------------------- MODULE PictureInput ----------------------------
(***************************************************************************)
(* Where the pointer, touch and pens go while a picture is shown larger    *)
(* than the window it belongs to: the two input filters of the effect,     *)
(* UpscalePictureInput (pictureinput.cpp, with touchinput.cpp and          *)
(* tabletinput.cpp) for letterboxed windows and windows drawn over their   *)
(* output, and UpscaleX11Input (x11input.cpp) for presented X11 windows.   *)
(*                                                                         *)
(* Both stand in one chain ahead of KWin's own filters and share one seat. *)
(* KWin moves the seat's focus only when its own hit test finds another    *)
(* window than before, entering the surface it already has tells a client  *)
(* nothing, and a motion to where the pointer already is is suppressed: so *)
(* what a client was told can differ from what the seat holds, and the     *)
(* filters have to make it right again.                                    *)
(*                                                                         *)
(* One output shows one game at named places; another window may be above  *)
(* it, and beside the game KWin's hit test finds the desktop, a hidden     *)
(* title bar or nothing.  The seat, the hit test and KWin's forwarding are *)
(* modelled from how the filters use them.  Pointer locks are not asked    *)
(* for here.                                                               *)
(***************************************************************************)
EXTENDS Naturals, FiniteSets

CONSTANTS Scenes,     \* what may be on the screen: see Scene
          Devices,    \* what a user may have: "pointer", "touch", "pen"
          X11First    \* whether KWin keeps the X11 filter ahead of the other

\* On the window and its picture, on the picture beside the window, where the
\* picture has bars, and on another output.
Places == {"on", "beside", "bar", "off"}
\* How the game is shown: as KWin shows it, with bars, drawn over its output,
\* or under a request of the X11 control - not answered yet, presented by the
\* effect, or in an emulated mode that Xwayland presents.
Requested == {"asked", "presented", "emulated"}
ShownAs == {"plain", "boxed", "over"} \cup Requested
Scene == [shape : ShownAs,
          under : {"desk", "title", "nothing"},          \* beside the window
          dialog : {"none", "on", "beside"},             \* where one is above
          layer : {"normal", "critical"},                \* the dialog's
          confined : BOOLEAN]
NoTarget == "none"
Targets == {"game", "desk", "dialog", NoTarget}

ASSUME InputAssumption == Scenes \subseteq Scene /\ X11First \in BOOLEAN
                          /\ Devices \subseteq {"pointer", "touch", "pen"}

VARIABLES
    scene, device,
    place,        \* where the pointer is
    pointing,     \* KWin's focus, the seat, what was told, and the two filters
    followed,     \* whether an event came since the scene changed
    finger,       \* the touch that is down, who has it and what its client was told
    stylus        \* the pen, what the filter noted of it and what the game heard

pictureVars == <<scene, device, place, pointing, followed, finger, stylus>>

(***************************************************************************)
(* KWin: what its hit test finds, and what the effect lays over it.        *)
(***************************************************************************)

\* A window drawn over its output, presented or emulated takes KWin's input
\* only where the window itself is.
Small(sc) == sc.shape \in {"over", "presented", "emulated"}
Hover(sc, p) ==
    CASE p = "off" -> "desk"
      [] p # "off" /\ sc.dialog = p -> "dialog"
      [] p # "off" /\ sc.dialog # p /\ Small(sc) /\ p # "on" ->
            IF sc.under = "nothing" THEN NoTarget ELSE "desk"
      [] OTHER -> "game"
\* Over a decoration KWin's focus goes to no window at all.
OnTitle(sc, p) == Small(sc) /\ p \in {"beside", "bar"} /\ sc.dialog # p /\ sc.under = "title"
HitFocus(sc, p) == IF OnTitle(sc, p) THEN NoTarget ELSE Hover(sc, p)

NotTold == [surface |-> NoTarget, mapping |-> "own", at |-> "off"]
Leave(g) == [g EXCEPT !.seat = NotTold, !.told = NotTold]
\* A client that has the pointer already is not told of an enter.
Enter(g, surface, p, mapping) ==
    LET entered == [surface |-> surface, mapping |-> mapping, at |-> p]
        known == g.seat.surface = surface
    IN  [g EXCEPT !.seat = entered, !.told = IF known THEN @ ELSE entered,
                  !.untold = @ /\ known]
\* SeatInterface::notifyPointerMotion(): nothing at the position it has.
Moved(g, p) ==
    IF g.seat.at = p THEN g
    ELSE [g EXCEPT !.seat.at = p, !.untold = FALSE,
                   !.told = [surface |-> g.seat.surface, mapping |-> g.seat.mapping, at |-> p]]
\* KWin's own focus, which reaches the seat only when it changes.
Updated(g, sc, p) ==
    LET found == HitFocus(sc, p)
    IN  IF found = g.focus THEN g
        ELSE IF found = NoTarget THEN Leave([g EXCEPT !.focus = found])
        ELSE Enter([g EXCEPT !.focus = found], found, p, "own")

\* confirmEnteredPosition(): the mapped position, where a motion to it would be
\* suppressed.
Confirm(g, p, mapping) ==
    IF g.seat.at # p THEN g
    ELSE [g EXCEPT !.told = [surface |-> g.seat.surface, mapping |-> mapping, at |-> p],
                   !.untold = FALSE]
\* The seat is put on the game with this mapping, entering it where KWin's hit
\* test ended beside it.
PutOnGame(g, p, mapping) ==
    Confirm(IF g.seat.surface # "game" THEN Enter(g, "game", p, mapping)
            ELSE [g EXCEPT !.seat.mapping = mapping], p, mapping)

(***************************************************************************)
(* UpscalePictureInput.                                                    *)
(***************************************************************************)

\* upscaleDrawnCovers(): the active game covers what is below the layer of an
\* active fullscreen window, and anything below the game.
DrawnCovers(g, sc, found) ==
    \/ found = "desk"
    \/ found = "dialog" /\ g.active = "game" /\ sc.layer = "normal"
\* The window drawn over the output here, where KWin found nothing or what its
\* picture covers.
Drawn(g, sc, p) ==
    /\ sc.shape = "over" /\ p # "off"
    /\ Hover(sc, p) \in {"game", NoTarget} \/ DrawnCovers(g, sc, Hover(sc, p))
\* The picture of the window that has both KWin's focus and the seat's.
Letterboxed(g, sc) == sc.shape = "boxed" /\ g.focus = "game" /\ g.seat.surface = "game"
KeptByKWin(g, sc, p) == Drawn(g, sc, p) /\ sc.confined
Pictured(g, sc, p) == (Drawn(g, sc, p) \/ Letterboxed(g, sc)) /\ ~KeptByKWin(g, sc, p)

\* Seeded fault: focus it took beside the window is not given back.
GivenBackInside(g, p) ==
    LET restored == IF g.picture.set /\ g.seat.surface = "game" /\ g.focus = "game"
                    THEN Confirm([g EXCEPT !.seat.mapping = "own"], p, "own") ELSE g
    IN  [restored EXCEPT !.picture = [set |-> FALSE, claimed |-> FALSE]]
GivenBackTo(g, p) ==
    LET restored ==
            IF ~g.picture.set \/ g.seat.surface # "game" THEN g
            ELSE IF g.focus = "game"
                 THEN Confirm([g EXCEPT !.seat.mapping = "own"], p, "own")
            ELSE IF g.picture.claimed /\ g.focus # NoTarget THEN Enter(g, g.focus, p, "own")
            ELSE IF g.picture.claimed THEN Leave(g)
            ELSE g
    IN  [restored EXCEPT !.picture = [set |-> FALSE, claimed |-> FALSE]]
PictureApply(g, sc, p) ==
    IF ~Pictured(g, sc, p) THEN GivenBackTo(g, p)
    ELSE [PutOnGame(g, p, sc.shape)
            EXCEPT !.picture = [set |-> TRUE, claimed |-> g.focus # "game"]]

(***************************************************************************)
(* UpscaleX11Input.                                                        *)
(***************************************************************************)

\* presentedUnder(), unless KWin found a window of its own above it.
PresentedHere(sc, p) ==
    sc.shape \in {"presented", "emulated"} /\ p # "off" /\ Hover(sc, p) # "dialog"
\* While the program confines the pointer, and where Xwayland maps it itself,
\* positions pass one to one.
PresentedMapping(sc) ==
    IF sc.shape = "presented" /\ ~sc.confined THEN "presented" ELSE "own"
\* KWin's mapping goes back to the seat, and the client is not told of it: what
\* withdraw() leaves untold until the pointer moves.
Withdrawn(g, p) ==
    LET restored ==
            IF ~g.presented.set \/ g.seat.surface # "game" THEN g
            ELSE IF g.focus = "game"
                 THEN [g EXCEPT !.seat.mapping = "own", !.untold = g.told.mapping # "own"]
            ELSE IF g.focus # NoTarget THEN Enter(g, g.focus, p, "own")
            ELSE Leave(g)
    IN  [restored EXCEPT !.presented = [set |-> FALSE, claimed |-> FALSE]]
PresentedApply(g, sc, p) ==
    IF ~PresentedHere(sc, p) THEN Withdrawn(g, p)
    ELSE [PutOnGame(g, p, PresentedMapping(sc))
            EXCEPT !.presented = [set |-> TRUE, claimed |-> g.focus # "game"]]

(***************************************************************************)
(* One event of the pointer through KWin, the two filters and, where none  *)
(* of them delivered it, KWin's forwarding.  "warp" is a motion that KWin  *)
(* made; it stays KWin's.                                                  *)
(***************************************************************************)

\* deliver(): the motion, button or wheel goes to the seat from here.
Delivered(g, kind, p) ==
    IF kind = "motion" THEN Moved(g, p)
    ELSE [g EXCEPT !.active = IF kind = "press" THEN "game" ELSE @, !.got = g.seat.surface]
\* KWin's decoration filter takes what is over a title bar.  A press raises and
\* activates the window found.
Forwarded(g, sc, kind, p) ==
    IF g.titled THEN g
    ELSE IF kind \in {"motion", "warp"} THEN Moved(g, p)
    ELSE [g EXCEPT !.active = IF kind = "press" /\ Hover(sc, p) # NoTarget
                              THEN (IF Hover(sc, p) = "game" THEN "game" ELSE "other") ELSE @,
                   !.got = g.seat.surface]
Takes(filter, kind) == filter.claimed /\ kind # "warp"
\* leaveHiddenDecoration(): the title bar under a claimed pointer is no longer
\* KWin's to take events for.
Applied(g, sc, p, x11) ==
    LET a == IF x11 THEN PresentedApply(g, sc, p) ELSE PictureApply(g, sc, p)
    IN  [a EXCEPT !.titled = @ /\ ~(IF x11 THEN a.presented ELSE a.picture).claimed]
Chain(g, sc, kind, p) ==
    LET first == Applied([Updated(g, sc, p) EXCEPT !.got = NoTarget, !.titled = OnTitle(sc, p)],
                         sc, p, X11First)
        second == Applied(first, sc, p, ~X11First)
        Own(x11, s) == IF x11 THEN s.presented ELSE s.picture
    IN  IF Takes(Own(X11First, first), kind) THEN Delivered(first, kind, p)
        ELSE IF Takes(Own(~X11First, second), kind) THEN Delivered(second, kind, p)
        ELSE Forwarded(second, sc, kind, p)

\* A confined pointer is put back at the picture's edge, as a motion of its own.
InBar(g, sc, kind, p) ==
    LET applied == PictureApply(Updated(g, sc, p), sc, p)
    IN  kind \in {"motion", "warp"} /\ sc.confined /\ applied.picture.set /\ p = "bar"
PutBack(g, sc) ==
    LET kept == PictureApply(IF X11First THEN PresentedApply(Updated(g, sc, "bar"), sc, "bar")
                             ELSE Updated(g, sc, "bar"), sc, "bar")
    IN  Chain(kept, sc, "warp", "beside")
\* KWin keeps a confined pointer inside the window's own part.
Reachable(sc) == IF sc.confined THEN (IF Small(sc) THEN {"on"} ELSE Places \ {"off"}) ELSE Places

UserHas(d) == device = d
PointerEvent(kind, p) ==
    /\ UserHas("pointer")
    /\ IF kind \in {"motion", "warp"} THEN p \in Reachable(scene) ELSE p = place
    /\ IF InBar(pointing, scene, kind, p)
       THEN pointing' = PutBack(pointing, scene) /\ place' = "beside"
       ELSE pointing' = Chain(pointing, scene, kind, p) /\ place' = p
    /\ followed' = kind
    /\ UNCHANGED <<scene, device, finger, stylus>>
PointerMotion == \E p \in Places : PointerEvent("motion", p)
PointerWarp == \E p \in Places : PointerEvent("warp", p)
PointerButton == \E kind \in {"press", "release"} : PointerEvent(kind, place)
PointerAxis == PointerEvent("axis", place)

(***************************************************************************)
(* Touch.                                                                  *)
(***************************************************************************)

\* pictureAt(), which asks KWin for the window at the position itself.  Where
\* the picture has bars, it is one only while the seat's pointer is the window's.
TouchPictured(sc, p) ==
    \/ Drawn(pointing, sc, p)
    \/ sc.shape = "boxed" /\ Hover(sc, p) = "game" /\ pointing.seat.surface = "game"
NoFinger == [down |-> FALSE, by |-> "nobody", from |-> "off", at |-> "off", told |-> NotTold,
             seen |-> [surface |-> NoTarget, mapping |-> "own"]]

\* What the user sees at a place: a window of KWin's above the game, the picture
\* of the game, or what KWin has there.
SeenAt(sc, p) ==
    LET hidden == sc.shape = "over" /\ pointing.active = "game" /\ sc.layer = "normal"
        above == sc.dialog = p /\ p # "off" /\ ~hidden
        game == [surface |-> "game", mapping |-> IF sc.shape \in {"boxed", "over", "presented"}
                                                 THEN sc.shape ELSE "own"]
    IN  IF above \/ p = "off" THEN [surface |-> Hover(sc, p), mapping |-> "own"]
        ELSE IF sc.confined /\ Small(sc) THEN [surface |-> "game", mapping |-> "own"]
        ELSE game
\* A confinement is the pointer's: a touch is mapped as the picture is shown.
Unconfined(sc) == [sc EXCEPT !.confined = FALSE]

\* touchDownAt() of both filters: the picture's bars show nothing of the game,
\* and a touch there reaches nothing of it.
Given(surface, mapping, p) == [surface |-> surface, mapping |-> mapping, at |-> p]
Down(by, told, p) ==
    /\ finger' = [down |-> TRUE, by |-> by, from |-> p, at |-> p, told |-> told,
                   seen |-> SeenAt(Unconfined(scene), p)]
    /\ pointing' = [pointing EXCEPT !.active = IF by # "kwin" \/ Hover(scene, p) = "game" THEN "game"
                                               ELSE "other"]
FingerDown(p) ==
    CASE TouchPictured(scene, p) /\ p = "bar" -> Down("swallowed", NotTold, p)
      [] TouchPictured(scene, p) /\ p # "bar" -> Down("filter", Given("game", scene.shape, p), p)
      [] ~TouchPictured(scene, p) /\ PresentedHere(scene, p) ->
             Down("filter", Given("game", PresentedMapping(Unconfined(scene)), p), p)
      [] OTHER -> Down("kwin", Given(HitFocus(scene, p), "own", p), p)
TouchDown(p) ==
    /\ UserHas("touch") /\ ~finger.down
    /\ FingerDown(p)
    /\ UNCHANGED <<scene, device, place, followed, stylus>>
\* Seeded fault: the touch is mapped as the picture is shown when it moves.
MappedAnew(p) ==
    finger' = [finger EXCEPT !.at = p, !.told = IF finger.by = "swallowed" THEN @ ELSE
        [@ EXCEPT !.at = p, !.mapping = IF finger.by = "kwin" THEN @
                                        ELSE SeenAt(Unconfined(scene), p).mapping]]
\* The touch keeps the mapping it began with, over whatever it moves.
Mapped(p) ==
    finger' = [finger EXCEPT !.at = p, !.told = IF finger.by = "swallowed" THEN @ ELSE [@ EXCEPT !.at = p]]
TouchMotion(p) ==
    /\ UserHas("touch") /\ finger.down
    /\ Mapped(p)
    /\ UNCHANGED <<scene, device, place, pointing, followed, stylus>>
\* A touch that is cancelled ends like one that is lifted.
TouchUp ==
    /\ UserHas("touch") /\ finger.down
    /\ finger' = NoFinger
    /\ UNCHANGED <<scene, device, place, pointing, followed, stylus>>

(***************************************************************************)
(* Pens.  The game hears of a pen what the filter delivers, or what KWin   *)
(* forwards to the window it finds; a pen KWin takes elsewhere leaves it.  *)
(* The filter notes what it delivered, and nothing of what KWin forwards.  *)
(***************************************************************************)

PenUnknown == [near |-> FALSE, down |-> FALSE]
NoStylus == [near |-> FALSE, down |-> FALSE, told |-> PenUnknown, heard |-> PenUnknown,
             forwarded |-> FALSE, takenBack |-> FALSE, onPicture |-> FALSE, amiss |-> FALSE]

\* What a client makes of an event, and whether it contradicts what it heard.
PenHears(s, action) ==
    [s EXCEPT !.heard = [near |-> action # "leave",
                         down |-> (@.down \/ action = "press") /\ action \notin {"release", "leave"}],
              !.amiss = @ \/ (IF action = "enter" THEN s.heard.near ELSE ~s.heard.near)
                          \/ (action = "release" /\ ~s.heard.down)
                          \/ (action = "leave" /\ s.heard.down)]
\* Seeded fault: a pen that goes away over a bar is kept from the game.
ContactEnds(told, action) == action = "release" /\ told.down
\* What began on the picture ends wherever it ends.
Ends(told, action) ==
    (action = "release" /\ told.down) \/ (action = "leave" /\ told.near)
\* Nor does what the client never heard begin end for it.
NeverBegan(told, action) ==
    (action = "leave" /\ ~told.near) \/ (action = "release" /\ ~told.down)
PenTold(told, action) ==
    LET near == action # "leave"
    IN  [near |-> near,
         down |-> (told.down \/ action = "press") /\ action # "release" /\ near]
\* pen() on a picture.
PenOnPicture(s, action, p) ==
    IF (p = "bar" /\ ~Ends(s.told, action)) \/ NeverBegan(s.told, action) THEN s
    ELSE LET near == IF ~s.told.near /\ action # "enter" THEN PenHears(s, "enter") ELSE s
         IN  [PenHears(near, action) EXCEPT !.told = PenTold(s.told, action)]
\* What KWin forwards of a contact the game never heard begin is not counted.
PenForwarded(s, sc, action, p) ==
    LET forgotten == [s EXCEPT !.told = PenUnknown, !.forwarded = action # "leave"]
    IN  IF HitFocus(sc, p) # "game" THEN [forgotten EXCEPT !.heard = PenUnknown, !.forwarded = FALSE]
        ELSE LET near == IF ~s.heard.near /\ action # "enter" THEN PenHears(forgotten, "enter")
                         ELSE forgotten
             IN  IF action = "release" /\ ~s.heard.down THEN near ELSE PenHears(near, action)
PenEvent(action, p) ==
    /\ UserHas("pen")
    /\ (action = "enter") = ~stylus.near
    /\ action = "press" => ~stylus.down
    /\ action = "release" => stylus.down
    /\ action = "leave" => ~stylus.down
    /\ LET pictured == TouchPictured(scene, p)
           pen == [stylus EXCEPT !.near = action # "leave",
                                 !.down = (@ \/ action = "press") /\ action # "release",
                                 !.takenBack = @ \/ (pictured /\ stylus.forwarded),
                                 !.onPicture = IF action = "press" THEN pictured ELSE @]
       IN  stylus' = IF pictured THEN PenOnPicture(pen, action, p)
                     ELSE PenForwarded(pen, scene, action, p)
    /\ pointing' = IF action = "press" /\ TouchPictured(scene, p) /\ p # "bar"
                   THEN [pointing EXCEPT !.active = "game"] ELSE pointing
    /\ UNCHANGED <<scene, device, place, followed, finger>>

TabletToolProximity == \E a \in {"enter", "leave"}, p \in Places : PenEvent(a, p)
TabletToolAxis == \E p \in Places : PenEvent("motion", p)
TabletToolTip == \E a \in {"press", "release"}, p \in Places : PenEvent(a, p)

(***************************************************************************)
(* The screen changes.  KWin follows its own windows at once; the control  *)
(* of X11 sizes refreshes its filter when it presents a window or lets go  *)
(* of one.                                                                 *)
(***************************************************************************)

RefreshesFrom(old, new) ==
    new.shape = "presented" \/ (old.shape \in Requested /\ new.shape \notin Requested)
SceneChanges(new) ==
    /\ device # "none" /\ new # scene
    /\ place \in Reachable(new)
    /\ LET updated == Updated(pointing, new, place)
       IN  pointing' = IF RefreshesFrom(scene, new) THEN PresentedApply(updated, new, place) ELSE updated
    /\ scene' = new /\ followed' = "none"
    /\ UNCHANGED <<device, place, finger, stylus>>
\* The control's verdict on a size refreshes its filter too.
Judged ==
    /\ device # "none" /\ scene.shape \in Requested
    /\ pointing' = PresentedApply(pointing, scene, place)
    /\ UNCHANGED <<scene, device, place, followed, finger, stylus>>
\* Another window becomes the active one, or the game does.
Activates ==
    /\ device # "none"
    /\ \E a \in {"game", "other"} : pointing' = [pointing EXCEPT !.active = a]
    /\ followed' = "none"
    /\ UNCHANGED <<scene, device, place, finger, stylus>>

\* The effect is unloaded: each filter gives the seat back for the last time,
\* the X11 control's first.
Unload ==
    /\ device # "none"
    /\ pointing' = GivenBackTo(Withdrawn(pointing, place), place)
    /\ device' = "none" /\ followed' = "none"
    /\ UNCHANGED <<scene, place, finger, stylus>>

\* The pointer is on another output, or was moved onto the game and left there.
Untouched ==
    [focus |-> "desk", seat |-> Given("desk", "own", "off"), told |-> Given("desk", "own", "off"),
     picture |-> [set |-> FALSE, claimed |-> FALSE], presented |-> [set |-> FALSE, claimed |-> FALSE],
     active |-> "game", got |-> NoTarget, titled |-> FALSE, untold |-> FALSE]
InputInit ==
    /\ scene \in Scenes /\ device \in Devices /\ place \in {"off", "on"}
    /\ ~scene.confined
    /\ pointing = Chain(Untouched, scene, "motion", place)
    /\ followed = "none" /\ finger = NoFinger /\ stylus = NoStylus

InputNext ==
    \/ PointerMotion \/ PointerWarp \/ PointerButton \/ PointerAxis
    \/ \E p \in Places : TouchDown(p) \/ TouchMotion(p)
    \/ TouchUp
    \/ TabletToolProximity \/ TabletToolAxis \/ TabletToolTip
    \/ \E new \in Scenes : SceneChanges(new)
    \/ Judged \/ Activates \/ Unload

InputSpec == InputInit /\ [][InputNext]_pictureVars

(***************************************************************************)
(* Properties.                                                             *)
(***************************************************************************)

\* Pointer events reach what the user sees under the pointer: after every event
\* that was not over a title bar of KWin's own, whatever came before it, the
\* seat is on the surface shown there, mapped as it is shown, the client was
\* told that very position, and a button or the wheel went to it.  Once the
\* effect is unloaded the seat is where KWin's own hit test left it.
\* (pictureinput.cpp:82-101, x11input.cpp:94-120)
PointerIsWhereShown ==
    /\ device = "none" =>
        pointing.seat.surface = pointing.focus /\ pointing.seat.mapping = "own"
    /\ followed # "none" =>
        LET seen == SeenAt(scene, place)
        IN  /\ pointing.seat.surface = seen.surface /\ pointing.seat.mapping = seen.mapping
            /\ ~pointing.untold => /\ pointing.told.surface = seen.surface
                                   /\ pointing.told.mapping = seen.mapping
                                   /\ pointing.told.at = place
            /\ followed \in {"press", "release", "axis"} => pointing.got = seen.surface

\* A touch is its client's as it began, until it is lifted: it is given to what
\* the user saw there, mapped as that was shown, whatever is shown since and
\* wherever it moves; one that began in a bar reaches nothing.  A picture with
\* bars is found under a touch only while the pointer is the game's as well.
\* (pictureinput.cpp:262-298, touchinput.cpp:38-56)
ReachesWhatIsShown ==
    finger.told = IF finger.from = "bar" /\ finger.seen.mapping \in {"boxed", "over"} THEN NotTold
                  ELSE Given(finger.seen.surface, finger.seen.mapping, finger.at)
TouchKeepsItsClient ==
    finger.down =>
        \/ ReachesWhatIsShown
        \/ /\ finger.seen.mapping = "boxed" /\ finger.by = "kwin"
           /\ finger.told = Given("game", "own", finger.at)

\* Of a picture with bars too: pictureAt() is said to find "the window KWin
\* finds, if the effect scales it".  (pictureinput.cpp:264-265; violated)
TouchIsWhereShown == finger.down => ReachesWhatIsShown

\* What a pen began for the game ends for it, and nothing ends that never
\* began: the game never hears an event out of order, a pen that is lifted is
\* not down for it, and one that is gone is not near it, bars or not, whatever
\* picture begins or ends near it.  But for a pen that a picture took back after
\* KWin had forwarded it to the game.
\* (pictureinput.cpp:341-346, 351-362)
StrokesComplete ==
    stylus.takenBack \/
        /\ ~stylus.amiss
        /\ stylus.heard.down => stylus.down
        /\ stylus.heard.near => stylus.near

\* "What it began on the picture, a contact or its nearness, ends wherever it
\* ends, as the tablet protocol asks": for a contact.  (pictureinput.cpp:351-353; violated)
BegunOnPictureEnds == stylus.heard.down /\ stylus.onPicture => stylus.down

=============================================================================
