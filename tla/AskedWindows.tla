------------------------------ MODULE AskedWindows ------------------------------
(***************************************************************************)
(* What the effect asks of a game, and what it makes of the game's answer: *)
(* the sizes of each way of asking, the window of a program that does what *)
(* it is asked, and the checks that window has to pass to be enlarged.     *)
(*                                                                         *)
(* Programs, Xwayland and KWin's placing of windows are external, modelled *)
(* as the source relies on them: a fullscreen Wayland window gets its      *)
(* output in whole logical units, KWin puts it on whole device pixels, and *)
(* a client rounds its buffer to whole pixels.                             *)
(***************************************************************************)
EXTENDS Eligibility

CONSTANTS
    Displays,   \* outputs: <<width, height, scale in percent>>
    Even,       \* those asked in a way that rounds logical units as well
    Shares,     \* the shares of them that are asked for
    ListedSides \* the sizes an X11 output lists

Ways == {"mode viewport", "mode window", "mode wine", "step", "fractional", "resize",
         "x11", "x11 listed", "served", "served scaled"}

ASSUME DisplaysAssumption ==
    /\ Displays \subseteq (Nat \ {0}) \X (Nat \ {0}) \X (100..400)
    /\ Even \subseteq Displays /\ ListedSides \subseteq Nat \X Nat
    /\ Shares \subseteq {s \in Nat \X (Nat \ {0}) : 2 * s[1] >= s[2] /\ s[1] <= s[2]}

VARIABLE asking  \* the output, the settings and the way the game is asked

NoAsking == [way |-> "none"]
AskedInit ==
    /\ asking \in [way : Ways, display : Displays, share : Shares,
                   geometry : {"Fit", "Integer"}, filter : {"Fsr", "Nearest"}]
    /\ asking.way \in {"fractional", "resize"} => asking.display \in Even

SettingsOf(a) == [acts |-> TRUE, minimum |-> 0, share |-> a.share, geometry |-> a.geometry,
                  filter |-> a.filter]
OutputOf(a) ==
    [pixels |-> Pixels(a.display[1], a.display[2]), scale |-> a.display[3],
     x11Scale |-> IF a.way = "served scaled" THEN 100 ELSE a.display[3]]

\* A fullscreen window in whole logical units, and KWin's placing of it.
Units(n, out) == RoundedShare(100 * n, 1, out.scale)
FullUnits(out) == Rect(0, 0, Units(out.pixels.w, out) * out.scale, Units(out.pixels.h, out) * out.scale)
Snapped(r) == Rect(r.x, r.y, RoundedShare(r.w, 1, 100) * 100, RoundedShare(r.h, 1, 100) * 100)

\* A fractional scale travels in 120ths.
Fractional(out, share) == RoundedShare(120 * out.scale, share[1], 100 * share[2])

\* The window of a program, over the rectangle client, with a buffer of size.
WindowOf(a, client, size, told, resized) ==
    LET surface == [supplied |-> size, destination |-> client, opaque |-> TRUE, format |-> "8 bit"]
        served == a.way \in {"served", "served scaled"}
    IN  [wayland |-> ~served /\ a.way \notin {"x11", "x11 listed"},
         normal |-> TRUE, decorated |-> FALSE, fullScreen |-> ~served /\ a.way # "mode window",
         frame |-> Snapped(client), client |-> Snapped(client),
         told |-> told, requested |-> resized, served |-> IF served THEN size ELSE NoPixels,
         output |-> OutputOf(a), settings |-> SettingsOf(a), claimed |-> TRUE, allGames |-> FALSE,
         focus |-> "this", flaws |-> {}, children |-> "none", own |-> surface, child |-> surface]

\* autorequest.cpp: a window of full size waits for nothing but a smaller buffer.
AskedLater(a) ==
    LET window == WindowOf(a, FullUnits(OutputOf(a)), OutputOf(a).pixels, NoPixels, NoRect)
        share == ShareAskedOf(window, "Auto", FALSE)
    IN  AwaitingBuffer({window}) # {} /\ share[1] < share[2]

\* The size the program is asked for, and the buffer it commits.
AskedSize(a) ==
    LET out == OutputOf(a)
        settings == SettingsOf(a)
    IN  CASE a.way \in {"mode viewport", "mode window", "mode wine"} ->
               SizesTold(settings, "AdvertisedMode", out).size
          [] a.way = "step" -> SizesTold(settings, "AdvertisedScale", out).size
          [] a.way \in {"fractional", "resize"} ->
               IF AskedLater(a) THEN RequestedSize(settings, out.pixels) ELSE NoPixels
          [] a.way \in {"x11", "served", "served scaled"} -> WantedSize(settings, out)
          [] a.way = "x11 listed" ->
               ListedSize(settings, out, {Pixels(s[1], s[2]) : s \in ListedSides})

Committed(a) ==
    LET out == OutputOf(a)
        ratio == RequestRatio(SettingsOf(a))
        fraction == Fractional(out, ratio)
        buffer(r, num, den) == Pixels(RoundedShare(r.w \div out.scale, num, den),
                                      RoundedShare(r.h \div out.scale, num, den))
    IN  CASE a.way = "fractional" -> buffer(FullUnits(out), fraction, 120)
          [] a.way = "resize" -> buffer(ResizedRect(out, ratio), out.scale, 100)
          [] OTHER -> AskedSize(a)

\* The window of a program that answers with a buffer of some size.
AnswerOf(a, out, size) ==
    LET resized == IF a.way = "resize" THEN ResizedRect(out, RequestRatio(SettingsOf(a))) ELSE NoRect
        client == CASE a.way \in {"mode viewport", "step", "fractional"} -> FullUnits(out)
                    [] a.way = "mode window" ->
                         Rect(0, 0, Units(size.w, out) * out.scale, Units(size.h, out) * out.scale)
                    [] a.way = "mode wine" -> Rect(0, 0, size.w * out.scale, size.h * out.scale)
                    [] a.way = "resize" -> resized
                    [] a.way \in {"x11", "x11 listed"} -> InPixels(out.pixels)
                    [] a.way \in {"served", "served scaled"} ->
                         Rect(0, 0, (100 * size.w * out.scale) \div out.x11Scale,
                              (100 * size.h * out.scale) \div out.x11Scale)
    IN  WindowOf(a, client, size,
                 IF a.way \in {"mode viewport", "mode window", "mode wine"} THEN size ELSE NoPixels, resized)
Answer(a) == AnswerOf(a, OutputOf(a), Committed(a))

\* The picture lies on the output and fills it as the geometry says.
FillsAsAsked(a, picture, output) ==
    /\ picture.x >= 0 /\ picture.x + picture.w <= output.w
    /\ picture.y >= 0 /\ picture.y + picture.h <= output.h
    /\ IF a.geometry = "Integer" THEN picture.factor = WholeFactor(a.share)
       ELSE picture.w = output.w \/ picture.h = output.h
Enlarged(a, window) ==
    /\ WindowRefusal(window) = "None"
    /\ FillsAsAsked(a, WindowPicture(window), window.output.pixels)

\* A program that is asked to draw smaller and does so is enlarged to its
\* output: nothing refuses its window, its picture lies on the output, fills
\* it on one axis at least when it is fitted, and by the very factor asked
\* for when it is enlarged by whole factors.
EnlargedAsAsked ==
    (asking # NoAsking /\ ~IsEmpty(AskedSize(asking))) => Enlarged(asking, Answer(asking))
================================================================================
