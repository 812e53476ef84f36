------------------------------ MODULE Eligibility ------------------------------
(***************************************************************************)
(* Which window is enlarged, and why another is not                        *)
(* (plugins/upscale/eligibility.cpp, eligibility_over.cpp, presentation.h, *)
(* what modeoverride.cpp, waylandresize.cpp and x11resolution.cpp ask of   *)
(* it).  The questions are put to one window at one moment, so a window is *)
(* a record of what KWin answers about it; the first refusal counts.       *)
(*                                                                         *)
(* Rectangles are relative to the output's corner, their edges in          *)
(* hundredths of a device pixel (see Sizes).                               *)
(***************************************************************************)
EXTENDS Sizes, TLC

Rect(x, y, w, h) == [x |-> x, y |-> y, w |-> w, h |-> h]
NoRect == Rect(0, 0, 0, 0)
InPixels(size) == Rect(0, 0, 100 * size.w, 100 * size.h)

(* presentation.h *)
Cells == {"WaylandFullScreen", "WaylandBorderless", "WaylandWindowed",
          "X11FullScreen", "X11Borderless", "X11Windowed"}
IsX11(cell) == cell \in {"X11FullScreen", "X11Borderless", "X11Windowed"}
IsWindowed(cell) == cell \in {"WaylandWindowed", "X11Windowed"}
IsAdvertisement(method) == method \in {"AdvertisedMode", "AdvertisedScale", "AdvertisedModeAndScale"}
MethodApplies(cell, method) ==
    CASE method = "Off" -> TRUE
      [] method = "Auto" -> ~IsWindowed(cell)
      [] method = "X11Resize" -> IsX11(cell) /\ ~IsWindowed(cell)
      [] IsAdvertisement(method) -> ~IsX11(cell) /\ ~IsWindowed(cell)
AdvertisedCell == "WaylandFullScreen"
CellFor(x11, fullScreen, borderless) ==
    IF fullScreen THEN IF x11 THEN "X11FullScreen" ELSE "WaylandFullScreen"
    ELSE IF borderless THEN IF x11 THEN "X11Borderless" ELSE "WaylandBorderless"
    ELSE IF x11 THEN "X11Windowed" ELSE "WaylandWindowed"

(* Where the window lies. *)
FrameCovers(frame, screen, scale) ==
    /\ SamePixel(frame.x, screen.x) /\ SamePixel(frame.y, screen.y)
    /\ ReachesFarEdge(frame.x + frame.w, screen.x + screen.w, scale)
    /\ ReachesFarEdge(frame.y + frame.h, screen.y + screen.h, scale)

Inside(inner, outer) ==
    /\ inner.x >= outer.x /\ inner.x + inner.w <= outer.x + outer.w
    /\ inner.y >= outer.y /\ inner.y + inner.h <= outer.y + outer.h

\* A served program's window fills the screen it was told, in X11 pixels that
\* Xwayland maps by its own scale.
CoversOutput(w) ==
    LET out == w.output
        given == Rect(0, 0, (100 * w.served.w * out.scale) \div out.x11Scale,
                      (100 * w.served.h * out.scale) \div out.x11Scale)
    IN  \/ FrameCovers(w.frame, InPixels(out.pixels), out.scale)
        \/ ~IsEmpty(w.served) /\ FrameCovers(w.frame, given, out.scale)

PictureSurface(w) == IF w.children = "picture" THEN w.child ELSE w.own

\* A Wayland window at the smaller screen its program was told, or that
\* answered a smaller configure.
DrawnOverOutput(w) ==
    LET out == w.output
        screen == InPixels(out.pixels)
        told == InPixels(w.told)
    IN  /\ w.wayland /\ w.normal
        /\ \/ /\ w.fullScreen /\ ~IsEmpty(w.requested)
              /\ FrameCovers(w.client, w.requested, out.scale)
              /\ Inside(w.requested, screen)
           \/ /\ ~IsEmpty(w.told)
              /\ w.told.w < out.pixels.w \/ w.told.h < out.pixels.h
              /\ \/ /\ SamePixel(w.client.w, told.w) /\ SamePixel(w.client.h, told.h)
                    /\ Inside(w.client, screen)
                 \/ /\ w.fullScreen /\ PictureSurface(w).supplied = w.told
                    /\ SamePixel(w.client.x, 0) /\ SamePixel(w.client.y, 0)
PresentedFrame(w) == IF DrawnOverOutput(w) THEN InPixels(w.output.pixels) ELSE w.frame

Covering(w) == ~w.decorated /\ w.client = w.frame /\ CoversOutput(w)
Presentation(w) ==
    \/ w.fullScreen
    \/ w.normal /\ (Covering(w) \/ DrawnOverOutput(w)) /\ (w.claimed \/ w.settings.acts)
CellOf(w) ==
    CellFor(~w.wayland, w.fullScreen,
            w.normal /\ ((~w.decorated /\ CoversOutput(w)) \/ DrawnOverOutput(w)))
ShowingOnItsOutput(w) == w.focus \in {"nothing", "this", "otherOutput", "itsDialog"}

(* The refusals, in the order they are asked. *)
First(order, holds) ==
    LET found == {i \in 1..Len(order) : holds[order[i]]}
    IN  IF found = {} THEN "None" ELSE order[Min(found)]

Ours(w) == w.settings.acts
PlacementRefusal(w) ==
    First(<<"NotFullScreen", "Closing", "Minimized", "OtherDesktop", "OtherActivity", "NotActive",
            "TranslucentWindow", "Disabled", "NotGame", "Unlisted", "BelowMinimumPixels",
            "NoSurface", "TransformedOutput", "NotCoveringOutput", "TransformedWindow">>,
          [r \in {"Closing", "Minimized", "OtherDesktop", "OtherActivity", "TranslucentWindow",
                  "NoSurface", "TransformedOutput", "TransformedWindow"} |-> r \in w.flaws]
          @@ [NotFullScreen |-> ~Presentation(w),
              NotActive |-> ~ShowingOnItsOutput(w),
              Disabled |-> ~Ours(w) /\ w.claimed,
              NotGame |-> ~Ours(w) /\ ~w.claimed /\ w.allGames,
              Unlisted |-> ~Ours(w) /\ ~w.claimed /\ ~w.allGames,
              BelowMinimumPixels |-> ~ExceedsMinimumPixels(w.output.pixels, w.settings.minimum),
              NotCoveringOutput |-> ~CoversOutput(w) /\ ~DrawnOverOutput(w)])

SurfaceRefusal(w) ==
    LET shown == IF DrawnOverOutput(w) THEN w.client ELSE w.frame
        size == PictureSurface(w).destination
    IN  First(<<"ChildSurfaces", "TransformedSurface", "OffsetSurface", "TranslucentSurface",
                "ResizedSurface">>,
              [ChildSurfaces |-> w.children = "others",
               TransformedSurface |-> "TransformedSurface" \in w.flaws,
               OffsetSurface |-> "OffsetSurface" \in w.flaws /\ ~DrawnOverOutput(w),
               TranslucentSurface |-> "TranslucentSurface" \in w.flaws,
               ResizedSurface |-> ~SamePixel(size.w, shown.w) \/ ~SamePixel(size.h, shown.h)])

\* What the settings make of the picture the client supplied.
WindowPicture(w) ==
    PictureOf(PictureSurface(w).supplied, w.output.pixels, w.settings.geometry, w.settings.filter)

NoFormat == "none"
Readable == {"8 bit", "10 bit", "16 bit", "16 bit float"}
ContentRefusal(w) ==
    LET surface == PictureSurface(w)
        sizing == WindowPicture(w).sizing
        cropped == "Cropped" \in w.flaws \/ ("CroppedWhole" \in w.flaws /\ ~w.wayland)
    IN  IF sizing = "EmptyBuffer"
        THEN IF surface.format = NoFormat THEN "NoBuffer" ELSE "EmptyBuffer"
        ELSE IF sizing # "Supported"
        THEN [NotSmaller |-> "BufferNotSmaller", BelowHalf |-> "BufferBelowHalf",
              AspectRatio |-> "BufferAspectRatio", NoWholeFactor |-> "BufferNoWholeFactor",
              FilterRange |-> "BufferFilterRange"][sizing]
        ELSE First(<<"TransformedBuffer", "CroppedBuffer", "TranslucentContent", "NoBuffer",
                     "UnsupportedBufferFormat">>,
                   [TransformedBuffer |-> "TransformedBuffer" \in w.flaws,
                    CroppedBuffer |-> cropped,
                    TranslucentContent |-> ~surface.opaque /\ w.children # "picture",
                    NoBuffer |-> surface.format = NoFormat,
                    UnsupportedBufferFormat |-> surface.format \notin Readable])

WindowRefusal(w) ==
    LET placement == PlacementRefusal(w)
        shape == SurfaceRefusal(w)
    IN  IF placement # "None" THEN placement
        ELSE IF shape # "None" THEN shape ELSE ContentRefusal(w)

\* The one window of an output that lacks nothing but perhaps its buffer.
AwaitingBuffer(windows) ==
    LET placed == {w \in windows : PlacementRefusal(w) = "None"}
    IN  IF Cardinality(placed) = 1 THEN placed ELSE {}

(* What the program of a window is asked. *)
\* modeoverride.cpp: the size told at bind, and the whole scale with it.
SizesTold(settings, method, out) ==
    LET desired == RequestedSize(settings, out.pixels)
        step == ReachableScale(out.pixels, out.scale, settings.share, settings.geometry)
        nothing == [size |-> NoPixels, scale |-> 0]
    IN  IF ~ExceedsMinimumPixels(out.pixels, settings.minimum) THEN nothing
        ELSE IF method = "AdvertisedMode"
        THEN IF desired = out.pixels \/ IsEmpty(desired) THEN nothing
             ELSE [size |-> desired, scale |-> 0]
        ELSE IF step <= 0 THEN nothing
        ELSE [size |-> ScaledRequest(out.pixels, out.scale, step), scale |-> step]

\* waylandresize.cpp: the smaller fullscreen rectangle, in whole logical units,
\* and the pixels it stands for.
ResizedRect(out, share) ==
    LET logical(n) == RoundedShare(n, 100 * share[1], out.scale * share[2])
    IN  Rect(0, 0, logical(out.pixels.w) * out.scale, logical(out.pixels.h) * out.scale)

\* x11resolution.cpp, and x11modes.cpp for a client that can only take a mode.
WantedSize(settings, out) ==
    LET size == RequestedSize(settings, out.pixels)
    IN  IF /\ settings.acts /\ ExceedsMinimumPixels(out.pixels, settings.minimum)
           /\ Honours(settings, size, out.pixels) /\ size.w <= 65535 /\ size.h <= 65535
        THEN size ELSE NoPixels
ListedSize(settings, out, listed) ==
    IF IsEmpty(WantedSize(settings, out)) THEN NoPixels
    ELSE NearestListedSize(listed, WantedSize(settings, out), out.pixels, settings.geometry)

\* autorequest.cpp: the share of its output a Wayland window is asked for;
\* reached says that it draws smaller without having been asked.
ShareAskedOf(w, method, reached) ==
    IF /\ Ours(w) /\ ~IsWindowed(CellOf(w)) /\ ~reached
       /\ method = "Auto" \/ IsAdvertisement(method)
       /\ ExceedsMinimumPixels(w.output.pixels, w.settings.minimum)
    THEN RequestRatio(w.settings) ELSE <<1, 1>>
================================================================================
