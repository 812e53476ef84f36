--------------------------------- MODULE Sizes ---------------------------------
(***************************************************************************)
(* The arithmetic of sizes (plugins/upscale/resolution.h, picture.h): what *)
(* a resolution asks a client to draw, how a picture of some size is laid  *)
(* on an output, and which of the steps a client can take comes nearest.   *)
(*                                                                         *)
(* A size is [w, h] in device pixels, a share is <<num, den>>, an output's *)
(* scale is in percent.  An edge in logical units is given by where it     *)
(* falls, in hundredths of a device pixel.  The code computes shares in    *)
(* doubles: these are their exact values, and the two differ at most where *)
(* a product is an exact half.                                             *)
(***************************************************************************)
EXTENDS Integers, Sequences, FiniteSets, FiniteSetsExt

Pixels(w, h) == [w |-> w, h |-> h]
NoPixels == Pixels(0, 0)
IsEmpty(s) == s.w <= 0 \/ s.h <= 0

Lesser(a, b) == IF a <= b THEN a ELSE b
Greater(a, b) == IF a >= b THEN a ELSE b
Magnitude(a) == IF a < 0 THEN -a ELSE a
RoundedShare(n, num, den) == (2 * n * num + den) \div (2 * den)

ExceedsMinimumPixels(output, minimum) ==
    output.w > 0 /\ output.h > 0 /\ output.w * output.h > Greater(0, minimum)

Presets == {"Native", "UltraQuality", "Quality", "Balanced", "Performance", "Custom"}
ResolutionRatio(preset, basisPoints) ==
    CASE preset = "UltraQuality" -> <<10, 13>>
      [] preset = "Quality" -> <<2, 3>>
      [] preset = "Balanced" -> <<10, 17>>
      [] preset = "Performance" -> <<1, 2>>
      [] preset = "Custom" -> <<Greater(5000, Lesser(basisPoints, 10000)), 10000>>
      [] preset = "Native" -> <<1, 1>>

SharedSize(output, share) ==
    Pixels(RoundedShare(output.w, share[1], share[2]), RoundedShare(output.h, share[1], share[2]))
DesiredResolution(output, preset, basisPoints) ==
    SharedSize(output, ResolutionRatio(preset, basisPoints))

SameAspect(input, output) ==
    2 * Magnitude(input.w * output.h - input.h * output.w) <= output.w + output.h

Sizing(input, output) ==
    CASE IsEmpty(input) -> "EmptyBuffer"
      [] ~IsEmpty(input) /\ (output.w <= input.w \/ output.h <= input.h) -> "NotSmaller"
      [] ~IsEmpty(input) /\ output.w > input.w /\ output.h > input.h
         /\ (output.w > 2 * input.w \/ output.h > 2 * input.h) -> "BelowHalf"
      [] OTHER -> IF SameAspect(input, output) THEN "Supported" ELSE "AspectRatio"
CanUpscale(input, output) == Sizing(input, output) = "Supported"

(* Edges, in hundredths of a device pixel. *)
SamePixel(a, b) == Magnitude(a - b) <= 100
ReachesFarEdge(window, output, scale) == window - output \in -100..(scale + 100)

(* picture.h *)
Refusal(why) == [sizing |-> why, x |-> 0, y |-> 0, w |-> 0, h |-> 0, factor |-> 0]
Laid(w, h, factor, output) ==
    [sizing |-> "Supported", x |-> (output.w - w) \div 2, y |-> (output.h - h) \div 2,
     w |-> w, h |-> h, factor |-> factor]

WholePicture(input, output, filter) ==
    LET factor == Lesser(output.w \div input.w, output.h \div input.h)
    IN  IF factor < 1 THEN Refusal("NoWholeFactor")
        ELSE IF factor = 1 /\ input = output THEN Refusal("NotSmaller")
        ELSE IF filter = "Fsr" /\ factor # 2 THEN [Refusal("FilterRange") EXCEPT !.factor = factor]
        ELSE Laid(input.w * factor, input.h * factor, factor, output)

\* The axis that fills first decides the scale to/from.
FittedPicture(input, output, filter) ==
    LET wider == input.w * output.h >= input.h * output.w
        to == IF wider THEN output.w ELSE output.h
        from == IF wider THEN input.w ELSE input.h
    IN  IF to <= from THEN Refusal("NotSmaller")
        ELSE IF filter = "Fsr" /\ to > 2 * from THEN Refusal("BelowHalf")
        ELSE IF SameAspect(input, output) THEN Laid(output.w, output.h, 0, output)
        ELSE Laid(IF wider THEN output.w ELSE RoundedShare(input.w, to, from),
                  IF wider THEN RoundedShare(input.h, to, from) ELSE output.h, 0, output)

PictureOf(input, output, geometry, filter) ==
    IF IsEmpty(input) \/ IsEmpty(output) THEN Refusal("EmptyBuffer")
    ELSE IF geometry = "Integer" THEN WholePicture(input, output, filter)
    ELSE FittedPicture(input, output, filter)

\* The factor whose reciprocal lies nearest the share, the larger on a tie.
WholeFactor(share) ==
    LET above == share[2] \div share[1]
    IN  IF share[1] <= 0 \/ share[1] >= share[2] THEN 1
        ELSE IF (2 * above + 1) * share[2] >= 2 * above * (above + 1) * share[1]
        THEN above + 1 ELSE above

\* Seeded fault: half of an odd side is rounded up.
RequestRounded(output, share, geometry) ==
    SharedSize(output, IF geometry = "Integer" THEN <<1, WholeFactor(share)>> ELSE share)

RequestSize(output, share, geometry) ==
    IF geometry = "Integer"
    THEN Pixels(output.w \div WholeFactor(share), output.h \div WholeFactor(share))
    ELSE SharedSize(output, share)

\* settings.h: what a resolved profile asks for.
RequestRatio(settings) ==
    IF settings.geometry = "Integer" THEN <<1, WholeFactor(settings.share)>> ELSE settings.share
RequestedSize(settings, output) == RequestSize(output, settings.share, settings.geometry)
Honours(settings, size, output) ==
    PictureOf(size, output, settings.geometry, settings.filter).sizing = "Supported"

(* A client that is moved in whole steps of its output's scale. *)
ScaledRequest(output, scale, step) ==
    IF scale <= 0 \/ step <= 0 THEN NoPixels ELSE SharedSize(output, <<100 * step, scale>>)

\* The distance of two shares, compared by cross products.
Farther(a, b, share) ==
    Magnitude(a[1] * share[2] - share[1] * a[2]) * b[2] > Magnitude(b[1] * share[2] - share[1] * b[2]) * a[2]

ReachableScale(output, scale, share, geometry) ==
    LET factor == WholeFactor(share)
        fits(step) ==
            LET size == ScaledRequest(output, scale, step)
            IN  IF geometry = "Integer"
                THEN /\ factor > 1 /\ ~IsEmpty(size)
                     /\ Lesser(output.w \div size.w, output.h \div size.h) = factor
                ELSE share[1] < share[2] /\ CanUpscale(size, output)
        wanted == IF geometry = "Integer" THEN <<1, factor>> ELSE share
        steps == {step \in 1..(scale \div 100) : 100 * step < scale /\ fits(step)}
        nearest == {step \in steps : \A other \in steps :
                        ~Farther(<<100 * step, scale>>, <<100 * other, scale>>, wanted)}
    IN  IF steps = {} THEN 0 ELSE Min(nearest)

(* A client that is given one of the sizes its output lists. *)
NearestListedSize(listed, wanted, output, geometry) ==
    LET offered == {size \in listed : CanUpscale(size, output)}
        nearer(a, b) ==
            LET da == Magnitude(a.w - wanted.w)
                db == Magnitude(b.w - wanted.w)
            IN  da < db \/ (da = db /\ a.w >= b.w)
    IN  IF wanted \in listed THEN wanted
        ELSE IF geometry = "Integer" \/ offered = {} THEN NoPixels
        ELSE CHOOSE size \in offered : \A other \in offered : nearer(size, other)

\* The shares that give one of the sizes monitors and games offer.
SnapScales(screen, known) ==
    LET hits(size) ==
            LET nearest == RoundedShare(10000, size.w, screen.w)
            IN  {bp \in {nearest - 1, nearest, nearest + 1} \cap 5000..10000 :
                    DesiredResolution(screen, "Custom", bp) = size}
        chosen(size) ==
            LET nearest == RoundedShare(10000, size.w, screen.w)
            IN  IF nearest \in hits(size) THEN nearest
                ELSE IF nearest - 1 \in hits(size) THEN nearest - 1 ELSE nearest + 1
    IN  IF IsEmpty(screen) THEN {}
        ELSE {chosen(size) : size \in {s \in known : s.w <= screen.w /\ s.w * 2 >= screen.w
                                                     /\ hits(s) # {}}}
================================================================================
