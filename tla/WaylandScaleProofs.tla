-------------------------- MODULE WaylandScaleProofs --------------------------
(***************************************************************************)
(* Proofs about WaylandScale, for every value of its constants: the types, *)
(* and that what was asked of a window goes back with the request.         *)
(*                                                                         *)
(* The handlers are operators on windows and requests, so each has a lemma *)
(* of its own: it touches one window and its request, and keeps the two in *)
(* step.  An action then is one of them after what KWin or the client      *)
(* changed.                                                                *)
(***************************************************************************)
EXTENDS WaylandScale, FiniteSetTheorems, TLAPS

\* The scale KWin sets for an output is never the share that is asked of one.  The
\* code tells the two apart by value only (observe(), waylandscale.cpp:72-94), and
\* where they meet, at 100 and 200 percent and half, GivenBack fails.
Apart ==
    \A one, other \in OutputScales, share \in Ratios : Times(one, share) # other

States == [windows : [Surfaces -> Window], requests : [Surfaces -> Request]]

\* A window and its request in step: a request is for a share and gives up in
\* time, and a fullscreen window is kept smaller by a request only.
InStep(window, entry) ==
    /\ entry # NoRequest =>
           entry.ratio \in Ratios /\ (~entry.ignored => entry.frames < Patience)
    /\ window.asked /\ window.held = "smaller" => entry.resizing /\ ~entry.ignored

\* A request knows the scale the window has without it, and asks for the share of
\* that scale, or for a size, or for nothing any more.
Standing(window, entry, scale) ==
    /\ entry # NoRequest => entry.original = scale
    /\ window.target = IF entry = NoRequest \/ entry.ignored \/ entry.resizing THEN scale
                       ELSE Times(scale, entry.ratio)

Living(s, w) == s.windows[w].life \in {"new", "mapped"}

\* Every window and its request are in step; one that is gone has no request.
WellKept(s) ==
    \A w \in Surfaces : IF Living(s, w) THEN InStep(s.windows[w], s.requests[w])
                       ELSE s.requests[w] = NoRequest

StandingBut(s, scalesThen, kept) ==
    \A w \in Surfaces \ kept : Living(s, w) =>
        Standing(s.windows[w], s.requests[w], scalesThen[s.windows[w].on])

\* The inductive invariant, and what it needs Apart for.
ScaleInv == ScaleTypeOK /\ WellKept(Now)
StandingInv == StandingBut(Now, scales, {})

-----------------------------------------------------------------------------
(* One window and its request.                                             *)

With(s, w, window, entry) ==
    [windows |-> [s.windows EXCEPT ![w] = window],
     requests |-> [s.requests EXCEPT ![w] = entry]]

\* What a handler called for a window may do, whose own scale goes from one to
\* another.
Handled(s, after, w, before, scale) ==
    /\ after \in States
    /\ \A v \in Surfaces \ {w} :
           after.windows[v] = s.windows[v] /\ after.requests[v] = s.requests[v]
    /\ after.windows[w].life = s.windows[w].life
    /\ after.windows[w].on = s.windows[w].on
    /\ InStep(after.windows[w], after.requests[w])
    /\ Standing(s.windows[w], s.requests[w], before) =>
           Standing(after.windows[w], after.requests[w], scale)

LEMMA NoRequestType == NoRequest \in Request
BY ScaleAssumption DEF NoRequest, Request, WholeScale

\* The share of a scale is a scale.
LEMMA TimesType ==
    ASSUME NEW scale \in Nat, NEW part \in Nat
    PROVE  Times(scale, part) \in Nat
<1>1. scale * part \in Nat
  OBVIOUS
<1> DEFINE product == scale * part
<1> HIDE DEF product
<1>2. product \in Nat => product \div 100 \in Nat
  OBVIOUS
<1> QED BY <1>1, <1>2 DEF Times, WholeScale, product

LEMMA Numbers ==
    /\ \A share \in Ratios : share \in Nat /\ share < 100
    /\ 0 \in 0..Patience /\ 0 < Patience
BY ScaleAssumption DEF WholeScale

LEMMA WithType ==
    ASSUME NEW s \in States, NEW w \in Surfaces, NEW window \in Window, NEW entry \in Request
    PROVE  /\ With(s, w, window, entry) \in States
           /\ With(s, w, window, entry).windows[w] = window
           /\ With(s, w, window, entry).requests[w] = entry
           /\ \A v \in Surfaces \ {w} :
                  /\ With(s, w, window, entry).windows[v] = s.windows[v]
                  /\ With(s, w, window, entry).requests[v] = s.requests[v]
BY DEF States, With

LEMMA WithHandled ==
    ASSUME NEW s \in States, NEW w \in Surfaces, NEW window \in Window, NEW entry \in Request,
           NEW before, NEW scale,
           window.life = s.windows[w].life, window.on = s.windows[w].on,
           InStep(window, entry),
           Standing(s.windows[w], s.requests[w], before) => Standing(window, entry, scale)
    PROVE  Handled(s, With(s, w, window, entry), w, before, scale)
BY WithType DEF Handled

LEMMA SameHandled ==
    ASSUME NEW s \in States, NEW w \in Surfaces, NEW scale, InStep(s.windows[w], s.requests[w])
    PROVE  Handled(s, s, w, scale, scale)
BY DEF Handled

LEMMA HandledTwice ==
    ASSUME NEW s, NEW between, NEW after, NEW w, NEW before, NEW scale,
           Handled(s, between, w, before, scale), Handled(between, after, w, scale, scale)
    PROVE  Handled(s, after, w, before, scale)
BY DEF Handled

\* release(): scale and size go back.
LEMMA ReleaseHandled ==
    ASSUME NEW s \in States, NEW w \in Surfaces, NEW scale, InStep(s.windows[w], s.requests[w])
    PROVE  /\ Handled(s, ReleaseScale(s, w), w, scale, scale)
           /\ ReleaseScale(s, w).requests[w] = NoRequest
<1> DEFINE entry == s.requests[w]
           window == s.windows[w]
           restored == [RestoredGeometry(s, w, entry) EXCEPT !.target = entry.original]
<1>1. entry \in Request /\ window \in Window
  BY DEF States
<1>2. CASE ~Known(s, w)
  BY <1>2, SameHandled DEF ReleaseScale, Known
<1>3. CASE Known(s, w)
  <2>1. ReleaseScale(s, w) = With(s, w, restored, NoRequest)
    BY <1>3 DEF ReleaseScale, With
  <2>2. /\ restored \in Window /\ restored.life = window.life /\ restored.on = window.on
        /\ restored.target = entry.original
        /\ InStep(restored, NoRequest)
    BY <1>1, <1>3 DEF RestoredGeometry, Window, Request, InStep, NoRequest, Sizes, Known
  <2>3. Standing(window, entry, scale) => Standing(restored, NoRequest, scale)
    BY <1>3, <2>2 DEF Standing, Known
  <2> HIDE DEF restored
  <2>4. Handled(s, With(s, w, restored, NoRequest), w, scale, scale)
    BY <2>2, <2>3, NoRequestType, WithHandled
  <2> QED BY <2>1, <2>2, <2>4, NoRequestType, WithType
<1> QED BY <1>2, <1>3

LEMMA RecheckHandled ==
    ASSUME NEW s \in States, NEW w \in Surfaces, NEW scale, InStep(s.windows[w], s.requests[w])
    PROVE  Handled(s, Recheck(s, w), w, scale, scale)
BY ReleaseHandled, SameHandled DEF Recheck

\* A share is asked for by a real request.
LEMMA RealRequest ==
    ASSUME NEW entry, entry.ratio \in Ratios
    PROVE  entry # NoRequest
BY ScaleAssumption DEF NoRequest, WholeScale

LEMMA BothFields ==
    ASSUME NEW all, NEW windowsThen, NEW requestsThen,
           all \in [windows : {windowsThen}, requests : {requestsThen}]
    PROVE  all = [windows |-> windowsThen, requests |-> requestsThen]
OBVIOUS

\* resize(): a size is asked for instead of a scale, by a request that stands.
LEMMA ResizeHandled ==
    ASSUME NEW s \in States, NEW w \in Surfaces, NEW scale,
           s.requests[w].ratio \in Ratios, ~s.requests[w].ignored,
           s.windows[w].target \in Nat
    PROVE  /\ Resize(s, w) \in States
           /\ Handled(s, Resize(s, w), w, scale, scale)
           /\ s.requests[w].original = scale =>
                  Standing(Resize(s, w).windows[w], Resize(s, w).requests[w], scale)
<1> DEFINE entry == [s.requests[w] EXCEPT !.resizing = TRUE, !.frames = 0]
           window == [s.windows[w] EXCEPT !.target = s.requests[w].original,
                                          !.held = "smaller"]
           asked == With(s, w, window, entry)
           change == [s EXCEPT !.requests[w].resizing = TRUE, !.requests[w].frames = 0,
                               !.windows[w].target = s.requests[w].original,
                               !.windows[w].held = "smaller"]
<1>1. Resize(s, w) = Recheck(asked, w)
  <2>1. change \in [windows : {[s.windows EXCEPT ![w] = window]},
                    requests : {[s.requests EXCEPT ![w] = entry]}]
    BY DEF States
  <2> HIDE DEF entry, window, change
  <2>2. change = asked
    BY <2>1, BothFields DEF With
  <2> QED BY <2>2 DEF Resize, change
<1>2. s.requests[w] \in Request /\ s.windows[w] \in Window
  BY DEF States
<1>3. /\ entry \in Request /\ entry.ratio = s.requests[w].ratio /\ entry.resizing
      /\ entry.frames = 0 /\ ~entry.ignored /\ entry.original = s.requests[w].original
  <2>1. 0 \in 0..Patience
    BY ScaleAssumption
  <2>2. entry \in Request
    BY <1>2, <2>1 DEF Request
  <2> QED BY <1>2, <2>2 DEF Request
<1>4. /\ window \in Window /\ window.life = s.windows[w].life /\ window.on = s.windows[w].on
      /\ window.target = s.requests[w].original
  BY <1>2 DEF Window, Request, Sizes
<1> HIDE DEF entry, window
<1>5. InStep(window, entry)
  BY <1>3, ScaleAssumption DEF InStep
<1>6. entry # NoRequest
  BY <1>3, RealRequest
<1>7. s.requests[w].original = scale => Standing(window, entry, scale)
  BY <1>3, <1>4, <1>6 DEF Standing
<1>8. s.requests[w] # NoRequest
  BY RealRequest
<1>9. Standing(s.windows[w], s.requests[w], scale) => s.requests[w].original = scale
  BY <1>8 DEF Standing
<1>10. Handled(s, asked, w, scale, scale)
  BY <1>3, <1>4, <1>5, <1>7, <1>9, WithHandled
<1>11. asked \in States /\ asked.windows[w] = window /\ asked.requests[w] = entry
  BY <1>3, <1>4, WithType
<1> HIDE DEF asked
<1>12. Handled(asked, Recheck(asked, w), w, scale, scale)
  BY <1>5, <1>11, RecheckHandled
<1>13. Handled(s, Recheck(asked, w), w, scale, scale)
  BY <1>10, <1>12, HandledTwice
<1> QED BY <1>1, <1>7, <1>11, <1>12, <1>13 DEF Handled

\* A client that did nothing with the request keeps its own scale and geometry.
LEMMA IgnoreHandled ==
    ASSUME NEW s \in States, NEW w \in Surfaces, NEW scale, s.requests[w].ratio \in Ratios,
           s.windows[w].asked /\ s.windows[w].held = "smaller" => s.requests[w].resizing
    PROVE  Handled(s, IgnoreAnswer(s, w), w, scale, scale)
<1> DEFINE entry == [s.requests[w] EXCEPT !.ignored = TRUE]
           kept == [s.windows[w] EXCEPT !.target = s.requests[w].original]
           told == With(s, w, kept, entry)
           window == RestoredGeometry(told, w, s.requests[w])
           back == With(s, w, window, entry)
<1>1. s.requests[w] \in Request /\ s.windows[w] \in Window
  BY DEF States
<1>2. /\ entry \in Request /\ entry.ratio \in Ratios /\ entry.ignored
      /\ entry.original = s.requests[w].original
  BY <1>1 DEF Request
<1>3. kept \in Window /\ kept.asked = s.windows[w].asked /\ kept.held = s.windows[w].held
      /\ kept.life = s.windows[w].life /\ kept.on = s.windows[w].on
      /\ kept.target = s.requests[w].original
  BY <1>1 DEF Window, Request
<1>4. IgnoreAnswer(s, w) = IF window = kept THEN told ELSE Recheck(back, w)
  <2> DEFINE change == [s EXCEPT !.requests[w].ignored = TRUE,
                                 !.windows[w].target = s.requests[w].original]
             placed == [told EXCEPT !.windows[w] = window]
  <2>1. change \in [windows : {[s.windows EXCEPT ![w] = kept]},
                    requests : {[s.requests EXCEPT ![w] = entry]}]
    BY DEF States
  <2>2. told \in States /\ told.windows = [s.windows EXCEPT ![w] = kept]
        /\ told.requests = [s.requests EXCEPT ![w] = entry] /\ told.windows[w] = kept
    <3> HIDE DEF entry, kept
    <3>1. told \in States /\ told.windows[w] = kept
      BY <1>2, <1>3, WithType
    <3> QED BY <3>1 DEF With
  <2> HIDE DEF told, window, entry, kept
  <2>3. placed \in [windows : {[told.windows EXCEPT ![w] = window]}, requests : {told.requests}]
    BY <2>2 DEF States
  <2>4. [told.windows EXCEPT ![w] = window] = [s.windows EXCEPT ![w] = window]
    BY <2>2
  <2> HIDE DEF change, placed
  <2>5. change = told /\ placed = back
    BY <2>1, <2>2, <2>3, <2>4, BothFields DEF With, told
  <2> HIDE DEF back
  <2> DEFINE Rest(x) ==
          IF RestoredGeometry(x, w, s.requests[w]) = x.windows[w] THEN x
          ELSE Recheck([x EXCEPT !.windows[w] = RestoredGeometry(x, w, s.requests[w])], w)
  <2>6. IgnoreAnswer(s, w) = Rest(change)
    BY Zenon DEF IgnoreAnswer, change
  <2>7. Rest(change) = Rest(told)
    BY <2>5, Zenon
  <2>8. Rest(told) = IF window = told.windows[w] THEN told ELSE Recheck(placed, w)
    BY Zenon DEF window, placed
  <2> HIDE DEF Rest
  <2> QED BY <2>2, <2>5, <2>6, <2>7, <2>8
<1>5. told.windows[w] = kept
  BY <1>2, <1>3, WithType
<1> HIDE DEF entry, kept, told
<1>6. /\ window \in Window /\ window.life = s.windows[w].life /\ window.on = s.windows[w].on
      /\ window.target = s.requests[w].original
      /\ ~(window.asked /\ window.held = "smaller")
  BY <1>3, <1>5 DEF RestoredGeometry, Window, Sizes
<1> HIDE DEF window
<1>7. entry # NoRequest
  BY <1>2, RealRequest
<1>8. InStep(window, entry)
  BY <1>2, <1>6 DEF InStep
<1>9. s.requests[w] # NoRequest
  BY RealRequest
<1>10. Standing(s.windows[w], s.requests[w], scale) => Standing(window, entry, scale)
  BY <1>2, <1>6, <1>7, <1>9 DEF Standing
<1>11. Handled(s, back, w, scale, scale)
  BY <1>2, <1>6, <1>8, <1>10, WithHandled
<1>12. back \in States /\ back.windows[w] = window /\ back.requests[w] = entry
  BY <1>2, <1>6, WithType
<1>13. window = kept => told = back
  BY DEF told
<1> HIDE DEF back
<1>14. Handled(back, Recheck(back, w), w, scale, scale)
  BY <1>8, <1>12, RecheckHandled
<1>15. Handled(s, Recheck(back, w), w, scale, scale)
  BY <1>11, <1>14, HandledTwice
<1> QED BY <1>4, <1>11, <1>13, <1>15

\* KWin sets the scale of another output, or another scale of the same: it becomes
\* the window's own, unless it is the share that was asked for.
LEMMA SetTargetHandled ==
    ASSUME NEW s \in States, NEW w \in Surfaces, NEW before, NEW scale \in Nat,
           InStep(s.windows[w], s.requests[w]),
           Standing(s.windows[w], s.requests[w], before)
               => \A share \in Ratios : Times(before, share) # scale
    PROVE  Handled(s, SetTarget(s, w, scale), w, before, scale)
<1> DEFINE entry == s.requests[w]
           window == s.windows[w]
           told == [window EXCEPT !.target = scale]
           again == [entry EXCEPT !.original = scale]
           heard == With(s, w, told, entry)
           kept == With(s, w, told, again)
<1>1. entry \in Request /\ window \in Window
  BY DEF States
<1>2. told \in Window /\ told.life = window.life /\ told.on = window.on /\ told.target = scale
      /\ told.asked = window.asked /\ told.held = window.held
  BY <1>1 DEF Window
<1>3. again \in Request /\ again.original = scale /\ again.ratio = entry.ratio
      /\ again.ignored = entry.ignored /\ again.resizing = entry.resizing
      /\ again.frames = entry.frames
  BY <1>1 DEF Request
<1>4. entry # NoRequest => again # NoRequest
  BY <1>3, RealRequest DEF InStep
<1> HIDE DEF told, again
<1>5. InStep(told, entry) /\ (entry # NoRequest => InStep(told, again))
  BY <1>2, <1>3 DEF InStep
<1>6. CASE window.target = scale
  <2>1. SetTarget(s, w, scale) = s
    BY <1>6 DEF SetTarget
  <2>2. ASSUME Standing(window, entry, before)
        PROVE  Standing(window, entry, scale)
    <3>1. \A share \in Ratios : Times(before, share) # scale
      BY <2>2
    <3>2. entry = NoRequest \/ entry.ratio \in Ratios
      BY DEF InStep
    <3> HIDE DEF entry, window
    <3> QED BY <1>6, <2>2, <3>1, <3>2 DEF Standing
  <2> QED BY <2>1, <2>2 DEF Handled
<1>7. CASE window.target # scale
  <2> DEFINE set == IF entry.ignored \/ entry.resizing THEN entry.original
                    ELSE Times(entry.original, entry.ratio)
             asks == [told EXCEPT !.target = Times(scale, entry.ratio)]
             asked == With(s, w, asks, again)
  <2>1. heard \in States /\ kept \in States /\ heard.requests[w] = entry
        /\ heard.windows[w] = told /\ kept.requests[w] = again /\ kept.windows[w] = told
    BY <1>1, <1>2, <1>3, WithType
  <2>2. SetTarget(s, w, scale) =
            IF entry = NoRequest \/ scale = set THEN heard
            ELSE IF entry.resizing THEN ReleaseScale(kept, w)
            ELSE IF entry.ignored THEN kept
            ELSE asked
    <3> DEFINE change == [s EXCEPT !.windows[w].target = scale]
               after(x) == [x EXCEPT !.requests[w].original = x.windows[w].target]
               placed(x) == [after(x) EXCEPT !.windows[w].target =
                                Times(x.windows[w].target, x.requests[w].ratio)]
    <3>1. change \in [windows : {[s.windows EXCEPT ![w] = told]}, requests : {s.requests}]
      BY DEF States, told
    <3>2. s.requests = [s.requests EXCEPT ![w] = entry]
      BY DEF States
    <3>3. change = heard
      <4> HIDE DEF change, entry
      <4> QED BY <3>1, <3>2, BothFields DEF With
    <3>4. after(heard) = kept
      <4> HIDE DEF heard
      <4>1. after(heard) \in [windows : {heard.windows},
                              requests : {[heard.requests EXCEPT ![w].original = scale]}]
        BY <1>2, <2>1 DEF States
      <4>2. heard.windows = [s.windows EXCEPT ![w] = told]
            /\ heard.requests = [s.requests EXCEPT ![w] = entry]
        BY DEF heard, With
      <4>3. [heard.requests EXCEPT ![w].original = scale] = [s.requests EXCEPT ![w] = again]
        BY <4>2 DEF again, States
      <4> HIDE DEF after
      <4> QED BY <4>1, <4>2, <4>3, BothFields DEF With
    <3>5. placed(heard) = asked
      <4> HIDE DEF heard, after, kept
      <4>1. placed(heard) = [kept EXCEPT !.windows[w].target = Times(scale, entry.ratio)]
        BY <1>2, <2>1, <3>4
      <4>2. [kept EXCEPT !.windows[w].target = Times(scale, entry.ratio)]
              \in [windows : {[kept.windows EXCEPT ![w].target = Times(scale, entry.ratio)]},
                   requests : {kept.requests}]
        BY <2>1 DEF States
      <4>3. kept.windows = [s.windows EXCEPT ![w] = told]
            /\ kept.requests = [s.requests EXCEPT ![w] = again]
        BY DEF kept, With
      <4>4. [kept.windows EXCEPT ![w].target = Times(scale, entry.ratio)]
              = [s.windows EXCEPT ![w] = asks]
        BY <4>3 DEF States
      <4> HIDE DEF placed, asks
      <4> QED BY <4>1, <4>2, <4>3, <4>4, BothFields DEF With
    <3>6. SetTarget(s, w, scale) = TargetHeard(change, w)
      BY <1>7 DEF SetTarget
    <3>7. TargetHeard(heard, w) =
            IF heard.requests[w] = NoRequest \/ heard.windows[w].target =
                  (IF heard.requests[w].ignored \/ heard.requests[w].resizing
                   THEN heard.requests[w].original
                   ELSE Times(heard.requests[w].original, heard.requests[w].ratio)) THEN heard
            ELSE IF heard.requests[w].resizing THEN ReleaseScale(after(heard), w)
            ELSE IF heard.requests[w].ignored THEN after(heard)
            ELSE placed(heard)
      <4> HIDE DEF heard
      <4> QED BY Zenon DEF TargetHeard, Known
    <3> HIDE DEF after, placed, heard, change, kept, asks
    <3> QED BY <1>2, <2>1, <3>3, <3>4, <3>5, <3>6, <3>7
  <2>3. entry.ratio \in Ratios => asks \in Window /\ asks.target = Times(scale, entry.ratio)
    <3>1. entry.ratio \in Ratios => entry.ratio \in Nat
      BY Numbers
    <3>2. entry.ratio \in Ratios => Times(scale, entry.ratio) \in Nat
      BY <3>1, TimesType
    <3> QED BY <1>2, <3>2 DEF Window
  <2>4. /\ asks.life = window.life /\ asks.on = window.on /\ asks.asked = window.asked
        /\ asks.held = window.held
    BY <1>2 DEF Window
  <2>5. entry = NoRequest \/ entry.ratio \in Ratios
    BY DEF InStep
  <2> HIDE DEF asks, entry, window
  <2>6. CASE entry = NoRequest \/ scale = set
    <3>1. ASSUME Standing(window, entry, before)
          PROVE  Standing(told, entry, scale)
      <4>1. \A share \in Ratios : Times(before, share) # scale
        BY <3>1 DEF entry, window
      <4> QED BY <1>2, <2>5, <2>6, <3>1, <4>1 DEF Standing
    <3>2. Handled(s, heard, w, before, scale)
      BY <1>1, <1>2, <1>5, <3>1, WithHandled DEF entry, window
    <3> HIDE DEF heard
    <3> QED BY <2>2, <2>6, <3>2
  <2>7. CASE ~(entry = NoRequest \/ scale = set)
    <3>1. entry # NoRequest /\ entry.ratio \in Ratios
      BY <2>5, <2>7
    <3>2. entry.resizing \/ entry.ignored => Standing(told, again, scale)
      BY <1>2, <1>3 DEF Standing
    <3>3. CASE entry.resizing
      <4>1. Handled(s, kept, w, before, scale)
        BY <1>2, <1>3, <1>5, <3>1, <3>2, <3>3, WithHandled DEF entry, window
      <4>2. Handled(kept, ReleaseScale(kept, w), w, scale, scale)
        BY <1>5, <2>1, <3>1, ReleaseHandled
      <4> HIDE DEF kept
      <4>3. Handled(s, ReleaseScale(kept, w), w, before, scale)
        BY <4>1, <4>2, HandledTwice
      <4> QED BY <2>2, <2>7, <3>3, <4>3
    <3>4. CASE ~entry.resizing /\ entry.ignored
      <4>1. Handled(s, kept, w, before, scale)
        BY <1>2, <1>3, <1>5, <3>1, <3>2, <3>4, WithHandled DEF entry, window
      <4> QED BY <2>2, <2>7, <3>4, <4>1
    <3>5. CASE ~entry.resizing /\ ~entry.ignored
      <4>1. InStep(asks, again)
        BY <1>2, <1>5, <2>4, <3>1 DEF InStep
      <4>2. Standing(asks, again, scale)
        BY <1>3, <1>4, <2>3, <3>1, <3>5 DEF Standing
      <4>3. Handled(s, asked, w, before, scale)
        BY <1>3, <2>3, <2>4, <3>1, <4>1, <4>2, WithHandled DEF entry, window
      <4> QED BY <2>2, <2>7, <3>5, <4>3
    <3> QED BY <3>3, <3>4, <3>5
  <2> QED BY <2>6, <2>7
<1> QED BY <1>6, <1>7

\* checkAnswer(): a smaller buffer answers; patience runs out in one way or another.
LEMMA CheckAnswerHandled ==
    ASSUME NEW s \in States, NEW w \in Surfaces, NEW scale,
           s.requests[w].ratio \in Ratios, ~s.requests[w].ignored,
           InStep(s.windows[w], s.requests[w])
    PROVE  Handled(s, CheckAnswer(s, w), w, scale, scale)
<1> DEFINE entry == s.requests[w]
           window == s.windows[w]
           more == [entry EXCEPT !.frames = @ + 1]
           counted == With(s, w, window, more)
           met == [entry EXCEPT !.answered = TRUE]
           answered == With(s, w, window, met)
<1>1. entry \in Request /\ window \in Window /\ entry # NoRequest /\ entry.frames < Patience
  BY RealRequest DEF States, InStep
<1>2. /\ more \in Request /\ more.ratio = entry.ratio /\ more.ignored = entry.ignored
      /\ more.resizing = entry.resizing /\ more.original = entry.original
      /\ more.frames = entry.frames + 1
  <2>1. entry.frames + 1 \in 0..Patience
    BY <1>1, ScaleAssumption DEF Request
  <2> QED BY <1>1, <2>1 DEF Request
<1>3. /\ met \in Request /\ met.ratio = entry.ratio /\ met.ignored = entry.ignored
      /\ met.resizing = entry.resizing /\ met.original = entry.original
      /\ met.frames = entry.frames
  BY <1>1 DEF Request
<1>4. CheckAnswer(s, w) =
          IF ~(window.frame = "screen" \/ DrawnOver(s, w)) THEN ReleaseScale(s, w)
          ELSE IF window.small THEN answered
          ELSE IF more.frames < Patience THEN counted
          ELSE IF ~more.resizing /\ more.allowResize /\ window.asked THEN Resize(counted, w)
          ELSE IgnoreAnswer(counted, w)
  <2> DEFINE change == [s EXCEPT !.requests[w].frames = @ + 1]
             answer == [s EXCEPT !.requests[w].answered = TRUE]
  <2>1. /\ change \in [windows : {s.windows}, requests : {[s.requests EXCEPT ![w] = more]}]
        /\ answer \in [windows : {s.windows}, requests : {[s.requests EXCEPT ![w] = met]}]
    BY DEF States
  <2>2. s.windows = [s.windows EXCEPT ![w] = window]
    BY DEF States
  <2>3. change = counted /\ answer = answered
    <3> HIDE DEF change, answer, window, more, met
    <3> QED BY <2>1, <2>2, BothFields DEF With
  <2>4. counted.requests[w] = more
    BY <1>1, <1>2, WithType
  <2>5. CheckAnswer(s, w) =
          IF ~(window.frame = "screen" \/ DrawnOver(s, w)) THEN ReleaseScale(s, w)
          ELSE IF window.small THEN answer
          ELSE IF change.requests[w].frames < Patience THEN change
          ELSE IF ~change.requests[w].resizing /\ change.requests[w].allowResize /\ window.asked
               THEN Resize(change, w)
          ELSE IgnoreAnswer(change, w)
    BY Zenon DEF CheckAnswer
  <2> HIDE DEF change, answer, counted, answered, more, met
  <2> QED BY <2>3, <2>4, <2>5
<1> HIDE DEF entry, window, more, met
<1>5. /\ counted \in States /\ counted.windows[w] = window /\ counted.requests[w] = more
      /\ answered \in States
  BY <1>1, <1>2, <1>3, WithType
<1>6. InStep(window, met) /\ more # NoRequest /\ met # NoRequest
  BY <1>1, <1>2, <1>3, RealRequest DEF InStep, entry, window
<1>7. /\ Standing(window, entry, scale) => Standing(window, more, scale)
      /\ Standing(window, entry, scale) => Standing(window, met, scale)
  BY <1>1, <1>2, <1>3, <1>6 DEF Standing
<1>8. Handled(s, answered, w, scale, scale)
  BY <1>1, <1>3, <1>6, <1>7, WithHandled DEF entry, window
<1>9. window.asked /\ window.held = "smaller" => more.resizing /\ ~more.ignored
  BY <1>2 DEF InStep, entry, window
<1>10. CASE more.frames < Patience
  <2>1. InStep(window, more)
    BY <1>2, <1>9, <1>10 DEF InStep, entry
  <2>2. Handled(s, counted, w, scale, scale)
    BY <1>1, <1>2, <1>7, <2>1, WithHandled DEF entry, window
  <2>3. Handled(s, ReleaseScale(s, w), w, scale, scale)
    BY ReleaseHandled
  <2> HIDE DEF counted, answered
  <2> QED BY <1>4, <1>8, <1>10, <2>2, <2>3
<1>11. CASE ~(more.frames < Patience)
  <2>1. /\ Handled(counted, Resize(counted, w), w, scale, scale)
        /\ Handled(counted, IgnoreAnswer(counted, w), w, scale, scale)
    <3>1. window.target \in Nat /\ more.ratio \in Ratios /\ ~more.ignored
      BY <1>1, <1>2 DEF Window, entry
    <3> QED BY <1>5, <1>9, <3>1, ResizeHandled, IgnoreHandled
  <2> DEFINE after == CheckAnswer(s, w)
  <2>2. ASSUME Handled(counted, after, w, scale, scale)
        PROVE  Handled(s, after, w, scale, scale)
    <3>1. /\ counted.windows[w] = window /\ counted.requests[w] = more
          /\ \A v \in Surfaces \ {w} : /\ counted.windows[v] = s.windows[v]
                                       /\ counted.requests[v] = s.requests[v]
      BY <1>1, <1>2, WithType
    <3> HIDE DEF counted, after
    <3> QED BY <1>7, <2>2, <3>1 DEF Handled, window, entry
  <2>3. Handled(s, ReleaseScale(s, w), w, scale, scale)
    BY ReleaseHandled
  <2> HIDE DEF counted, answered
  <2>4. \/ after = ReleaseScale(s, w) \/ after = answered
        \/ after = Resize(counted, w) \/ after = IgnoreAnswer(counted, w)
    BY <1>4, <1>11
  <2> HIDE DEF after
  <2>5. Handled(s, after, w, scale, scale)
    BY <1>8, <2>1, <2>2, <2>3, <2>4
  <2> QED BY <2>5 DEF after
<1> QED BY <1>10, <1>11

\* request(): a fresh question, another one, or a look at the answer.
LEMMA AskHandled ==
    ASSUME NEW s \in States, NEW w \in Surfaces, NEW scale,
           InStep(s.windows[w], s.requests[w]), NEW wish \in Ratios \cup {WholeScale},
           NEW allowResize \in BOOLEAN
    PROVE  Handled(s, AskAfresh(s, w, wish, allowResize), w, scale, scale)
<1> DEFINE entry == s.requests[w]
           window == s.windows[w]
           fresh == [NoRequest EXCEPT !.ratio = wish, !.original = window.target,
                                      !.allowResize = allowResize]
           first == [window EXCEPT !.target = Times(window.target, wish)]
           another == [entry EXCEPT !.ratio = wish, !.frames = 0, !.answered = FALSE,
                                    !.ignored = FALSE]
           again == [window EXCEPT !.target = Times(entry.original, wish)]
<1>1. entry \in Request /\ window \in Window
  BY DEF States
<1>2. AskAfresh(s, w, wish, allowResize) =
          IF wish >= WholeScale \/ ~RequestedPresentation(s, w) THEN ReleaseScale(s, w)
          ELSE IF entry = NoRequest THEN With(s, w, first, fresh)
          ELSE IF entry.ratio # wish
               THEN IF entry.resizing THEN ReleaseScale(s, w) ELSE With(s, w, again, another)
          ELSE IF entry.answered \/ entry.ignored THEN s
          ELSE CheckAnswer(s, w)
  <2>1. [s.windows EXCEPT ![w].target = Times(window.target, wish)]
            = [s.windows EXCEPT ![w] = first]
        /\ [s.windows EXCEPT ![w].target = Times(entry.original, wish)]
            = [s.windows EXCEPT ![w] = again]
    OBVIOUS
  <2> HIDE DEF first, again
  <2>2. AskAfresh(s, w, wish, allowResize) =
          IF wish >= WholeScale \/ ~RequestedPresentation(s, w) THEN ReleaseScale(s, w)
          ELSE IF ~Known(s, w)
               THEN [windows |-> [s.windows EXCEPT ![w].target = Times(window.target, wish)],
                     requests |-> [s.requests EXCEPT ![w] = fresh]]
          ELSE IF entry.ratio # wish
               THEN IF entry.resizing THEN ReleaseScale(s, w)
                    ELSE [windows |-> [s.windows EXCEPT ![w].target = Times(entry.original, wish)],
                          requests |-> [s.requests EXCEPT ![w] = another]]
          ELSE IF entry.answered \/ entry.ignored THEN s
          ELSE CheckAnswer(s, w)
    BY Zenon DEF AskAfresh
  <2> HIDE DEF fresh, another
  <2> QED BY <2>1, <2>2 DEF With, Known
<1>3. CASE wish >= WholeScale
  BY <1>2, <1>3, ReleaseHandled
<1>4. CASE ~(wish >= WholeScale)
  <2>1. wish \in Ratios /\ wish \in Nat
    BY <1>4, ScaleAssumption DEF WholeScale
  <2>2. CASE entry = NoRequest
    <3>1. /\ fresh \in Request /\ fresh.ratio = wish /\ fresh.original = window.target
          /\ fresh.frames = 0 /\ ~fresh.ignored /\ ~fresh.resizing
      <4>1. NoRequest \in Request /\ window.target \in Nat
        BY <1>1, NoRequestType DEF Window
      <4>2. fresh \in Request
        BY <2>1, <4>1 DEF Request
      <4> QED BY <2>1, <4>2 DEF NoRequest, Request
    <3>2. /\ first \in Window /\ first.target = Times(window.target, wish)
          /\ first.life = window.life /\ first.on = window.on
          /\ first.asked = window.asked /\ first.held = window.held
      <4>1. Times(window.target, wish) \in Nat
        BY <1>1, <2>1, TimesType DEF Window
      <4> QED BY <1>1, <4>1 DEF Window
    <3> HIDE DEF fresh, first
    <3>3. InStep(first, fresh)
      <4>1. ~(window.asked /\ window.held = "smaller")
        BY <2>2 DEF InStep, NoRequest
      <4>2. 0 < Patience
        BY ScaleAssumption
      <4> HIDE DEF window
      <4> QED BY <2>1, <3>1, <3>2, <4>1, <4>2 DEF InStep
    <3>4. fresh # NoRequest
      BY <2>1, <3>1, RealRequest
    <3>5. Standing(window, entry, scale) => Standing(first, fresh, scale)
      <4> HIDE DEF window, entry
      <4> QED BY <2>2, <3>1, <3>2, <3>4 DEF Standing
    <3>6. Handled(s, With(s, w, first, fresh), w, scale, scale)
      BY <3>1, <3>2, <3>3, <3>5, WithHandled
    <3> QED BY <1>2, <2>2, <3>6, ReleaseHandled
  <2>3. CASE entry # NoRequest /\ entry.ratio # wish /\ ~entry.resizing
    <3>1. /\ another \in Request /\ another.ratio = wish /\ another.original = entry.original
          /\ another.frames = 0 /\ ~another.ignored /\ another.resizing = entry.resizing
      <4>1. another \in Request
        BY <1>1, <2>1, Numbers DEF Request
      <4> QED BY <1>1, <2>1, <4>1 DEF Request
    <3>2. /\ again \in Window /\ again.target = Times(entry.original, wish)
          /\ again.life = window.life /\ again.on = window.on
          /\ again.asked = window.asked /\ again.held = window.held
      <4>1. Times(entry.original, wish) \in Nat
        BY <1>1, <2>1, TimesType DEF Request
      <4> QED BY <1>1, <4>1 DEF Window
    <3>3. ~(window.asked /\ window.held = "smaller")
      BY <2>3 DEF InStep
    <3> HIDE DEF another, again
    <3>4. InStep(again, another)
      <4>1. 0 < Patience
        BY ScaleAssumption
      <4> HIDE DEF window
      <4> QED BY <2>1, <3>1, <3>2, <3>3, <4>1 DEF InStep
    <3>5. another # NoRequest
      BY <2>1, <3>1, RealRequest
    <3>6. Standing(window, entry, scale) => Standing(again, another, scale)
      <4> HIDE DEF window, entry
      <4> QED BY <2>3, <3>1, <3>2, <3>5 DEF Standing
    <3>7. Handled(s, With(s, w, again, another), w, scale, scale)
      BY <3>1, <3>2, <3>4, <3>6, WithHandled
    <3> QED BY <1>2, <2>3, <3>7, ReleaseHandled
  <2>4. CASE entry # NoRequest /\ ~(entry.ratio # wish /\ ~entry.resizing)
    <3>1. entry.ratio = wish /\ ~entry.ignored => Handled(s, CheckAnswer(s, w), w, scale, scale)
      BY <2>1, CheckAnswerHandled
    <3> HIDE DEF entry
    <3> QED BY <1>2, <2>4, <3>1, ReleaseHandled, SameHandled
  <2> QED BY <2>2, <2>3, <2>4
<1> QED BY <1>3, <1>4

-----------------------------------------------------------------------------
(* All windows.                                                            *)

LEMMA HandledKeeps ==
    ASSUME NEW s \in States, NEW w \in Surfaces, NEW before, NEW scale, NEW after,
           WellKept(s), Living(s, w), Handled(s, after, w, before, scale)
    PROVE  /\ after \in States /\ WellKept(after) /\ Living(after, w)
           /\ \A scalesThen : StandingBut(s, scalesThen, {w}) => StandingBut(after, scalesThen, {w})
           /\ \A scalesThen : StandingBut(s, scalesThen, {}) /\ before = scalesThen[s.windows[w].on]
                                 /\ scale = before
                              => StandingBut(after, scalesThen, {})
BY DEF WellKept, Living, Handled, StandingBut

LEMMA WithKeeps ==
    ASSUME NEW s \in States, NEW w \in Surfaces, NEW window \in Window, NEW entry \in Request,
           WellKept(s), window.life \in {"new", "mapped"}, InStep(window, entry)
    PROVE  LET after == With(s, w, window, entry) IN
           /\ after \in States /\ WellKept(after) /\ Living(after, w)
           /\ after.windows[w] = window /\ after.requests[w] = entry
           /\ \A scalesThen : /\ StandingBut(s, scalesThen, {w})
                              /\ Standing(window, entry, scalesThen[window.on])
                              => StandingBut(after, scalesThen, {})
<1> DEFINE after == With(s, w, window, entry)
<1>1. /\ after \in States
      /\ after.windows[w] = window
      /\ after.requests[w] = entry
      /\ \A v \in Surfaces \ {w} :
             after.windows[v] = s.windows[v] /\ after.requests[v] = s.requests[v]
  BY WithType
<1> HIDE DEF after
<1>2. WellKept(after) /\ Living(after, w)
  BY <1>1 DEF WellKept, Living
<1>3. ASSUME NEW scalesThen, StandingBut(s, scalesThen, {w}),
             Standing(window, entry, scalesThen[window.on])
      PROVE  StandingBut(after, scalesThen, {})
  BY <1>1, <1>3 DEF StandingBut, Living
<1> QED BY <1>1, <1>2, <1>3 DEF after

LEMMA FewerBut ==
    ASSUME NEW s, NEW scalesThen, NEW w, StandingBut(s, scalesThen, {})
    PROVE  StandingBut(s, scalesThen, {w})
BY DEF StandingBut

LEMMA NowType ==
    ASSUME ScaleTypeOK
    PROVE  Now \in States /\ Now.windows = windows /\ Now.requests = scaleRequests
BY DEF ScaleTypeOK, States, Now

LEMMA Becoming ==
    ASSUME NEW after \in States, Becomes(after), WellKept(after),
           \A w \in Surfaces : client'[w] \in Clients[w],
           scales' \in [Outputs -> OutputScales], ratio' \in Ratios \cup {WholeScale, Off},
           active' \in Surfaces \cup {NoSurface}, scaleChanges' \in 0..MaxScaleChanges
    PROVE  ScaleInv' /\ (StandingBut(after, scales', {}) => StandingInv')
<1>1. windows' = after.windows /\ scaleRequests' = after.requests
  BY DEF Becomes
<1>2. Now' = after
  BY <1>1 DEF Now, States
<1>3. windows' \in [Surfaces -> Window] /\ scaleRequests' \in [Surfaces -> Request]
  BY <1>1 DEF States
<1>4. ScaleTypeOK'
  BY <1>3 DEF ScaleTypeOK
<1>5. WellKept(Now')
  BY <1>2
<1>6. StandingBut(after, scales', {}) => StandingBut(Now', scales', {})
  BY <1>2
<1> QED BY <1>4, <1>5, <1>6 DEF ScaleInv, StandingInv

\* Windows and requests that are each handled as if they were alone.
LEMMA EachKeeps ==
    ASSUME NEW s \in States, WellKept(s), NEW after \in States, NEW scalesThen,
           \A w \in Surfaces :
               \/ after.windows[w] = s.windows[w] /\ after.requests[w] = s.requests[w]
               \/ \E alone : /\ Living(s, w)
                             /\ \E scale : Handled(s, alone, w, scale, scale)
                             /\ \A scale : Handled(s, alone, w, scale, scale)
                             /\ after.windows[w] = alone.windows[w]
                             /\ after.requests[w] = alone.requests[w]
    PROVE  /\ WellKept(after)
           /\ StandingBut(s, scalesThen, {}) => StandingBut(after, scalesThen, {})
BY DEF WellKept, Living, Handled, StandingBut

-----------------------------------------------------------------------------
(* The steps.                                                              *)

\* One window changed; KWin's signal has its request judged again.
LEMMA RecheckKeeps ==
    ASSUME NEW s \in States, NEW w \in Surfaces, WellKept(s), Living(s, w)
    PROVE  /\ Recheck(s, w) \in States /\ WellKept(Recheck(s, w))
           /\ \A scalesThen : StandingBut(s, scalesThen, {})
                                  => StandingBut(Recheck(s, w), scalesThen, {})
<1>1. InStep(s.windows[w], s.requests[w])
  BY DEF WellKept
<1>2. \A scale : Handled(s, Recheck(s, w), w, scale, scale)
  BY <1>1, RecheckHandled
<1> DEFINE after == Recheck(s, w)
<1>3. \A scale : Handled(s, after, w, scale, scale)
  BY <1>2
<1> HIDE DEF after
<1>4. after \in States /\ WellKept(after)
  <2>1. Handled(s, after, w, 0, 0)
    BY <1>3
  <2> QED BY <2>1, HandledKeeps
<1>5. ASSUME NEW scalesThen, StandingBut(s, scalesThen, {})
      PROVE  StandingBut(after, scalesThen, {})
  <2> DEFINE scale == scalesThen[s.windows[w].on]
  <2>1. Handled(s, after, w, scale, scale)
    BY <1>3
  <2> HIDE DEF scale
  <2>2. scale = scalesThen[s.windows[w].on] => StandingBut(after, scalesThen, {})
    BY <1>5, <2>1, HandledKeeps
  <2> QED BY <2>2 DEF scale
<1> QED BY <1>4, <1>5 DEF after

\* Every window but one gives back what was asked of it.
LEMMA ReleaseOthersKeeps ==
    ASSUME ScaleInv, NEW o, NEW kept
    PROVE  LET after == ReleaseOthers(Now, o, kept) IN
           /\ after \in States /\ WellKept(after)
           /\ \A scalesThen : StandingBut(Now, scalesThen, {}) => StandingBut(after, scalesThen, {})
           /\ kept \in Surfaces => /\ after.windows[kept] = windows[kept]
                                   /\ after.requests[kept] = scaleRequests[kept]
<1> DEFINE others == {v \in Surfaces \ {kept} : Known(Now, v) /\ Now.windows[v].life = "mapped"
                                                 /\ Now.windows[v].on = o}
           after == [windows |-> [v \in Surfaces |->
                         IF v \in others THEN ReleaseScale(Now, v).windows[v] ELSE Now.windows[v]],
                     requests |-> [v \in Surfaces |->
                         IF v \in others THEN NoRequest ELSE Now.requests[v]]]
<1>1. ReleaseOthers(Now, o, kept) = after
  BY DEF ReleaseOthers
<1>2. Now \in States /\ Now.windows = windows /\ Now.requests = scaleRequests /\ WellKept(Now)
  BY NowType DEF ScaleInv
<1>3. ASSUME NEW v \in others
      PROVE  /\ Living(Now, v)
             /\ \A scale : Handled(Now, ReleaseScale(Now, v), v, scale, scale)
             /\ ReleaseScale(Now, v).requests[v] = NoRequest
             /\ ReleaseScale(Now, v) \in States
  <2>1. Living(Now, v) /\ InStep(Now.windows[v], Now.requests[v])
    BY <1>2, <1>3 DEF Living, WellKept
  <2> QED BY <1>2, <2>1, ReleaseHandled DEF Handled
<1>4. \A v \in Surfaces : /\ v \in others => /\ after.windows[v] = ReleaseScale(Now, v).windows[v]
                                             /\ after.requests[v] = NoRequest
                          /\ v \notin others => /\ after.windows[v] = Now.windows[v]
                                                /\ after.requests[v] = Now.requests[v]
  OBVIOUS
<1>5. after \in States
  <2>1. \A v \in others : ReleaseScale(Now, v).windows[v] \in Window
    BY <1>3 DEF States
  <2> QED BY <1>2, <2>1, NoRequestType DEF States
<1>6. kept \notin others
  OBVIOUS
<1>7. others \subseteq Surfaces
  OBVIOUS
<1> HIDE DEF after, others
<1>8. ASSUME NEW v \in Surfaces
      PROVE  \/ after.windows[v] = Now.windows[v] /\ after.requests[v] = Now.requests[v]
             \/ \E alone : /\ Living(Now, v)
                           /\ \E scale : Handled(Now, alone, v, scale, scale)
                           /\ \A scale : Handled(Now, alone, v, scale, scale)
                           /\ after.windows[v] = alone.windows[v]
                           /\ after.requests[v] = alone.requests[v]
  BY <1>3, <1>4
<1>9. /\ WellKept(after)
      /\ \A scalesThen : StandingBut(Now, scalesThen, {}) => StandingBut(after, scalesThen, {})
  BY <1>2, <1>5, <1>8, EachKeeps
<1> QED BY <1>1, <1>2, <1>4, <1>5, <1>6, <1>9

\* What an action keeps.
Kept == ScaleInv' /\ (Apart /\ StandingInv => StandingInv')

LEMMA AskKeeps ==
    ASSUME ScaleInv, NEW o \in Outputs, AskForSmallerBuffer(o)
    PROVE  Kept
<1>1. PICK w \in {Awaiting(Now, o)} : \E alone \in {ReleaseOthers(Now, o, w)} :
          Becomes(IF w = NoSurface THEN alone
                  ELSE AskAfresh(alone, w, AutoRatio(alone, w), client[w].method = "auto"))
  BY DEF AskForSmallerBuffer
<1> DEFINE alone == ReleaseOthers(Now, o, w)
           after == IF w = NoSurface THEN alone
                    ELSE AskAfresh(alone, w, AutoRatio(alone, w), client[w].method = "auto")
<1>2. Becomes(after)
  BY <1>1
<1>3. UNCHANGED <<client, scales, ratio, active, scaleChanges>>
  BY DEF AskForSmallerBuffer
<1>4. /\ alone \in States /\ WellKept(alone)
      /\ \A scalesThen : StandingBut(Now, scalesThen, {}) => StandingBut(alone, scalesThen, {})
      /\ w \in Surfaces => /\ alone.windows[w] = windows[w]
                           /\ alone.requests[w] = scaleRequests[w]
  BY ReleaseOthersKeeps
<1>5. w = NoSurface \/ (w \in Surfaces /\ windows[w].life = "mapped")
  <2>1. w = Awaiting(Now, o) /\ Now.windows = windows
    BY DEF Now
  <2> DEFINE found == {v \in Surfaces : Now.windows[v].on = o /\ Qualifies(Now, v)}
  <2>2. w = NoSurface \/ (Cardinality(found) = 1 /\ w = CHOOSE v \in found : TRUE)
    BY <2>1 DEF Awaiting
  <2>3. \A v \in found : v \in Surfaces /\ windows[v].life = "mapped"
    BY <2>1 DEF Qualifies
  <2>4. Cardinality(found) = 1 => found # {}
    <3>1. Cardinality({}) = 0
      BY FS_EmptySet
    <3> HIDE DEF found
    <3> QED BY <3>1
  <2> HIDE DEF found
  <2> QED BY <2>2, <2>3, <2>4
<1> HIDE DEF alone
<1>6. /\ after \in States /\ WellKept(after)
      /\ \A scalesThen : StandingBut(Now, scalesThen, {}) => StandingBut(after, scalesThen, {})
  <2>1. CASE w = NoSurface
    BY <1>4, <2>1
  <2>2. CASE w # NoSurface
    <3>1. /\ w \in Surfaces /\ Living(alone, w)
          /\ InStep(alone.windows[w], alone.requests[w])
      BY <1>4, <1>5, <2>2 DEF Living, WellKept
    <3>2. AutoRatio(alone, w) \in Ratios \cup {WholeScale}
      BY DEF AutoRatio, ScaleInv, ScaleTypeOK
    <3>3. (client[w].method = "auto") \in BOOLEAN
      OBVIOUS
    <3>4. \A scale : Handled(alone, after, w, scale, scale)
      BY <1>4, <2>2, <3>1, <3>2, <3>3, AskHandled
    <3> HIDE DEF after
    <3>5. after \in States /\ WellKept(after)
      BY <1>4, <3>1, <3>4, HandledKeeps
    <3>6. ASSUME NEW scalesThen, StandingBut(Now, scalesThen, {})
          PROVE  StandingBut(after, scalesThen, {})
      <4> DEFINE scale == scalesThen[alone.windows[w].on]
      <4>1. Handled(alone, after, w, scale, scale) /\ StandingBut(alone, scalesThen, {})
        BY <1>4, <3>4, <3>6
      <4> HIDE DEF scale
      <4>2. scale = scalesThen[alone.windows[w].on] => StandingBut(after, scalesThen, {})
        BY <1>4, <3>1, <4>1, HandledKeeps
      <4> QED BY <4>2 DEF scale
    <3> QED BY <3>5, <3>6
  <2> QED BY <2>1, <2>2
<1> HIDE DEF after
<1>7. /\ \A v \in Surfaces : client'[v] \in Clients[v]
      /\ scales' \in [Outputs -> OutputScales] /\ ratio' \in Ratios \cup {WholeScale, Off}
      /\ active' \in Surfaces \cup {NoSurface} /\ scaleChanges' \in 0..MaxScaleChanges
  BY <1>3 DEF ScaleInv, ScaleTypeOK
<1>8. ScaleInv' /\ (StandingBut(after, scales', {}) => StandingInv')
  BY <1>2, <1>6, <1>7, Becoming
<1> QED BY <1>3, <1>6, <1>8 DEF Kept, StandingInv

\* A window of KWin's changed, and its request is judged again or left.
LEMMA WindowKeeps ==
    ASSUME ScaleInv, NEW s \in States, WellKept(s), NEW w \in Surfaces,
           StandingInv /\ Apart => StandingBut(s, scales, {w}),
           NEW window \in Window, NEW entry \in Request,
           window.life \in {"new", "mapped"}, InStep(window, entry),
           StandingInv /\ Apart => Standing(window, entry, scales[window.on]),
           LET placed == With(s, w, window, entry) IN
           Becomes(placed) \/ Becomes(Recheck(placed, w)),
           UNCHANGED <<client, scales, ratio>>,
           active' \in Surfaces \cup {NoSurface}, scaleChanges' \in 0..MaxScaleChanges
    PROVE  Kept
<1> DEFINE placed == With(s, w, window, entry)
<1>1. /\ placed \in States /\ WellKept(placed) /\ Living(placed, w)
      /\ StandingInv /\ Apart => StandingBut(placed, scales, {})
  BY WithKeeps
<1>2. PICK after \in {placed, Recheck(placed, w)} : Becomes(after)
  OBVIOUS
<1> HIDE DEF placed
<1>3. /\ Recheck(placed, w) \in States /\ WellKept(Recheck(placed, w))
      /\ StandingBut(placed, scales, {}) => StandingBut(Recheck(placed, w), scales, {})
  BY <1>1, RecheckKeeps
<1>4. /\ \A v \in Surfaces : client'[v] \in Clients[v]
      /\ scales' \in [Outputs -> OutputScales] /\ ratio' \in Ratios \cup {WholeScale, Off}
  BY DEF ScaleInv, ScaleTypeOK
<1>5. /\ after \in States /\ WellKept(after)
      /\ StandingInv /\ Apart => StandingBut(after, scales', {})
  BY <1>1, <1>2, <1>3
<1>6. ScaleInv' /\ (StandingBut(after, scales', {}) => StandingInv')
  BY <1>2, <1>4, <1>5, Becoming
<1> QED BY <1>5, <1>6 DEF Kept

LEMMA NowKept ==
    ASSUME ScaleInv
    PROVE  /\ Now \in States /\ WellKept(Now) /\ Now.windows = windows
           /\ Now.requests = scaleRequests
           /\ \A w : StandingInv => StandingBut(Now, scales, {w})
BY NowType, FewerBut DEF ScaleInv, StandingInv

LEMMA InitializeKeeps ==
    ASSUME ScaleInv, NEW w \in Surfaces, NEW o \in OpensOn[w], Initialize(w, o)
    PROVE  Kept
<1> DEFINE new == [windows[w] EXCEPT !.life = "new", !.target = scales[o], !.asked = TRUE,
                                     !.held = "screen", !.on = o]
           placed == With(Now, w, new, NoRequest)
           first == [NoRequest EXCEPT !.ratio = ratio, !.original = scales[o]]
           sized == With(Now, w, new, first)
<1>1. /\ Now \in States /\ WellKept(Now) /\ Now.windows = windows
      /\ Now.requests = scaleRequests
      /\ StandingInv => StandingBut(Now, scales, {w})
  BY NowKept
<1>2. o \in Outputs /\ scales[o] \in Nat /\ scales \in [Outputs -> OutputScales]
  BY ScaleAssumption DEF ScaleInv, ScaleTypeOK
<1>3. windows[w].life = "none" /\ scaleRequests[w] = NoRequest /\ windows[w] \in Window
  BY <1>1 DEF Initialize, WellKept, Living, States
<1>4. /\ new \in Window /\ new.life = "new" /\ new.target = scales[o] /\ new.held = "screen"
      /\ new.on = o
  BY <1>2, <1>3 DEF Window, Sizes
<1>5. UNCHANGED <<client, scales, ratio, active, scaleChanges>>
  BY DEF Initialize
<1>6. ASSUME Becomes(placed)
      PROVE  Kept
  <2>1. InStep(new, NoRequest) /\ Standing(new, NoRequest, scales[new.on])
    BY <1>4 DEF InStep, Standing
  <2>2. active' \in Surfaces \cup {NoSurface} /\ scaleChanges' \in 0..MaxScaleChanges
    BY <1>5 DEF ScaleInv, ScaleTypeOK
  <2> HIDE DEF new
  <2> QED BY <1>1, <1>4, <1>5, <1>6, <2>1, <2>2, NoRequestType, WindowKeeps
<1>7. ASSUME Becomes(Resize(sized, w)), ratio \in 50..(WholeScale - 1)
      PROVE  Kept
  <2>1. ratio \in Ratios
    BY <1>7, ScaleAssumption DEF ScaleInv, ScaleTypeOK, WholeScale
  <2>2. first \in Request /\ first.ratio \in Ratios /\ first.original = scales[o]
        /\ ~first.ignored /\ first.frames = 0
    BY <1>2, <2>1, NoRequestType DEF Request, NoRequest
  <2> HIDE DEF new, first
  <2>3. InStep(new, first) /\ new.life \in {"new", "mapped"}
    BY <1>4, <2>2, Numbers DEF InStep
  <2>4. /\ sized \in States /\ WellKept(sized) /\ Living(sized, w)
        /\ sized.windows[w] = new /\ sized.requests[w] = first
    BY <1>1, <1>4, <2>2, <2>3, WithKeeps
  <2>5. StandingInv => StandingBut(sized, scales, {w})
    BY <1>1, <1>4, <2>2, WithType DEF StandingInv, StandingBut, Living
  <2> HIDE DEF sized
  <2> DEFINE after == Resize(sized, w)
             own == scales[o]
  <2>6. new.target \in Nat
    BY <1>2, <1>4
  <2>7. Handled(sized, after, w, own, own) /\ Standing(after.windows[w], after.requests[w], own)
    BY <2>2, <2>4, <2>6, ResizeHandled
  <2> HIDE DEF after
  <2>8. /\ after \in States /\ WellKept(after)
        /\ StandingInv => StandingBut(after, scales, {w})
    BY <2>4, <2>5, <2>7, HandledKeeps
  <2>9. StandingInv => StandingBut(after, scales, {})
    <3>1. after.windows[w].on = o
      BY <1>4, <2>4, <2>7 DEF Handled
    <3> QED BY <2>7, <2>8, <3>1 DEF StandingBut
  <2>10. /\ \A v \in Surfaces : client'[v] \in Clients[v]
         /\ scales' \in [Outputs -> OutputScales] /\ ratio' \in Ratios \cup {WholeScale, Off}
         /\ active' \in Surfaces \cup {NoSurface} /\ scaleChanges' \in 0..MaxScaleChanges
    BY <1>5 DEF ScaleInv, ScaleTypeOK
  <2>11. ScaleInv' /\ (StandingBut(after, scales', {}) => StandingInv')
    BY <1>7, <2>8, <2>10, Becoming DEF after
  <2> QED BY <1>5, <2>9, <2>11 DEF Kept
<1>8. Becomes(placed) \/ (Becomes(Resize(sized, w)) /\ ratio \in 50..(WholeScale - 1))
  <2> DEFINE change == [Now EXCEPT !.windows[w] = new]
             request == [change EXCEPT !.requests[w] = first]
  <2>1. \/ Becomes(change)
        \/ Becomes(Resize(request, w)) /\ ratio \in 50..(WholeScale - 1)
    BY DEF Initialize
  <2> HIDE DEF new, first
  <2>2. change \in [windows : {[Now.windows EXCEPT ![w] = new]}, requests : {Now.requests}]
    BY <1>1 DEF States
  <2>3. Now.requests = [Now.requests EXCEPT ![w] = NoRequest]
    BY <1>1, <1>3 DEF States
  <2> HIDE DEF change
  <2>4. change = placed
    BY <2>2, <2>3, BothFields DEF With
  <2>5. placed \in States
    BY <1>1, <1>4, NoRequestType, WithType
  <2>6. [placed EXCEPT !.requests[w] = first]
            \in [windows : {placed.windows}, requests : {[placed.requests EXCEPT ![w] = first]}]
    <3> HIDE DEF placed
    <3> QED BY <2>5 DEF States
  <2>7. [placed.requests EXCEPT ![w] = first] = [Now.requests EXCEPT ![w] = first]
        /\ placed.windows = [Now.windows EXCEPT ![w] = new]
    BY <1>1 DEF With, States
  <2>8. [placed EXCEPT !.requests[w] = first] = sized
    <3> HIDE DEF placed
    <3> DEFINE whole == [placed EXCEPT !.requests[w] = first]
    <3>1. whole \in [windows : {placed.windows}, requests : {[placed.requests EXCEPT ![w] = first]}]
      BY <2>6
    <3> HIDE DEF whole
    <3>2. whole = sized
      BY <2>7, <3>1, BothFields DEF With
    <3> QED BY <3>2 DEF whole
  <2> HIDE DEF placed, sized
  <2> QED BY <2>1, <2>4, <2>8
<1> HIDE DEF placed, sized
<1> QED BY <1>6, <1>7, <1>8

\* The two are one window with its request.
LEMMA OneWindow ==
    ASSUME ScaleInv, NEW w \in Surfaces, NEW window, NEW change,
           change \in [windows : {[windows EXCEPT ![w] = window]}, requests : {scaleRequests}]
    PROVE  change = With(Now, w, window, scaleRequests[w])
<1>1. scaleRequests = [scaleRequests EXCEPT ![w] = scaleRequests[w]]
  BY DEF ScaleInv, ScaleTypeOK
<1>2. With(Now, w, window, scaleRequests[w])
          = [windows |-> [windows EXCEPT ![w] = window], requests |-> scaleRequests]
  BY <1>1, NowType DEF With, ScaleInv
<1> QED BY <1>2, BothFields

LEMMA OwnStep ==
    ASSUME ScaleInv, NEW w \in Surfaces, Alive(w)
    PROVE  /\ windows[w] \in Window /\ scaleRequests[w] \in Request
           /\ InStep(windows[w], scaleRequests[w])
           /\ StandingInv => Standing(windows[w], scaleRequests[w], scales[windows[w].on])
BY NowType DEF ScaleInv, ScaleTypeOK, WellKept, Living, Alive, StandingInv, StandingBut

LEMMA CommitKeeps ==
    ASSUME ScaleInv, NEW w \in Surfaces, Commit(w)
    PROVE  Kept
<1> DEFINE window == Draws(w)
           change == [Now EXCEPT !.windows[w] = window]
           entry == scaleRequests[w]
<1>1. /\ Alive(w) /\ (Becomes(change) \/ Becomes(Recheck(change, w)))
      /\ active' = (IF windows[w].life = "new" THEN w ELSE active)
      /\ UNCHANGED <<client, scales, ratio, scaleChanges>>
  BY DEF Commit, Alive
<1>2. /\ windows[w] \in Window /\ entry \in Request /\ InStep(windows[w], entry)
      /\ StandingInv => Standing(windows[w], entry, scales[windows[w].on])
  BY <1>1, OwnStep
<1>3. /\ window \in Window /\ window.life = "mapped" /\ window.asked = windows[w].asked
      /\ window.held = windows[w].held /\ window.target = windows[w].target
      /\ window.on = windows[w].on
  BY <1>2 DEF Draws, Window, Sizes
<1>4. change \in [windows : {[windows EXCEPT ![w] = window]}, requests : {scaleRequests}]
  BY NowKept DEF States
<1> HIDE DEF change, window, entry
<1>5. change = With(Now, w, window, scaleRequests[w])
  BY <1>4, OneWindow
<1>6. InStep(window, entry) /\ (StandingInv => Standing(window, entry, scales[window.on]))
  BY <1>2, <1>3 DEF InStep, Standing
<1>7. active' \in Surfaces \cup {NoSurface} /\ scaleChanges' \in 0..MaxScaleChanges
  BY <1>1 DEF ScaleInv, ScaleTypeOK
<1>8. Becomes(With(Now, w, window, entry)) \/ Becomes(Recheck(With(Now, w, window, entry), w))
  BY <1>1, <1>5 DEF entry
<1> QED BY <1>1, <1>2, <1>3, <1>6, <1>7, <1>8, NowKept, WindowKeeps

LEMMA ChangeStateKeeps ==
    ASSUME ScaleInv, NEW w \in Surfaces, ChangeState(w)
    PROVE  Kept
<1> DEFINE window == [windows[w] EXCEPT !.asked = ~windows[w].asked,
                                        !.held = IF windows[w].asked THEN "normal" ELSE "screen"]
           change == [Now EXCEPT !.windows[w].asked = ~windows[w].asked,
                                 !.windows[w].held = IF windows[w].asked THEN "normal"
                                                     ELSE "screen"]
           entry == scaleRequests[w]
<1>1. /\ Alive(w) /\ windows[w].life = "mapped" /\ Becomes(Recheck(change, w)) /\ Changed
      /\ UNCHANGED <<client, scales, ratio, active>>
  BY DEF ChangeState, Alive
<1>2. /\ windows[w] \in Window /\ entry \in Request /\ InStep(windows[w], entry)
      /\ StandingInv => Standing(windows[w], entry, scales[windows[w].on])
  BY <1>1, OwnStep
<1>3. /\ window \in Window /\ window.life = "mapped" /\ window.held # "smaller"
      /\ window.target = windows[w].target /\ window.on = windows[w].on
  BY <1>1, <1>2 DEF Window, Sizes
<1>4. change \in [windows : {[windows EXCEPT ![w] = window]}, requests : {scaleRequests}]
  BY NowKept DEF States
<1> HIDE DEF change, window, entry
<1>5. change = With(Now, w, window, scaleRequests[w])
  BY <1>4, OneWindow
<1>6. InStep(window, entry) /\ (StandingInv => Standing(window, entry, scales[window.on]))
  BY <1>2, <1>3 DEF InStep, Standing
<1>7. active' \in Surfaces \cup {NoSurface} /\ scaleChanges' \in 0..MaxScaleChanges
  BY <1>1, ScaleAssumption DEF ScaleInv, ScaleTypeOK, Changed
<1>8. Becomes(Recheck(With(Now, w, window, entry), w))
  BY <1>1, <1>5 DEF entry
<1> QED BY <1>1, <1>2, <1>3, <1>6, <1>7, <1>8, NowKept, WindowKeeps

\* No scale a request knows is a negative number: what SetTarget() keeps whatever
\* the scales are.
LEMMA ToldKept ==
    ASSUME ScaleInv, NEW w \in Surfaces, Alive(w), NEW scale \in OutputScales
    PROVE  LET told == SetTarget(Now, w, scale) IN
           /\ told \in States /\ WellKept(told) /\ Living(told, w)
           /\ told.windows[w].life = windows[w].life /\ told.windows[w].on = windows[w].on
           /\ \A v \in Surfaces \ {w} : /\ told.windows[v] = windows[v]
                                        /\ told.requests[v] = scaleRequests[v]
           /\ InStep(told.windows[w], told.requests[w])
           /\ StandingInv /\ Apart => Standing(told.windows[w], told.requests[w], scale)
<1> DEFINE told == SetTarget(Now, w, scale)
<1>1. /\ Now \in States /\ WellKept(Now) /\ Now.windows = windows
      /\ Now.requests = scaleRequests /\ Living(Now, w)
  BY NowKept DEF Living, Alive
<1>2. /\ windows[w] \in Window /\ scaleRequests[w] \in Request
      /\ InStep(windows[w], scaleRequests[w])
      /\ StandingInv => Standing(windows[w], scaleRequests[w], scales[windows[w].on])
  BY OwnStep
<1>3. scale \in Nat
  BY ScaleAssumption
<1>4. Handled(Now, told, w, -1, scale)
  <2>1. ~Standing(windows[w], scaleRequests[w], -1)
    BY <1>2 DEF Standing, Window, Request
  <2> QED BY <1>1, <1>2, <1>3, <2>1, SetTargetHandled
<1>5. ASSUME StandingInv, Apart
      PROVE  Standing(told.windows[w], told.requests[w], scale)
  <2> DEFINE before == scales[windows[w].on]
  <2>1. before \in OutputScales
    BY <1>2 DEF ScaleInv, ScaleTypeOK, Window
  <2>2. \A share \in Ratios : Times(before, share) # scale
    BY <1>5, <2>1 DEF Apart
  <2>3. Standing(windows[w], scaleRequests[w], before)
    BY <1>2, <1>5
  <2> HIDE DEF before
  <2>4. Handled(Now, told, w, before, scale)
    BY <1>1, <1>2, <1>3, <2>2, SetTargetHandled
  <2> HIDE DEF told
  <2> QED BY <1>1, <2>3, <2>4 DEF Handled
<1> HIDE DEF told
<1>6. told \in States /\ WellKept(told) /\ Living(told, w)
  BY <1>1, <1>4, HandledKeeps
<1> QED BY <1>1, <1>4, <1>5, <1>6 DEF Handled, told

LEMMA MoveKeeps ==
    ASSUME ScaleInv, NEW w \in Surfaces, NEW o \in Outputs, MoveToOutput(w, o)
    PROVE  Kept
<1> DEFINE told == SetTarget(Now, w, scales[o])
           size == IF windows[w].asked THEN "screen" ELSE "normal"
           window == [told.windows[w] EXCEPT !.on = o, !.held = size, !.frame = size]
           change == [told EXCEPT !.windows[w].on = o, !.windows[w].held = size,
                                  !.windows[w].frame = size]
           entry == told.requests[w]
<1>1. /\ Alive(w) /\ windows[w].life = "mapped" /\ Becomes(Recheck(change, w)) /\ Changed
      /\ UNCHANGED <<client, scales, ratio, active>>
  BY DEF MoveToOutput, Alive
<1>2. scales[o] \in OutputScales
  BY DEF ScaleInv, ScaleTypeOK
<1>3. /\ told \in States /\ WellKept(told)
      /\ told.windows[w].life = windows[w].life
      /\ \A v \in Surfaces \ {w} : /\ told.windows[v] = windows[v]
                                   /\ told.requests[v] = scaleRequests[v]
      /\ InStep(told.windows[w], entry)
      /\ StandingInv /\ Apart => Standing(told.windows[w], entry, scales[o])
  BY <1>1, <1>2, ToldKept
<1>4. StandingInv /\ Apart => StandingBut(told, scales, {w})
  <2> HIDE DEF told
  <2> QED BY <1>3, NowKept DEF StandingBut, Living
<1> HIDE DEF told
<1>5. told.windows[w] \in Window /\ entry \in Request
  BY <1>3 DEF States
<1>6. /\ window \in Window /\ window.life = "mapped" /\ window.held # "smaller"
      /\ window.target = told.windows[w].target /\ window.on = o
  BY <1>1, <1>3, <1>5 DEF Window, Sizes
<1>7. change \in [windows : {[told.windows EXCEPT ![w] = window]}, requests : {told.requests}]
  BY <1>3 DEF States
<1>8. told.requests = [told.requests EXCEPT ![w] = entry]
  BY <1>3 DEF States
<1> HIDE DEF change, window, entry
<1>9. change = With(told, w, window, entry)
  BY <1>7, <1>8, BothFields DEF With
<1>10. InStep(window, entry)
       /\ (StandingInv /\ Apart => Standing(window, entry, scales[window.on]))
  BY <1>3, <1>6 DEF InStep, Standing
<1>11. active' \in Surfaces \cup {NoSurface} /\ scaleChanges' \in 0..MaxScaleChanges
  BY <1>1, ScaleAssumption DEF ScaleInv, ScaleTypeOK, Changed
<1>12. Becomes(Recheck(With(told, w, window, entry), w))
  BY <1>1, <1>9 DEF change, told
<1> QED BY <1>1, <1>3, <1>4, <1>5, <1>6, <1>10, <1>11, <1>12, WindowKeeps

LEMMA RescaleKeeps ==
    ASSUME ScaleInv, NEW o \in Outputs, NEW scale \in OutputScales, RescaleOutput(o, scale)
    PROVE  Kept
<1> DEFINE there == {w \in Surfaces : windows[w].on = o /\ Alive(w)}
           told == [w \in Surfaces |-> IF w \in there THEN SetTarget(Now, w, scale) ELSE Now]
           after == [windows |-> [w \in Surfaces |-> told[w].windows[w]],
                     requests |-> [w \in Surfaces |-> told[w].requests[w]]]
<1>1. /\ Becomes(after) /\ Changed /\ scales' = [scales EXCEPT ![o] = scale]
      /\ UNCHANGED <<client, ratio, active>>
  <2> DEFINE each == [w \in Surfaces |-> IF windows[w].on = o /\ Alive(w)
                                         THEN SetTarget(Now, w, scale) ELSE Now]
  <2>1. each = told
    OBVIOUS
  <2>2. /\ Becomes([windows |-> [w \in Surfaces |-> each[w].windows[w]],
                    requests |-> [w \in Surfaces |-> each[w].requests[w]]])
        /\ Changed /\ scales' = [scales EXCEPT ![o] = scale]
        /\ UNCHANGED <<client, ratio, active>>
    BY Zenon DEF RescaleOutput
  <2> HIDE DEF each, told
  <2> QED BY <2>1, <2>2
<1>2. ASSUME NEW w \in there
      PROVE  /\ told[w] \in States /\ WellKept(told[w]) /\ Living(told[w], w)
             /\ told[w].windows[w].life = windows[w].life /\ told[w].windows[w].on = o
             /\ InStep(told[w].windows[w], told[w].requests[w])
             /\ StandingInv /\ Apart => Standing(told[w].windows[w], told[w].requests[w], scale)
  <2>1. told[w] = SetTarget(Now, w, scale)
    OBVIOUS
  <2>2. w \in Surfaces /\ Alive(w) /\ windows[w].on = o
    OBVIOUS
  <2> HIDE DEF told, there
  <2> QED BY <2>1, <2>2, ToldKept
<1>3. \A w \in Surfaces : w \notin there => told[w] = Now
  OBVIOUS
<1>4. \A w \in Surfaces : w \in there <=> windows[w].on = o /\ Alive(w)
  OBVIOUS
<1>5. \A w \in Surfaces : /\ after.windows[w] = told[w].windows[w]
                          /\ after.requests[w] = told[w].requests[w]
  OBVIOUS
<1>6. /\ Now \in States /\ WellKept(Now) /\ Now.windows = windows
      /\ Now.requests = scaleRequests
  BY NowKept
<1> HIDE DEF told, there
<1>7. \A w \in Surfaces : told[w] \in States
  BY <1>2, <1>3, <1>6
<1>8. after \in States
  BY <1>7 DEF States
<1> HIDE DEF after
<1>9. WellKept(after)
  <2>1. ASSUME NEW w \in Surfaces
        PROVE  IF Living(after, w) THEN InStep(after.windows[w], after.requests[w])
               ELSE after.requests[w] = NoRequest
    <3>1. CASE w \in there
      BY <1>2, <1>4, <1>5, <3>1 DEF Living, Alive
    <3>2. CASE w \notin there
      BY <1>3, <1>5, <1>6, <3>2 DEF Living, WellKept
    <3> QED BY <3>1, <3>2
  <2> QED BY <2>1 DEF WellKept
<1>10. ASSUME StandingInv, Apart
       PROVE  StandingBut(after, scales', {})
  <2>1. ASSUME NEW w \in Surfaces, Living(after, w)
        PROVE  Standing(after.windows[w], after.requests[w], scales'[after.windows[w].on])
    <3>1. CASE w \in there
      <4>1. scales'[o] = scale
        BY <1>1 DEF ScaleInv, ScaleTypeOK
      <4> QED BY <1>2, <1>5, <1>10, <3>1, <4>1
    <3>2. CASE w \notin there
      <4>1. after.windows[w] = windows[w] /\ after.requests[w] = scaleRequests[w]
        BY <1>3, <1>5, <1>6, <3>2
      <4>2. Alive(w) /\ windows[w].on # o
        BY <1>4, <2>1, <3>2, <4>1 DEF Living, Alive
      <4>3. Standing(windows[w], scaleRequests[w], scales[windows[w].on]) /\ windows[w] \in Window
        BY <1>10, <4>2, OwnStep
      <4>4. scales'[windows[w].on] = scales[windows[w].on]
        BY <1>1, <4>2, <4>3 DEF ScaleInv, ScaleTypeOK, Window
      <4> QED BY <4>1, <4>3, <4>4
    <3> QED BY <3>1, <3>2
  <2> QED BY <2>1 DEF StandingBut
<1>11. /\ \A v \in Surfaces : client'[v] \in Clients[v]
       /\ scales' \in [Outputs -> OutputScales] /\ ratio' \in Ratios \cup {WholeScale, Off}
       /\ active' \in Surfaces \cup {NoSurface} /\ scaleChanges' \in 0..MaxScaleChanges
  BY <1>1, ScaleAssumption DEF ScaleInv, ScaleTypeOK, Changed
<1>12. ScaleInv' /\ (StandingBut(after, scales', {}) => StandingInv')
  BY <1>1, <1>8, <1>9, <1>11, Becoming
<1> QED BY <1>10, <1>12 DEF Kept

LEMMA ReconfigureKeeps ==
    ASSUME ScaleInv, NEW wish \in Ratios \cup {WholeScale, Off}, Reconfigure(wish)
    PROVE  Kept
<1> DEFINE known == {w \in Surfaces : Known(Now, w)}
           after == [windows |-> [w \in Surfaces |->
                         IF w \in known THEN ReleaseScale(Now, w).windows[w] ELSE windows[w]],
                     requests |-> [w \in Surfaces |-> NoRequest]]
<1>1. /\ Becomes(after) /\ Changed /\ ratio' = wish /\ UNCHANGED <<client, scales, active>>
  BY Zenon DEF Reconfigure
<1>2. /\ Now \in States /\ WellKept(Now) /\ Now.windows = windows
      /\ Now.requests = scaleRequests
  BY NowKept
<1>3. ASSUME NEW w \in known
      PROVE  /\ w \in Surfaces /\ Living(Now, w)
             /\ \A scale : Handled(Now, ReleaseScale(Now, w), w, scale, scale)
             /\ ReleaseScale(Now, w).requests[w] = NoRequest
             /\ ReleaseScale(Now, w) \in States
  <2>1. w \in Surfaces /\ Living(Now, w) /\ InStep(Now.windows[w], Now.requests[w])
    BY <1>2 DEF Known, WellKept
  <2> QED BY <1>2, <2>1, ReleaseHandled DEF Handled
<1>4. \A w \in Surfaces : /\ after.requests[w] = NoRequest
                          /\ w \in known => after.windows[w] = ReleaseScale(Now, w).windows[w]
                          /\ w \notin known => /\ after.windows[w] = Now.windows[w]
                                               /\ after.requests[w] = Now.requests[w]
  BY <1>2 DEF Known
<1>5. after \in States
  <2>1. \A w \in known : ReleaseScale(Now, w).windows[w] \in Window
    BY <1>3 DEF States
  <2> QED BY <1>2, <2>1, NoRequestType DEF States
<1> HIDE DEF known, after
<1>6. ASSUME NEW w \in Surfaces
      PROVE  \/ after.windows[w] = Now.windows[w] /\ after.requests[w] = Now.requests[w]
             \/ \E alone : /\ Living(Now, w)
                           /\ \E scale : Handled(Now, alone, w, scale, scale)
                           /\ \A scale : Handled(Now, alone, w, scale, scale)
                           /\ after.windows[w] = alone.windows[w]
                           /\ after.requests[w] = alone.requests[w]
  BY <1>3, <1>4
<1>7. WellKept(after) /\ (StandingInv => StandingBut(after, scales, {}))
  BY <1>2, <1>5, <1>6, EachKeeps DEF StandingInv
<1>8. /\ \A v \in Surfaces : client'[v] \in Clients[v]
      /\ scales' \in [Outputs -> OutputScales] /\ ratio' \in Ratios \cup {WholeScale, Off}
      /\ active' \in Surfaces \cup {NoSurface} /\ scaleChanges' \in 0..MaxScaleChanges
  BY <1>1, ScaleAssumption DEF ScaleInv, ScaleTypeOK, Changed
<1>9. ScaleInv' /\ (StandingBut(after, scales', {}) => StandingInv')
  BY <1>1, <1>5, <1>7, <1>8, Becoming
<1> QED BY <1>1, <1>7, <1>9 DEF Kept

LEMMA CloseKeeps ==
    ASSUME ScaleInv, NEW w \in Surfaces, Close(w)
    PROVE  Kept
<1> DEFINE window == [windows[w] EXCEPT !.life = "gone"]
           change == [Now EXCEPT !.windows[w].life = "gone", !.requests[w] = NoRequest]
           after == With(Now, w, window, NoRequest)
<1>1. /\ Becomes(change) /\ Changed /\ active' = (IF active = w THEN NoSurface ELSE active)
      /\ UNCHANGED <<client, scales, ratio>>
  BY DEF Close
<1>2. /\ Now \in States /\ WellKept(Now) /\ Now.windows = windows
      /\ Now.requests = scaleRequests /\ (StandingInv => StandingBut(Now, scales, {w}))
  BY NowKept
<1>3. window \in Window /\ window.life = "gone"
  BY <1>2 DEF States, Window
<1>4. change \in [windows : {[Now.windows EXCEPT ![w] = window]},
                  requests : {[Now.requests EXCEPT ![w] = NoRequest]}]
  BY <1>2 DEF States
<1> HIDE DEF change, window
<1>5. change = after
  BY <1>4, BothFields DEF With
<1>6. /\ after \in States /\ after.windows[w] = window /\ after.requests[w] = NoRequest
      /\ \A v \in Surfaces \ {w} : /\ after.windows[v] = Now.windows[v]
                                   /\ after.requests[v] = Now.requests[v]
  BY <1>2, <1>3, NoRequestType, WithType
<1> HIDE DEF after
<1>7. WellKept(after) /\ (StandingInv => StandingBut(after, scales, {}))
  BY <1>2, <1>3, <1>6 DEF WellKept, StandingBut, Living
<1>8. /\ \A v \in Surfaces : client'[v] \in Clients[v]
      /\ scales' \in [Outputs -> OutputScales] /\ ratio' \in Ratios \cup {WholeScale, Off}
      /\ active' \in Surfaces \cup {NoSurface} /\ scaleChanges' \in 0..MaxScaleChanges
  BY <1>1, ScaleAssumption DEF ScaleInv, ScaleTypeOK, Changed
<1>9. ScaleInv' /\ (StandingBut(after, scales', {}) => StandingInv')
  BY <1>1, <1>5, <1>6, <1>7, <1>8, Becoming
<1> QED BY <1>1, <1>7, <1>9 DEF Kept

LEMMA RestKeeps ==
    ASSUME ScaleInv,
           \/ UNCHANGED scaleVars
           \/ \E w \in Surfaces \cup {NoSurface} : Activate(w)
    PROVE  Kept
<1>1. /\ windows' = windows /\ scaleRequests' = scaleRequests /\ scales' = scales
      /\ client' = client /\ ratio' = ratio
      /\ active' \in Surfaces \cup {NoSurface} /\ scaleChanges' \in 0..MaxScaleChanges
  BY ScaleAssumption DEF scaleVars, Activate, Changed, ScaleInv, ScaleTypeOK
<1>2. Now' = Now
  BY <1>1 DEF Now
<1>3. ScaleTypeOK' /\ WellKept(Now') /\ (StandingInv => StandingBut(Now', scales', {}))
  BY <1>1, <1>2 DEF ScaleInv, ScaleTypeOK, StandingInv
<1> QED BY <1>3 DEF Kept, ScaleInv, StandingInv

LEMMA ScaleSteps == ScaleInv /\ [ScaleNext]_scaleVars => Kept
BY AskKeeps, CommitKeeps, ChangeStateKeeps, CloseKeeps, InitializeKeeps, MoveKeeps,
   RescaleKeeps, ReconfigureKeeps, RestKeeps, ScaleAssumption
   DEF ScaleNext

LEMMA ScaleInitHolds == ScaleInit => ScaleInv /\ StandingInv
<1> SUFFICES ASSUME ScaleInit PROVE ScaleInv /\ StandingInv
  OBVIOUS
<1> DEFINE somewhere == CHOOSE o \in Outputs : TRUE
           new == [life |-> "none", target |-> 0, asked |-> FALSE, held |-> "normal",
                   full |-> FALSE, frame |-> "normal", on |-> somewhere, small |-> FALSE]
<1>1. somewhere \in Outputs
  BY ScaleAssumption
<1> HIDE DEF somewhere
<1>2. new \in Window /\ new.life = "none"
  BY <1>1 DEF Window, Sizes
<1>3. /\ windows = [w \in Surfaces |-> new] /\ scaleRequests = [w \in Surfaces |-> NoRequest]
      /\ scales = FirstScales /\ ratio \in Ratios /\ active = NoSurface /\ scaleChanges = 0
      /\ \A w \in Surfaces : client[w] \in Clients[w]
  BY DEF ScaleInit, somewhere
<1> HIDE DEF new
<1>4. ScaleTypeOK
  BY <1>2, <1>3, NoRequestType, ScaleAssumption DEF ScaleTypeOK
<1>5. \A w \in Surfaces : ~Living(Now, w) /\ Now.requests[w] = NoRequest
  BY <1>2, <1>3 DEF Living, Now
<1> QED BY <1>4, <1>5 DEF ScaleInv, StandingInv, StandingBut, WellKept

\* Windows and requests have their types, and stay in step: no client is waited for
\* beyond its patience, and no window is kept smaller without a request.
THEOREM ScaleInvariance == ScaleSpec => []ScaleInv
<1>1. ScaleInv /\ [ScaleNext]_scaleVars => ScaleInv'
  BY ScaleSteps DEF Kept
<1> QED BY ScaleInitHolds, <1>1, PTL DEF ScaleSpec

THEOREM ScaleTyped == ScaleSpec => []ScaleTypeOK
<1>1. ScaleInv => ScaleTypeOK
  BY DEF ScaleInv
<1> QED BY <1>1, ScaleInvariance, PTL

\* What was asked of a window goes back with the request, whatever KWin set in the
\* meantime, as long as no output's scale is the share of another's.
THEOREM GivesBack == Apart /\ ScaleSpec => []GivenBack
<1>1. ScaleInv /\ StandingInv => GivenBack
  <2>1. ASSUME ScaleInv, StandingInv, NEW w \in Surfaces, Alive(w)
        PROVE  /\ scaleRequests[w] = NoRequest \/ scaleRequests[w].ignored \/ scaleRequests[w].resizing
                      => windows[w].target = scales[windows[w].on]
               /\ windows[w].asked /\ windows[w].held = "smaller" => Resized(Now, w)
    <3>1. /\ InStep(windows[w], scaleRequests[w])
          /\ Standing(windows[w], scaleRequests[w], scales[windows[w].on])
      BY <2>1, OwnStep
    <3>2. Now.requests[w] = scaleRequests[w]
      BY DEF Now
    <3> QED BY <3>1, <3>2 DEF InStep, Standing, Resized
  <2> QED BY <2>1 DEF GivenBack
<1>2. Apart /\ ScaleInv /\ StandingInv /\ [ScaleNext]_scaleVars => StandingInv'
  BY ScaleSteps DEF Kept
<1>3. Apart => []Apart
  <2>1. Apart /\ [TRUE]_scaleVars => Apart'
    BY DEF Apart
  <2> QED BY <2>1, PTL
<1> QED BY <1>1, <1>2, <1>3, ScaleInitHolds, ScaleInvariance, PTL DEF ScaleSpec
====
