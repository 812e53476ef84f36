----------------------------- MODULE SettingsPage -----------------------------
(***************************************************************************)
(* The global settings ("All games"): the page that shows and stores them  *)
(* (upscale_config.cpp, displaycontrols.cpp), the file with the keys of    *)
(* this release and of the previous one (legacysettings.cpp), and the copy *)
(* the effect keeps of them (settings.cpp), which it takes when it is told *)
(* to reconfigure.                                                         *)
(*                                                                         *)
(* The page keeps three copies of its own: what its controls show, what    *)
(* the generated settings class holds and what that class read last, from  *)
(* which it tells what there is to write.  A value that is its default is  *)
(* written as no entry at all, which is what lets an old key speak again.  *)
(*                                                                         *)
(* One key stands for the settings that are only copied, one method for    *)
(* the four.  The list of games is stored by the same page (ProfileStore). *)
(***************************************************************************)
EXTENDS Sizes, Functions

CONSTANTS
    Files,          \* what the file may state at first: functions on some of Keys
    LargestScreen,  \* the size of the largest screen
    KnownSizes,     \* the resolutions the scale snaps to
    Dragged,        \* where the scale's slider is dragged to, and what is typed
    Limits,         \* the thresholds offered for the screens connected
    NoNumber,       \* a text in the threshold's field that says no number
    MaxTurns        \* bound: what the user does with the page

Corners == 0..3
Displays3 == 1..3
CornerKeys == <<"OsdAnnouncementPosition", "OsdStatisticsPosition", "OsdDeveloperPosition">>
LegacyKeys == {"Preset", "UnknownApplications", "OsdPosition"}
\* The previous release's switch for everything, which no key of this one replaces.
OldSwitch == "Enabled"
Default ==
    [UnlistedApplications |-> FALSE, Resolution |-> 2, Percentage |-> 6667, MinimumPixels |-> 2073600,
     Method |-> "Auto", Rest |-> 0, OsdAnnouncementPosition |-> 0, OsdStatisticsPosition |-> 1,
     OsdDeveloperPosition |-> 3]
CurrentKeys == DOMAIN Default
PresetNames == <<"Native", "UltraQuality", "Quality", "Balanced", "Performance", "Custom">>
CustomPreset == 5

\* A file is read within the bounds of each key (upscaleconfig.kcfg, upscaleCorner()).
CornersStated(f) ==
    \A k \in DOMAIN f \cap ({"OsdPosition"} \cup {CornerKeys[d] : d \in Displays3}) : f[k] \in Corners
ASSUME PageAssumption ==
    /\ \A f \in Files : /\ DOMAIN f \subseteq CurrentKeys \cup LegacyKeys \cup {OldSwitch}
                        /\ CornersStated(f)
                        /\ "MinimumPixels" \in DOMAIN f => f["MinimumPixels"] # NoNumber
    /\ NoNumber \notin Limits \cup {0, Default["MinimumPixels"]}

VARIABLES
    file,       \* the group of kwinrc
    config,     \* UpscaleConfig's values
    loaded,     \* what UpscaleConfig read or wrote last
    page,       \* what the controls show
    unsaved,    \* whether Apply is offered
    applying,   \* calls of reconfigureEffect() on their way
    kept,       \* the effect's copy: the global settings and the old switch
    plugging,   \* whether screens come and go while the page is open
    turns

pageVars == <<file, config, loaded, page, unsaved, applying, kept, plugging, turns>>

(***************************************************************************)
(* placement.cpp: no two displays share a corner.                          *)
(***************************************************************************)

NextCorner(c) == (c + 1) % 4
FreeCornerAfter(corners, moving, from) ==
    LET taken == {corners[d] : d \in Displays3 \ {moving}}
        ahead == {n \in 1..4 : (from + n) % 4 \notin taken}
    IN  (from + Min(ahead)) % 4
TakeCorner(corners, moved, corner) ==
    LET placed == [corners EXCEPT ![moved] = corner]
        Step(c, d) == IF d # moved /\ c[d] = corner
                      THEN [c EXCEPT ![d] = FreeCornerAfter(c, d, corner)] ELSE c
    IN  Step(Step(Step(placed, 1), 2), 3)
SeparateCorners(corners) ==
    LET Step(c, d) == IF \E e \in 1..(d - 1) : c[e] = c[d]
                      THEN [c EXCEPT ![d] = FreeCornerAfter(c, d, c[d])] ELSE c
    IN  Step(Step(corners, 2), 3)

(***************************************************************************)
(* legacysettings.cpp: what the previous release's keys still say.         *)
(***************************************************************************)

Has(f, k) == k \in DOMAIN f
\* Zero was Automatic, which is now said by storing nothing.
LegacyResolution(f, otherwise) ==
    IF Has(f, "Resolution") \/ ~Has(f, "Preset") \/ (Has(f, "Preset") /\ f["Preset"] <= 0) THEN otherwise
    ELSE Lesser(f["Preset"] - 1, CustomPreset)
LegacyUnlisted(f) ==
    ~Has(f, "UnlistedApplications") /\ Has(f, "UnknownApplications") /\ f["UnknownApplications"]
LegacyCorners(f, current) ==
    IF ~Has(f, "OsdPosition") \/ Has(f, CornerKeys[2]) THEN current
    ELSE TakeCorner(current, 2, f["OsdPosition"])
\* Only a stored off counts.
SwitchedOff(f) == Has(f, OldSwitch) /\ ~f[OldSwitch]
\* Seeded fault: the old switch goes with the old keys.
ForgetAll(f) == Restrict(f, DOMAIN f \ (LegacyKeys \cup {OldSwitch}))
\* Seeded fault: the old corner is left in the file.
ForgetMost(f) == Restrict(f, DOMAIN f \ (LegacyKeys \ {"OsdPosition"}))
ForgetLegacy(f) == Restrict(f, DOMAIN f \ LegacyKeys)

(***************************************************************************)
(* settings.cpp: the global layer as its keys state it, and as the effect  *)
(* reads it from the file.                                                 *)
(***************************************************************************)

ReadConfig(f) == [k \in CurrentKeys |-> IF Has(f, k) THEN f[k] ELSE Default[k]]
StoredCorners(c) == [d \in Displays3 |-> c[CornerKeys[d]]]
\* The old answer for unlisted programs was the advertised mode.
GlobalMethod(f) ==
    IF ~Has(f, "Method") /\ LegacyUnlisted(f) THEN "AdvertisedMode" ELSE ReadConfig(f)["Method"]
\* The effect separates the corners where it shows the displays (display.cpp).
Translated(f) ==
    LET c == ReadConfig(f)
    IN  [all |-> c["UnlistedApplications"] \/ LegacyUnlisted(f),
         preset |-> LegacyResolution(f, c["Resolution"]),
         scale |-> c["Percentage"], limit |-> c["MinimumPixels"],
         corners |-> SeparateCorners(LegacyCorners(f, StoredCorners(c))),
         method |-> GlobalMethod(f), rest |-> c["Rest"]]
\* Nothing is upscaled while the old switch is off.
GlobalSettings(f) == [Translated(f) EXCEPT !.all = @ /\ ~SwitchedOff(f)]
KeptGlobal(f) == [settings |-> GlobalSettings(f), switchedOff |-> SwitchedOff(f)]

(***************************************************************************)
(* The controls.                                                           *)
(***************************************************************************)

PresetScale(preset) ==
    LET share == ResolutionRatio(PresetNames[preset + 1], 0)
    IN  RoundedShare(10000, share[1], share[2])
\* updatePreview(): the scale follows the preset.
Followed(p) == IF p.preset = CustomPreset THEN p ELSE [p EXCEPT !.scale = PresetScale(p.preset)]
\* upscaleResolutionPixels(): what the threshold's field says.
ShownLimit(p, c) == IF p.limit = NoNumber THEN c["MinimumPixels"] ELSE p.limit
ShownOnPage(p, c) == [p EXCEPT !.limit = ShownLimit(p, c)]

SnapPoints == SnapScales(LargestScreen, KnownSizes)
\* UpscaleSliderField::snap(): a whole percent, or a resolution nearer to it.
SnappedScale(wanted) ==
    LET near == {s \in SnapPoints : Magnitude(s - wanted) < 100}
        closest == CHOOSE s \in near : \A t \in near : Magnitude(s - wanted) < Magnitude(t - wanted)
                       \/ (Magnitude(s - wanted) = Magnitude(t - wanted) /\ s <= t)
        landed == IF near = {} THEN RoundedShare(wanted, 1, 100) * 100 ELSE closest
    IN  Greater(5000, Lesser(landed, 10000))

\* showSettings(): the old keys are read too, unless Defaults shows the
\* defaults.  The methods are read from the file either way.
ShowSettings(f, c, legacy) ==
    Followed([all |-> c["UnlistedApplications"] \/ (legacy /\ LegacyUnlisted(f)),
              preset |-> IF legacy THEN LegacyResolution(f, c["Resolution"]) ELSE c["Resolution"],
              scale |-> c["Percentage"], limit |-> c["MinimumPixels"],
              corners |-> SeparateCorners(IF legacy THEN LegacyCorners(f, StoredCorners(c))
                                          ELSE StoredCorners(c)),
              method |-> GlobalMethod(f), rest |-> c["Rest"]])

Edit(p) ==
    /\ turns < MaxTurns /\ turns' = turns + 1
    /\ page' = Followed(p) /\ unsaved' = TRUE
    /\ UNCHANGED <<file, config, loaded, applying, kept, plugging>>
CheckAll == Edit([page EXCEPT !.all = ~@])
ChoosePreset == \E preset \in {0, 2, 4, CustomPreset} : preset # page.preset /\ Edit([page EXCEPT !.preset = preset])
\* A scale of one's own is a resolution of one's own.
SetScale(s) == s # page.scale /\ Edit([page EXCEPT !.scale = s, !.preset = CustomPreset])
DragScale == \E s \in Dragged : SetScale(SnappedScale(s))
TypeScale == \E s \in Dragged : SetScale(s)
ChooseLimit == \E l \in Limits \cup (IF plugging THEN {} ELSE {NoNumber}) : l # page.limit /\ Edit([page EXCEPT !.limit = l])
ChooseMethod == \E method \in {"Auto", "AdvertisedMode", "Off"} :
    method # page.method /\ Edit([page EXCEPT !.method = method])
ChooseRest == Edit([page EXCEPT !.rest = 1 - @])
ChooseCorner == \E d \in Displays3, c \in Corners :
    c # page.corners[d] /\ Edit([page EXCEPT !.corners = TakeCorner(@, d, c)])
\* A screen comes or goes and the offered thresholds are filled in again, with
\* the one selected before; a text that says no number is "Any screen" then,
\* which is no edit, so such a text is typed here only while no screen moves.
ScreensChange ==
    /\ plugging
    /\ page' = [page EXCEPT !.limit = IF @ = NoNumber THEN 0 ELSE @]
    /\ UNCHANGED <<file, config, loaded, unsaved, applying, kept, plugging, turns>>

(***************************************************************************)
(* Reset, Defaults and Apply.                                              *)
(***************************************************************************)

Load ==
    /\ turns < MaxTurns /\ turns' = turns + 1
    /\ config' = ReadConfig(file) /\ loaded' = config'
    /\ page' = ShowSettings(file, config', TRUE) /\ unsaved' = FALSE
    /\ UNCHANGED <<file, applying, kept, plugging>>

Defaults ==
    /\ turns < MaxTurns /\ turns' = turns + 1
    /\ config' = Default
    /\ page' = ShowSettings(file, Default, FALSE) /\ unsaved' = TRUE
    /\ UNCHANGED <<file, loaded, applying, kept, plugging>>

\* applySettings(): the controls' values are handed to the settings class.
Handed(p, c) ==
    [UnlistedApplications |-> p.all, Resolution |-> p.preset, Percentage |-> p.scale,
     MinimumPixels |-> ShownLimit(p, c), Method |-> p.method, Rest |-> p.rest,
     OsdAnnouncementPosition |-> p.corners[1], OsdStatisticsPosition |-> p.corners[2],
     OsdDeveloperPosition |-> p.corners[3]]
\* KConfigSkeleton::save(): what differs from what was read, a default as no
\* entry.
Written(f, c, before) ==
    LET changed == {k \in CurrentKeys : c[k] # before[k]}
        stated == (DOMAIN f \ changed) \cup {k \in changed : c[k] # Default[k]}
    IN  [k \in stated |-> IF k \in changed THEN c[k] ELSE f[k]]

\* The list may refuse to be stored; the settings are applied either way.
Apply ==
    /\ unsaved /\ turns < MaxTurns /\ turns' = turns + 1
    /\ LET handed == Handed(page, config)
       IN  /\ file' = ForgetLegacy(Written(file, handed, loaded))
           /\ config' = handed /\ loaded' = handed
    /\ unsaved' \in BOOLEAN
    /\ applying' = applying + 1
    /\ UNCHANGED <<page, kept, plugging>>

\* The call arrives: UpscaleEffect::reconfigure() reads the file and keeps it.
ReconfigureEffect ==
    /\ applying > 0 /\ applying' = applying - 1
    /\ kept' = KeptGlobal(file)
    /\ UNCHANGED <<file, config, loaded, page, unsaved, plugging, turns>>

PageInit ==
    /\ file \in Files
    /\ config = ReadConfig(file) /\ loaded = ReadConfig(file)
    /\ page = ShowSettings(file, ReadConfig(file), TRUE)
    /\ unsaved = FALSE /\ applying = 0 /\ turns = 0 /\ plugging \in BOOLEAN
    /\ kept = KeptGlobal(file)

PageNext ==
    \/ CheckAll \/ ChoosePreset \/ DragScale \/ TypeScale \/ ChooseLimit
    \/ ChooseMethod \/ ChooseRest \/ ChooseCorner \/ ScreensChange
    \/ Load \/ Defaults \/ Apply \/ ReconfigureEffect

PageSpec == PageInit /\ [][PageNext]_pageVars

(***************************************************************************)
(* Properties.                                                             *)
(***************************************************************************)

\* While there is nothing to apply, the page shows what the effect does, once
\* the effect has been told: whatever was edited, reset, set to defaults and
\* applied before, and whatever the previous release left in the file, an old
\* key never speaks again after Apply, and no two displays share a corner.  The
\* scale is compared as what it asks for: a preset's own, or the stored one.
\* The one difference is the old switch, which the page does not show: where it
\* is off the effect does nothing for unlisted programs, whatever is shown, and
\* nothing done with the page drops it or sets it.
\* (upscale_config.cpp:349-399, 434-439, legacysettings.h:82-84)
PageTellsTheEffect ==
    /\ IsInjective(page.corners)
    /\ kept.switchedOff = SwitchedOff(file)
    /\ ~unsaved /\ applying = 0 =>
        [ShownOnPage(page, config) EXCEPT !.all = @ /\ ~kept.switchedOff] = Followed(kept.settings)

\* Until the page replaces the old keys, on Apply, "both the effect and the page
\* see the same translated value".  (legacysettings.h:22-27; violated)
PageSeesTheSame ==
    ~unsaved /\ applying = 0 => ShownOnPage(page, config) = Followed(kept.settings)

=============================================================================
