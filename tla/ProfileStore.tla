------------------------------ MODULE ProfileStore ------------------------------
(***************************************************************************)
(* The list of games as it is stored, read and edited                      *)
(* (plugins/upscale/application.cpp, legacysettings.cpp, settings.cpp,     *)
(* applicationeditor.cpp with its details, window and method controls).    *)
(*                                                                         *)
(* An entry is a group of KConfig: the installed package states keys, the  *)
(* user's file states keys over them or hides the package's.  A layer is a *)
(* function from the keys it states; the user's group also has the keys it *)
(* hides.  The page edits a copy of what it read and stores what differs.  *)
(* A newer package may be installed while the page is open.                *)
(***************************************************************************)
EXTENDS Eligibility, SequencesExt

CONSTANTS
    EntryNames, \* identifiers of entries, in their order
    NewIds,     \* those a person's additions take
    Packages,   \* what a package can state: functions from entries to layers
    UserFiles,  \* what the user's file can hold at first
    Picked,     \* programs a window can be picked of
    Answers,    \* methods and values a person chooses
    MaxEdits    \* bound: steps of the page, and packages installed

Unstated == "unstated"
Methods == {"Auto", "Off", "AdvertisedMode", "AdvertisedScale", "AdvertisedModeAndScale", "X11Resize"}
OverrideKeys == {"Resolution", "MinimumPixels"}
Windowless == {c \in Cells : ~IsWindowed(c)}
NoLayer == [k \in {} |-> ""]
NoGroup == [set |-> NoLayer, hidden |-> {}]

ASSUME StoreAssumption ==
    MaxEdits \in Nat /\ NewIds \subseteq ToSet(EntryNames) /\ \A a \in Answers : a.key \in Cells \cup OverrideKeys

VARIABLES
    package,   \* installed
    parsed,    \* the package as the page read it last
    user,      \* the user's file
    entries,   \* m_applications
    originals, \* m_original
    removed,   \* m_removed
    exported,  \* a file written by the page
    edits

storeVars == <<package, parsed, user, entries, originals, removed, exported, edits>>

(* KConfig *)
Layer(p, id) == IF id \in DOMAIN p THEN p[id] ELSE NoLayer
Group(u, id) == IF id \in DOMAIN u THEN u[id] ELSE NoGroup
Stored(p, u, id) ==
    LET below == [k \in DOMAIN Layer(p, id) \ Group(u, id).hidden |-> Layer(p, id)[k]]
    IN  Group(u, id).set @@ below
Put(g, values) == [set |-> values @@ g.set, hidden |-> g.hidden \ DOMAIN values]
Without(g, keys) == [k \in DOMAIN g.set \ keys |-> g.set[k]]
RevertToDefault(g, keys) == [set |-> Without(g, keys), hidden |-> g.hidden \ keys]
DeleteEntry(g, below, keys) ==
    [set |-> Without(g, keys), hidden |-> g.hidden \cup (keys \cap DOMAIN below)]
Entry(layer, key, absent) == IF key \in DOMAIN layer THEN layer[key] ELSE absent

(* Reading an entry. *)
MethodFromKey(name, absent) ==
    IF name = "" THEN absent ELSE IF name \in Methods THEN name ELSE "Off"

\* A previous release stored one method, measured in one cell.
ReadMethod(layer, cell) ==
    LET old == Entry(layer, "Method", "")
        single == MethodFromKey(old, "Auto")
        migrated == IF single = "X11Resize" THEN "X11FullScreen" ELSE "WaylandFullScreen"
        before == IF old # "" /\ (single = "Off" \/ (single # "Auto" /\ cell = migrated))
                  THEN single ELSE Unstated
        stated == Entry(layer, cell, "")
        now == IF stated = "" THEN before
               ELSE MethodFromKey(stated, IF before = Unstated THEN "Auto" ELSE before)
    IN  IF now # Unstated /\ ~MethodApplies(cell, now) THEN "Off" ELSE now
ReadMethods(layer) == [c \in Cells |-> ReadMethod(layer, c)]

ReadOverride(layer, key) ==
    IF key = "Resolution" /\ "Resolution" \notin DOMAIN layer
    THEN IF Entry(layer, "Preset", "Automatic") = "Automatic" THEN Unstated
         ELSE IF layer["Preset"] \in Presets THEN layer["Preset"] ELSE "Native"
    ELSE IF key = "MinimumPixels" /\ Entry(layer, key, Unstated) = "-1" THEN Unstated
    ELSE Entry(layer, key, Unstated)

\* A Program of a previous release counts alone, unless the entry names a
\* window and advertises nothing.
LegacyProgram(layer, methods) ==
    LET window == Entry(layer, "WindowClass", "") # ""
    IN  /\ "Executable" \notin DOMAIN layer /\ Entry(layer, "Program", "") # ""
        /\ ~window \/ IsAdvertisement(methods[AdvertisedCell])

ReadApplication(p, u, id) ==
    LET layer == Stored(p, u, id)
        methods == ReadMethods(layer)
        legacy == LegacyProgram(layer, methods)
    IN  [id |-> id, methods |-> methods, measured |-> ReadMethods(Layer(p, id)),
         executable |-> IF legacy THEN layer["Program"] ELSE Entry(layer, "Executable", ""),
         windowClass |-> IF legacy THEN "" ELSE Entry(layer, "WindowClass", ""),
         overrides |-> [k \in OverrideKeys |-> ReadOverride(layer, k)],
         enabled |-> Entry(layer, "Enabled", "true"), order |-> Entry(layer, "Order", 0),
         shipped |-> DOMAIN Layer(p, id) # {}]

\* Where an identifier comes among those of the same order.
Rank(id) == CHOOSE i \in DOMAIN EntryNames : EntryNames[i] = id
Before(a, b) == a.order < b.order \/ (a.order = b.order /\ Rank(a.id) <= Rank(b.id))
IdentityProblem(app) == app.executable = "" /\ app.windowClass = ""
ReadApplications(p, u) ==
    LET all == {ReadApplication(p, u, id) : id \in DOMAIN p \cup DOMAIN u}
    IN  SetToSortSeq({app \in all : ~IdentityProblem(app)}, Before)

Blank == [id |-> "", methods |-> [c \in Cells |-> Unstated], measured |-> [c \in Cells |-> Unstated],
          executable |-> "", windowClass |-> "", overrides |-> [k \in OverrideKeys |-> Unstated],
          enabled |-> "true", order |-> 0, shipped |-> FALSE]

(* Storing an entry: what differs from what it was read as. *)
RetireLegacyKeys(g, below, app) ==
    LET has(k) == k \in DOMAIN (g.set @@ below) /\ k \notin DOMAIN below
        methods == IF ~has("Method") THEN g
                   ELSE DeleteEntry(Put(g, [c \in {d \in Cells : app.methods[d] # Unstated} |-> app.methods[c]]),
                                    below, {"Method"})
        resolution == app.overrides["Resolution"]
        preset == IF ~has("Preset") THEN methods
                  ELSE DeleteEntry(IF resolution = Unstated THEN methods
                                   ELSE Put(methods, [k \in {"Resolution"} |-> resolution]), below, {"Preset"})
        named == IF app.executable # "" /\ "Executable" \notin DOMAIN (g.set @@ below)
                 THEN Put(preset, [k \in {"Executable"} |-> app.executable]) ELSE preset
        alone == IF app.windowClass # "" \/ "WindowClass" \notin DOMAIN (g.set @@ below) THEN named
                 ELSE IF "WindowClass" \in DOMAIN below THEN Put(named, [k \in {"WindowClass"} |-> ""])
                 ELSE DeleteEntry(named, below, {"WindowClass"})
    IN  IF has("Program") THEN DeleteEntry(alone, below, {"Program"}) ELSE preset

\* Seeded fault: what is no longer stated is deleted, which hides what the
\* package says of it.
DropHidden(g, below, keys) == DeleteEntry(g, below, keys)

\* A key that is no longer stated goes back to what the package says.
Drop(g, below, keys) ==
    DeleteEntry(RevertToDefault(g, keys \cap DOMAIN below), below, keys \ DOMAIN below)

WriteApplication(g, below, app, original) ==
    LET fields == [Executable |-> app.executable, WindowClass |-> app.windowClass]
        was == [Executable |-> original.executable, WindowClass |-> original.windowClass]
        named == Put(g, [k \in {f \in DOMAIN fields : fields[f] # was[f]} |-> fields[k]])
        changed == {c \in Windowless : app.methods[c] # original.methods[c]}
        own == {c \in changed : app.methods[c] \notin {Unstated, app.measured[c]}}
        slots == Drop(Put(named, [c \in own |-> app.methods[c]]), below, changed \ own)
        retired == RetireLegacyKeys(slots, below, app)
        differ == {k \in OverrideKeys : app.overrides[k] # original.overrides[k]}
        stated == {k \in differ : app.overrides[k] # Unstated}
        asked == Drop(Put(retired, [k \in stated |-> app.overrides[k]]), below, differ \ stated)
        taking == IF app.enabled = original.enabled THEN asked
                  ELSE Put(asked, [k \in {"Enabled"} |-> app.enabled])
    IN  IF app.order = original.order THEN taking ELSE Put(taking, [k \in {"Order"} |-> app.order])

\* An entry the package ships can only be switched off.
DeleteApplication(p, u, id) ==
    IF DOMAIN Layer(p, id) # {} THEN (id :> Put(Group(u, id), [k \in {"Enabled"} |-> "false"])) @@ u
    ELSE [other \in DOMAIN u \ {id} |-> u[other]]
Removed == FoldSet(LAMBDA id, u : DeleteApplication(parsed, u, id), user, removed)

(* The page. *)
StoreInit ==
    /\ package \in Packages /\ user \in UserFiles
    /\ parsed = package
    /\ entries = ReadApplications(package, user)
    /\ originals = entries
    /\ removed = {} /\ exported = <<>> /\ edits = 0

LoadPage ==
    /\ parsed' = package
    /\ entries' = ReadApplications(package, user')
    /\ originals' = entries'
    /\ removed' = {}

Edited == edits < MaxEdits /\ edits' = edits + 1
StoreRest == UNCHANGED <<package, parsed, user, exported>>
Kept == StoreRest /\ UNCHANGED <<originals, removed>>

\* A game's tabs: a choice, or the parent's answer.  Storing the controls
\* leaves a slot that follows at what the package measured.
StoredMethods(app, choice) ==
    [c \in Cells |->
        IF c # choice.key THEN IF app.methods[c] = Unstated THEN app.measured[c] ELSE app.methods[c]
        ELSE IF choice.to = Unstated THEN app.measured[c] ELSE choice.to]
Choose(i, choice) ==
    /\ Edited /\ Kept
    /\ choice.key \in Cells /\ choice.to # Unstated => MethodApplies(choice.key, choice.to)
    /\ entries' = [entries EXCEPT
           ![i].methods = StoredMethods(entries[i], choice),
           ![i].overrides = [k \in OverrideKeys |-> IF k = choice.key THEN choice.to ELSE @[k]]]

Toggle(i) ==
    /\ Edited /\ Kept
    /\ entries' = [entries EXCEPT ![i].enabled = IF @ = "true" THEN "false" ELSE "true"]

ClearOverrides(i) ==
    /\ Edited /\ Kept
    /\ entries' = [entries EXCEPT ![i].overrides = Blank.overrides, ![i].methods = entries[i].measured]

\* Add: an entry after everything listed, under a name neither the list nor
\* the page uses, and Add from Window: one that states the picked program.
NewId ==
    LET used == {app.id : app \in ToSet(ReadApplications(parsed, user)) \cup ToSet(entries)}
    IN  EntryNames[Min({i \in DOMAIN EntryNames : EntryNames[i] \in NewIds \ used})]
Added(app) ==
    /\ NewIds \ {e.id : e \in ToSet(ReadApplications(parsed, user)) \cup ToSet(entries)} # {}
    /\ entries' = Append(entries, [app EXCEPT !.id = NewId,
                           !.order = IF entries = <<>> THEN 100 ELSE Last(entries).order + 10])
    /\ originals' = Append(originals, Blank)
AddApplication == Edited /\ StoreRest /\ UNCHANGED removed /\ Added(Blank)
AddIdentified(program) ==
    Edited /\ StoreRest /\ UNCHANGED removed /\ Added([Blank EXCEPT !.executable = program])
SetExecutable(i, program) ==
    Edited /\ Kept /\ entries' = [entries EXCEPT ![i].executable = program]

\* Seeded fault: the entries change places, what they were read as does not.
MoveAlone(i, j) ==
    /\ Edited /\ Kept
    /\ entries' = [entries EXCEPT ![i] = [entries[j] EXCEPT !.order = entries[i].order],
                                  ![j] = [entries[i] EXCEPT !.order = entries[j].order]]

\* Two neighbours change places and keep the orders of the places; what ties
\* or runs backwards after them moves on.
Move(i, j) ==
    LET swapped == [entries EXCEPT ![i] = [entries[j] EXCEPT !.order = entries[i].order],
                                   ![j] = [entries[i] EXCEPT !.order = entries[j].order]]
        order[k \in DOMAIN entries] ==
            IF k = 1 THEN swapped[1].order ELSE Greater(swapped[k].order, order[k - 1] + 1)
    IN  /\ Edited /\ StoreRest /\ UNCHANGED removed
        /\ entries' = [k \in DOMAIN entries |-> [swapped[k] EXCEPT !.order = order[k]]]
        /\ originals' = [originals EXCEPT ![i] = originals[j], ![j] = originals[i]]

DeleteSelected(i) ==
    /\ Edited /\ StoreRest
    /\ ~entries[i].shipped
    /\ removed' = removed \cup {entries[i].id}
    /\ entries' = RemoveAt(entries, i) /\ originals' = RemoveAt(originals, i)

\* An entry that would match every window keeps the page from saving.
SavePage ==
    /\ \A i \in DOMAIN entries : ~IdentityProblem(entries[i])
    /\ Edited /\ UNCHANGED <<package, exported>>
    /\ LET left == Removed
           written == [i \in DOMAIN entries |->
                          WriteApplication(Group(left, entries[i].id), Layer(parsed, entries[i].id),
                                           entries[i], originals[i])]
       IN  user' = [id \in {entries[i].id : i \in {j \in DOMAIN entries : written[j] # NoGroup}} |->
                       written[CHOOSE i \in DOMAIN entries : entries[i].id = id]]
                   @@ [id \in DOMAIN left \ {entries[i].id : i \in DOMAIN entries} |-> left[id]]
    /\ LoadPage

\* A file that stands on its own, and one read back over the page.
Export ==
    /\ Edited /\ UNCHANGED <<package, parsed, user, entries, originals, removed>>
    /\ exported' = [i \in DOMAIN entries |->
           [id |-> entries[i].id,
            group |-> WriteApplication(NoGroup, NoLayer, [entries[i] EXCEPT !.measured = Blank.measured,
                                                                            !.shipped = FALSE], Blank)]]
Import ==
    LET ids == {exported[i].id : i \in DOMAIN exported}
        read == ReadApplications(NoLayer, [id \in ids |->
                    exported[CHOOSE i \in DOMAIN exported : exported[i].id = id].group])
        imported(id) == CHOOSE app \in ToSet(read) : app.id = id
        pairs == [i \in DOMAIN entries |->
                     [app |-> IF \E a \in ToSet(read) : a.id = entries[i].id
                              THEN [imported(entries[i].id) EXCEPT !.shipped = entries[i].shipped]
                              ELSE entries[i],
                      original |-> originals[i]]]
                 \o [i \in DOMAIN SelectSeq(read, LAMBDA a : \A e \in ToSet(entries) : e.id # a.id) |->
                        [app |-> SelectSeq(read, LAMBDA a : \A e \in ToSet(entries) : e.id # a.id)[i],
                         original |-> Blank]]
        sorted == SortSeq(pairs, LAMBDA a, b : Before(a.app, b.app))
    IN  /\ exported # <<>>
        /\ Edited /\ StoreRest /\ UNCHANGED removed
        /\ entries' = [i \in DOMAIN sorted |-> sorted[i].app]
        /\ originals' = [i \in DOMAIN sorted |-> sorted[i].original]

\* Restore: every key goes back to the package's, what has none goes.
RestoreList ==
    /\ Edited /\ UNCHANGED <<package, exported>>
    /\ LET left(id) == [set |-> NoLayer, hidden |-> Group(user, id).hidden]
       IN  user' = [id \in {i \in DOMAIN user : left(i) # NoGroup} |-> left(id)]
    /\ LoadPage

\* Reset: the page reads the list again.
Reset == Edited /\ user' = user /\ UNCHANGED <<package, exported>> /\ LoadPage

Install(p) ==
    /\ Edited /\ p # package /\ package' = p
    /\ UNCHANGED <<parsed, user, entries, originals, removed, exported>>

StoreNext ==
    \/ \E i \in DOMAIN entries :
          \/ \E choice \in Answers : Choose(i, choice)
          \/ \E program \in Picked : SetExecutable(i, program)
          \/ Toggle(i) \/ ClearOverrides(i) \/ DeleteSelected(i)
          \/ \E j \in DOMAIN entries : (j = i + 1) /\ Move(i, j)
    \/ AddApplication \/ \E program \in Picked : AddIdentified(program)
    \/ SavePage \/ Export \/ Import \/ RestoreList \/ Reset
    \/ \E p \in Packages : Install(p)

\* What is saved is what is read: after a save every entry of the page reads as
\* it was edited, and whatever was not edited reads as the user's file and the
\* installed package say, a package installed meanwhile included.  A slot the
\* page leaves unstated is the package's to state.
SavedIsRead ==
    [][SavePage =>
        \A i \in DOMAIN entries :
            LET app == entries[i]
                was == originals[i]
                current == ReadApplication(package, Removed, app.id)
                now == ReadApplication(package', user', app.id)
            IN  /\ now.executable = IF app.executable # was.executable THEN app.executable
                                    ELSE current.executable
                /\ now.enabled = IF app.enabled # was.enabled THEN app.enabled ELSE current.enabled
                /\ now.order = IF app.order # was.order THEN app.order ELSE current.order
                /\ \A c \in Windowless :
                       now.methods[c] =
                           IF app.methods[c] = was.methods[c] THEN current.methods[c]
                           ELSE IF app.methods[c] \in {Unstated, app.measured[c]} THEN now.measured[c]
                           ELSE app.methods[c]
                /\ \A k \in OverrideKeys :
                       now.overrides[k] =
                           IF app.overrides[k] = was.overrides[k] THEN current.overrides[k]
                           ELSE IF app.overrides[k] = Unstated
                           THEN ReadOverride(Layer(package, app.id), k)
                           ELSE app.overrides[k]]_storeVars
================================================================================
