------------------------------ MODULE PartsProofs -----------------------------
(***************************************************************************)
(* Proofs about parts that share no state, one after the other, for every  *)
(* value of their constants:                                               *)
(*                                                                         *)
(*   HeldMaps      nothing shows of a mapping that was held back;          *)
(*   DisplayLists  what a client was shown of its screen stays true;       *)
(*   EffectFrames  an output the effect leaves alone shows what it would;  *)
(*   GameIndex     an index taken for current names the games there are;   *)
(*   Recognition   a window is claimed by the first entry that matches it; *)
(*   PictureInput  what a pen began for a game ends for it;                *)
(*   SettingsPage  the page shows what the effect does.                    *)
(*                                                                         *)
(* Each has an inductive invariant of its own, proved action by action.    *)
(***************************************************************************)
EXTENDS HeldMaps, DisplayLists, EffectFrames, GameIndex, Recognition, PictureInput, SettingsPage, SequenceTheorems, WellFoundedInduction, TLAPS

-----------------------------------------------------------------------------
(* Numbers have a least one with a property: what follows a sequence event *)
(* by event is proved by its first failure.                                *)

Below == {ss \in Nat \X Nat : ss[1] < ss[2]}

LEMMA LeastNumber ==
    ASSUME NEW T \in SUBSET Nat, T # {}
    PROVE  \E least \in T : \A n \in T : least <= n
<1>1. IsWellFoundedOn(Below, Nat)
  BY NatLessThanWellFounded, Zenon DEF OpToRel, Below
<1>2. \E least \in T : \A n \in T : <<n, least>> \notin Below
  BY <1>1, WFMin
<1>3. PICK least \in T : \A n \in T : <<n, least>> \notin Below
  BY <1>2
<1>4. ASSUME NEW n \in T
      PROVE  least <= n
  <2>1. n \in Nat /\ least \in Nat /\ (n < least => <<n, least>> \in Below)
    BY DEF Below
  <2> QED BY <1>3, <2>1
<1> QED BY <1>4

-----------------------------------------------------------------------------
(* What KWin makes of the events of a window.                              *)

ManagedWindows == [shown : BOOLEAN, full : BOOLEAN, told : Nat]

\* What becomes of a window, event by event.
Trail(at, from, events) ==
    /\ at \in [0..Len(events) -> ManagedWindows]
    /\ at[0] = from
    /\ \A i \in 1..Len(events) : at[i] = Handled(at[i - 1], events[i])

LEMMA HandledType ==
    ASSUME NEW window \in ManagedWindows, NEW event \in Requests
    PROVE  Handled(window, event) \in ManagedWindows
<1>1. Unmanaged \in ManagedWindows
  BY DEF Unmanaged, ManagedWindows
<1>2. \A full \in BOOLEAN : [shown |-> TRUE, full |-> full, told |-> 0] \in ManagedWindows
  BY DEF ManagedWindows
<1>3. [window EXCEPT !.full = TRUE] \in ManagedWindows
  BY DEF ManagedWindows
<1>4. [window EXCEPT !.told = @ + 1] \in ManagedWindows
  BY DEF ManagedWindows
<1> HIDE DEF ManagedWindows
<1>5. CASE event \in {"unmap", "destroy"}
  BY <1>1, <1>5 DEF Handled
<1>6. CASE event \in {"map", "mapFull"}
  BY <1>2, <1>6 DEF Handled
<1>7. CASE event = "full"
  BY <1>3, <1>7 DEF Handled
<1>8. CASE event = "other"
  BY <1>4, <1>8 DEF Handled
<1> QED BY <1>5, <1>6, <1>7, <1>8 DEF Requests

LEMMA TrailAppend ==
    ASSUME NEW events \in Seq(Requests), NEW event \in Requests, NEW from, NEW at,
           Trail(at, from, events)
    PROVE  \E longer : /\ Trail(longer, from, Append(events, event))
                       /\ longer[Len(events) + 1] = Handled(at[Len(events)], event)
<1> DEFINE count == Len(events)
           more == Append(events, event)
           longer == [i \in 0..(count + 1) |-> IF i = count + 1 THEN Handled(at[count], event)
                                               ELSE at[i]]
<1>1. /\ count \in Nat /\ Len(more) = count + 1 /\ more[count + 1] = event
      /\ \A i \in 1..count : more[i] = events[i]
  OBVIOUS
<1> HIDE DEF count, more
<1>2. /\ at \in [0..count -> ManagedWindows] /\ at[0] = from
      /\ \A i \in 1..count : at[i] = Handled(at[i - 1], events[i])
  BY DEF Trail, count
<1>3. Handled(at[count], event) \in ManagedWindows
  <2>1. count \in 0..count
    BY <1>1
  <2> QED BY <1>2, <2>1, HandledType
<1>4. /\ longer \in [0..(count + 1) -> ManagedWindows]
      /\ \A i \in 0..count : longer[i] = at[i]
      /\ longer[count + 1] = Handled(at[count], event)
  BY <1>1, <1>2, <1>3
<1> HIDE DEF longer
<1>5. ASSUME NEW i \in 1..(count + 1)
      PROVE  longer[i] = Handled(longer[i - 1], more[i])
  <2>1. CASE i = count + 1
    <3>1. i - 1 = count /\ count \in 0..count
      BY <1>1, <2>1
    <3> QED BY <1>1, <1>4, <2>1, <3>1
  <2>2. CASE i # count + 1
    <3>1. i \in 1..count /\ i \in 0..count /\ i - 1 \in 0..count
      BY <1>1, <2>2
    <3> QED BY <1>1, <1>2, <1>4, <3>1
  <2> QED BY <2>1, <2>2
<1>6. longer[0] = from
  <2>1. 0 \in 0..count
    BY <1>1
  <2> QED BY <1>2, <1>4, <2>1
<1>7. Trail(longer, from, more)
  BY <1>1, <1>4, <1>5, <1>6 DEF Trail
<1> QED BY <1>4, <1>7 DEF count, more

LEMMA TrailExists ==
    ASSUME NEW from \in ManagedWindows
    PROVE  \A events \in Seq(Requests) : \E at : Trail(at, from, events)
<1> DEFINE Pathless == {n \in Nat : \E events \in Seq(Requests) :
                                        Len(events) = n /\ ~\E at : Trail(at, from, events)}
<1>1. ASSUME Pathless # {}
      PROVE  FALSE
  <2>1. PICK n \in Pathless : \A m \in Pathless : n <= m
    <3>1. Pathless \in SUBSET Nat
      OBVIOUS
    <3> HIDE DEF Pathless
    <3> QED BY <1>1, <3>1, LeastNumber
  <2>2. PICK events \in Seq(Requests) : Len(events) = n /\ ~\E at : Trail(at, from, events)
    BY <2>1
  <2>3. n \in Nat
    BY <2>1
  <2>4. CASE n = 0
    <3> DEFINE at == [i \in 0..0 |-> from]
    <3>1. at \in [0..0 -> ManagedWindows] /\ at[0] = from /\ 1..0 = {}
      OBVIOUS
    <3>2. Trail(at, from, events)
      BY <2>2, <2>4, <3>1 DEF Trail
    <3> QED BY <2>2, <3>2
  <2>5. CASE n # 0
    <3> DEFINE shorter == SubSeq(events, 1, n - 1)
               last == events[n]
    <3>1. /\ shorter \in Seq(Requests) /\ Len(shorter) = n - 1
          /\ events = Append(shorter, last) /\ n - 1 \in Nat /\ ~(n <= n - 1)
      BY <2>2, <2>3, <2>5
    <3>2. n - 1 \notin Pathless
      BY <2>1, <3>1
    <3>3. PICK at : Trail(at, from, shorter)
      BY <3>1, <3>2
    <3> HIDE DEF shorter, last
    <3>4. \E longer : Trail(longer, from, Append(shorter, last))
      BY <3>1, <3>3, TrailAppend
    <3> QED BY <2>2, <3>1, <3>4
  <2> QED BY <2>4, <2>5
<1>2. ASSUME NEW events \in Seq(Requests)
      PROVE  \E at : Trail(at, from, events)
  <2>1. Len(events) \in Nat
    OBVIOUS
  <2> QED BY <1>1, <2>1
<1> QED BY <1>2

\* A trail ends where the events lead.
LEMMA TrailEnd ==
    ASSUME NEW from, NEW events \in Seq(Requests), NEW at, Trail(at, from, events)
    PROVE  Replayed(from, events) = at[Len(events)]
<1> DEFINE count == Len(events)
           Follows(g) == g = [i \in 0..count |-> IF i = 0 THEN from
                                                 ELSE Handled(g[i - 1], events[i])]
           after == CHOOSE g : Follows(g)
<1>1. count \in Nat
  OBVIOUS
<1>2. Replayed(from, events) = after[count]
  BY DEF Replayed
<1>3. Follows(at)
  <2>1. at = [i \in 0..count |-> at[i]]
    BY DEF Trail
  <2>2. \A i \in 0..count : at[i] = IF i = 0 THEN from ELSE Handled(at[i - 1], events[i])
    <3>1. \A i \in 0..count : i # 0 => i \in 1..count
      BY <1>1
    <3> QED BY <3>1 DEF Trail
  <2> HIDE DEF count
  <2> QED BY <2>1, <2>2
<1>4. Follows(after)
  <2> HIDE DEF Follows
  <2> QED BY <1>3
<1> HIDE DEF after, count
<1> DEFINE Astray == {i \in 0..count : after[i] # at[i]}
<1>5. ASSUME Astray # {}
      PROVE  FALSE
  <2>1. PICK i \in Astray : \A j \in Astray : i <= j
    <3>1. Astray \in SUBSET Nat
      BY <1>1
    <3> HIDE DEF Astray
    <3> QED BY <1>5, <3>1, LeastNumber
  <2>2. i \in 0..count /\ after[i] # at[i] /\ i \in Nat
    BY <1>1, <2>1
  <2>3. CASE i = 0
    BY <1>3, <1>4, <2>2, <2>3
  <2>4. CASE i # 0
    <3>1. i - 1 \in 0..count /\ ~(i <= i - 1)
      BY <1>1, <2>2, <2>4
    <3>2. after[i - 1] = at[i - 1]
      BY <2>1, <3>1
    <3> QED BY <1>3, <1>4, <2>2, <2>4, <3>2
  <2> QED BY <2>3, <2>4
<1>6. after[count] = at[count]
  BY <1>1, <1>5
<1> QED BY <1>2, <1>6 DEF count

LEMMA ReplayedType ==
    ASSUME NEW from \in ManagedWindows, NEW events \in Seq(Requests)
    PROVE  Replayed(from, events) \in ManagedWindows
<1>1. PICK at : Trail(at, from, events)
  BY TrailExists
<1>2. Len(events) \in 0..Len(events)
  OBVIOUS
<1> QED BY <1>1, <1>2, TrailEnd DEF Trail

LEMMA ReplayedNone ==
    ASSUME NEW from \in ManagedWindows
    PROVE  Replayed(from, <<>>) = from
<1>1. <<>> \in Seq(Requests) /\ Len(<<>>) = 0
  OBVIOUS
<1>2. PICK at : Trail(at, from, <<>>)
  BY <1>1, TrailExists
<1> QED BY <1>1, <1>2, TrailEnd DEF Trail

\* An event more at the end is handled after all others.
LEMMA ReplayedAppend ==
    ASSUME NEW from \in ManagedWindows, NEW events \in Seq(Requests), NEW event \in Requests
    PROVE  Replayed(from, Append(events, event)) = Handled(Replayed(from, events), event)
<1>1. PICK at : Trail(at, from, events)
  BY TrailExists
<1>2. PICK longer : /\ Trail(longer, from, Append(events, event))
                    /\ longer[Len(events) + 1] = Handled(at[Len(events)], event)
  BY <1>1, TrailAppend
<1>3. Append(events, event) \in Seq(Requests) /\ Len(Append(events, event)) = Len(events) + 1
  OBVIOUS
<1>4. Replayed(from, events) = at[Len(events)]
  BY <1>1, TrailEnd
<1>5. Replayed(from, Append(events, event)) = longer[Len(Append(events, event))]
  BY <1>2, <1>3, TrailEnd
<1> QED BY <1>2, <1>3, <1>4, <1>5

\* One event is that event.
LEMMA ReplayedOne ==
    ASSUME NEW from \in ManagedWindows, NEW event \in Requests
    PROVE  Replayed(from, <<event>>) = Handled(from, event)
<1>1. <<>> \in Seq(Requests) /\ Append(<<>>, event) = <<event>>
  OBVIOUS
<1> QED BY <1>1, ReplayedAppend, ReplayedNone

\* What the first event leaves is where the others begin.
LEMMA ReplayedFirst ==
    ASSUME NEW from \in ManagedWindows, NEW events \in Seq(Requests), events # <<>>
    PROVE  Replayed(from, events) = Replayed(Handled(from, Head(events)), Tail(events))
<1> DEFINE count == Len(events)
           rest == Tail(events)
<1>1. /\ count \in Nat /\ count # 0 /\ rest \in Seq(Requests) /\ Len(rest) = count - 1
      /\ events[1] = Head(events) /\ Head(events) \in Requests
      /\ \A i \in 1..(count - 1) : rest[i] = events[i + 1]
  OBVIOUS
<1>2. PICK at : Trail(at, from, events)
  BY TrailExists
<1>3. /\ at \in [0..count -> ManagedWindows] /\ at[0] = from
      /\ \A i \in 1..count : at[i] = Handled(at[i - 1], events[i])
  BY <1>2 DEF Trail
<1>4. Replayed(from, events) = at[count]
  BY <1>2, TrailEnd
<1> HIDE DEF count, rest
<1> DEFINE later == [i \in 0..(count - 1) |-> at[i + 1]]
<1>5. /\ later \in [0..(count - 1) -> ManagedWindows]
      /\ \A i \in 0..(count - 1) : later[i] = at[i + 1]
  BY <1>1, <1>3
<1> HIDE DEF later
<1>6. later[0] = Handled(from, Head(events))
  <2>1. 0 \in 0..(count - 1) /\ 1 \in 1..count /\ 0 + 1 = 1 /\ 1 - 1 = 0
    BY <1>1
  <2>2. at[1] = Handled(at[0], events[1])
    BY <1>3, <2>1
  <2> QED BY <1>1, <1>3, <1>5, <2>1, <2>2
<1>7. ASSUME NEW i \in 1..(count - 1)
      PROVE  later[i] = Handled(later[i - 1], rest[i])
  <2>1. /\ i \in 0..(count - 1) /\ i - 1 \in 0..(count - 1) /\ i + 1 \in 1..count
        /\ (i - 1) + 1 = i /\ (i + 1) - 1 = i
    BY <1>1
  <2>2. later[i] = at[i + 1] /\ later[i - 1] = at[i] /\ rest[i] = events[i + 1]
    BY <1>1, <1>5, <2>1
  <2>3. at[i + 1] = Handled(at[i], events[i + 1])
    BY <1>3, <2>1
  <2> QED BY <2>2, <2>3
<1>8. Trail(later, Handled(from, Head(events)), rest)
  BY <1>1, <1>5, <1>6, <1>7 DEF Trail
<1>9. Replayed(Handled(from, Head(events)), rest) = later[count - 1]
  BY <1>1, <1>8, TrailEnd
<1>10. later[count - 1] = at[count]
  BY <1>1, <1>5
<1> QED BY <1>4, <1>9, <1>10 DEF rest

-----------------------------------------------------------------------------
(* The invariant.  A window is ahead of what KWin made of it by the mapping *)
(* held and the messages behind it, and by the events that arrive.          *)

Holds == [map : {"none", "map"}, messages : Seq({"other"}), token : Nat]

\* What a window is once its hold is let go.
Outcome(window, hold) ==
    IF hold = NoHold THEN window ELSE Replayed(Handled(window, hold.map), hold.messages)

\* A hold is of a window KWin does not show and the hold will, under a timer.
KeptBack(w, window, hold, running) ==
    hold # NoHold => /\ hold.map = "map"
                     /\ ~window.shown /\ Outcome(window, hold).shown
                     /\ <<w, hold.token>> \in running

HeldInv ==
    /\ nextMap \in Nat
    /\ arriving \in [Ids -> Seq(Requests)]
    /\ managed \in [Ids -> ManagedWindows]
    /\ pendingMaps \in [Ids -> Holds]
    /\ timers \subseteq Ids \X (1..nextMap)
    /\ \A w \in Ids : KeptBack(w, managed[w], pendingMaps[w], timers)
    /\ \A w \in Ids : meant[w] = Replayed(Outcome(managed[w], pendingMaps[w]), arriving[w])
    /\ meant \in [Ids -> ManagedWindows]

LEMMA OutcomeType ==
    ASSUME NEW window \in ManagedWindows, NEW hold \in Holds, hold # NoHold => hold.map = "map"
    PROVE  Outcome(window, hold) \in ManagedWindows
<1>1. CASE hold = NoHold
  BY <1>1 DEF Outcome
<1>2. CASE hold # NoHold
  <2>1. Handled(window, "map") \in ManagedWindows
    BY HandledType DEF Requests
  <2>2. hold.messages \in Seq(Requests)
    BY DEF Holds, Requests
  <2> QED BY <1>2, <2>1, <2>2, ReplayedType DEF Outcome
<1> QED BY <1>1, <1>2

\* Another message behind the mapping is handled after all before it.
LEMMA OneMessageMore ==
    ASSUME NEW window \in ManagedWindows, NEW hold \in Holds, hold # NoHold, hold.map = "map",
           NEW more, more = [hold EXCEPT !.messages = Append(@, "other")]
    PROVE  /\ more \in Holds /\ more # NoHold /\ more.map = "map" /\ more.token = hold.token
           /\ Outcome(window, more) = Handled(Outcome(window, hold), "other")
<1> DEFINE messages == hold.messages
           longer == Append(messages, "other")
<1>1. /\ more \in Holds /\ more.map = "map" /\ more.token = hold.token
      /\ more.messages = longer
  <2>1. messages \in Seq({"other"}) /\ hold.token \in Nat
    BY DEF Holds
  <2>2. longer \in Seq({"other"})
    BY <2>1
  <2>3. more = [hold EXCEPT !.messages = longer]
    OBVIOUS
  <2> HIDE DEF longer, messages
  <2>4. more \in Holds
    BY <2>2, <2>3 DEF Holds
  <2>5. more.map = hold.map /\ more.token = hold.token /\ more.messages = longer
    BY <2>3 DEF Holds
  <2> QED BY <2>4, <2>5
<1>2. more # NoHold
  BY <1>1 DEF NoHold
<1>3. messages \in Seq(Requests) /\ "other" \in Requests /\ "map" \in Requests
  BY DEF Holds, Requests
<1> HIDE DEF messages
<1>4. Handled(window, "map") \in ManagedWindows
  BY <1>3, HandledType
<1>5. Replayed(Handled(window, "map"), Append(messages, "other"))
        = Handled(Replayed(Handled(window, "map"), messages), "other")
  BY <1>3, <1>4, ReplayedAppend
<1> QED BY <1>1, <1>2, <1>5 DEF Outcome, messages

-----------------------------------------------------------------------------
(* One event at one window, and what the effect does with it.              *)

\* The effect leaves a window and a hold that come to what the event makes.
Answered(w, event) ==
    \E window \in ManagedWindows, hold \in Holds :
        /\ managed' = [managed EXCEPT ![w] = window]
        /\ pendingMaps' = [pendingMaps EXCEPT ![w] = hold]
        /\ Outcome(window, hold) = Handled(Outcome(managed[w], pendingMaps[w]), event)
        /\ KeptBack(w, window, hold, timers')

\* Timers only start, and for numbers used never before.
TimersStart ==
    /\ nextMap' \in Nat /\ timers \subseteq timers'
    /\ timers' \subseteq Ids \X (1..nextMap')

LEMMA NoHoldIsHold == NoHold \in Holds
<1>1. <<>> \in Seq({"other"}) /\ 0 \in Nat
  OBVIOUS
<1> QED BY <1>1 DEF NoHold, Holds

LEMMA PassedOn ==
    ASSUME HeldInv, NEW w \in Ids, NEW event \in Requests, ~Held(w), Passes(w, event)
    PROVE  Answered(w, event)
<1> DEFINE window == Handled(managed[w], event)
<1>1. window \in ManagedWindows
  BY HandledType DEF HeldInv
<1>2. pendingMaps[w] = NoHold
  BY DEF Held
<1>3. managed' = [managed EXCEPT ![w] = window] /\ pendingMaps' = [pendingMaps EXCEPT ![w] = NoHold]
  BY <1>2 DEF Passes, HeldInv
<1>4. Outcome(window, NoHold) = Handled(Outcome(managed[w], pendingMaps[w]), event)
  BY <1>2 DEF Outcome
<1>5. KeptBack(w, window, NoHold, timers')
  BY DEF KeptBack
<1> HIDE DEF window
<1> QED BY <1>1, <1>3, <1>4, <1>5, NoHoldIsHold DEF Answered

\* Letting the hold go, then the event that let it go.
LEMMA LetGo ==
    ASSUME HeldInv, NEW w \in Ids, NEW event \in Requests, Held(w), MapPending(w, <<event>>)
    PROVE  Answered(w, event)
<1> DEFINE window == Handled(Released(w), event)
<1>1. pendingMaps[w] # NoHold /\ KeptBack(w, managed[w], pendingMaps[w], timers)
  BY DEF Held, HeldInv
<1>2. Released(w) = Outcome(managed[w], pendingMaps[w])
  BY <1>1 DEF Released, Outcome
<1>3. Released(w) \in ManagedWindows
  <2>1. managed[w] \in ManagedWindows /\ pendingMaps[w] \in Holds /\ pendingMaps[w].map = "map"
    BY <1>1 DEF KeptBack, HeldInv
  <2> QED BY <1>2, <2>1, OutcomeType
<1>4. window \in ManagedWindows
  BY <1>3, HandledType
<1>5. managed' = [managed EXCEPT ![w] = window] /\ pendingMaps' = [pendingMaps EXCEPT ![w] = NoHold]
  BY <1>3, ReplayedOne DEF MapPending
<1>6. Outcome(window, NoHold) = Handled(Outcome(managed[w], pendingMaps[w]), event)
  BY <1>2 DEF Outcome
<1>7. KeptBack(w, window, NoHold, timers')
  BY DEF KeptBack
<1> HIDE DEF window
<1> QED BY <1>4, <1>5, <1>6, <1>7, NoHoldIsHold DEF Answered

\* A mapping held back comes to what it would have been.
LEMMA MapHeld ==
    ASSUME HeldInv, NEW w \in Ids, ~managed[w].shown, ~Held(w),
           nextMap' = nextMap + 1, timers' = timers \cup {<<w, nextMap'>>}, UNCHANGED managed,
           pendingMaps' = [pendingMaps EXCEPT ![w] =
               [map |-> "map", messages |-> <<>>, token |-> nextMap']]
    PROVE  Answered(w, "map")
<1> DEFINE hold == [map |-> "map", messages |-> <<>>, token |-> nextMap']
           window == managed[w]
           mapped == Handled(window, "map")
<1>1. /\ hold \in Holds /\ hold # NoHold /\ hold.map = "map" /\ hold.messages = <<>>
      /\ hold.token = nextMap'
  <2>1. <<>> \in Seq({"other"}) /\ nextMap' \in Nat
    BY DEF HeldInv
  <2>2. hold.map # NoHold.map
    BY DEF NoHold
  <2> QED BY <2>1, <2>2 DEF Holds
<1>2. window \in ManagedWindows /\ ~window.shown /\ pendingMaps[w] = NoHold
  BY DEF HeldInv, Held
<1>3. mapped \in ManagedWindows /\ mapped.shown
  <2>1. mapped = [shown |-> TRUE, full |-> FALSE, told |-> 0]
    BY <1>2 DEF Handled
  <2> HIDE DEF mapped
  <2> QED BY <2>1 DEF ManagedWindows
<1>4. Outcome(window, hold) = mapped
  <2> HIDE DEF window, hold
  <2>1. Replayed(mapped, <<>>) = mapped
    BY <1>3, ReplayedNone
  <2> QED BY <1>1, <2>1 DEF Outcome
<1>5. Outcome(window, pendingMaps[w]) = window
  BY <1>2 DEF Outcome
<1>6. <<w, hold.token>> \in timers'
  BY <1>1
<1>7. managed' = [managed EXCEPT ![w] = window]
  BY DEF HeldInv
<1>8. pendingMaps' = [pendingMaps EXCEPT ![w] = hold]
  OBVIOUS
<1> HIDE DEF hold, mapped
<1>9. KeptBack(w, window, hold, timers')
  BY <1>1, <1>2, <1>3, <1>4, <1>6 DEF KeptBack
<1>10. Outcome(window, hold) = Handled(Outcome(managed[w], pendingMaps[w]), "map")
  BY <1>4, <1>5 DEF mapped
<1> HIDE DEF window
<1> QED BY <1>1, <1>2, <1>7, <1>8, <1>9, <1>10 DEF Answered

LEMMA TimersStay ==
    ASSUME HeldInv, UNCHANGED <<timers, nextMap>>
    PROVE  TimersStart
BY DEF HeldInv, TimersStart

LEMMA TimerStarts ==
    ASSUME HeldInv, NEW w \in Ids, nextMap' = nextMap + 1, timers' = timers \cup {<<w, nextMap'>>}
    PROVE  TimersStart
<1>1. nextMap \in Nat /\ nextMap' \in Nat /\ timers \subseteq Ids \X (1..nextMap)
  BY DEF HeldInv
<1>2. nextMap' \in 1..nextMap' /\ \A n \in 1..nextMap : n \in 1..nextMap'
  BY <1>1
<1> QED BY <1>1, <1>2 DEF TimersStart

LEMMA MapAnswered ==
    ASSUME HeldInv, NEW w \in Ids, NEW event \in {"map", "mapFull"}, HoldMap(w, event)
    PROVE  Answered(w, event) /\ TimersStart
<1>1. event \in Requests
  BY DEF Requests
<1>2. CASE managed[w].shown
  <2>1. ~Held(w)
    BY <1>2 DEF HeldInv, KeptBack, Held
  <2>2. Passes(w, event) /\ UNCHANGED <<timers, nextMap>>
    BY <1>2 DEF HoldMap
  <2> QED BY <1>1, <2>1, <2>2, PassedOn, TimersStay
<1>3. CASE ~managed[w].shown /\ Held(w)
  <2> DEFINE window == managed[w]
             hold == pendingMaps[w]
             outcome == Outcome(window, hold)
  <2>1. UNCHANGED <<managed, pendingMaps, timers, nextMap>>
    BY <1>3 DEF HoldMap
  <2>2. /\ window \in ManagedWindows /\ hold \in Holds /\ KeptBack(w, window, hold, timers)
        /\ hold # NoHold
    BY <1>3 DEF HeldInv, Held
  <2>3. outcome.shown
    BY <2>2 DEF KeptBack
  <2>4. Handled(outcome, event) = outcome
    <3> HIDE DEF outcome
    <3> QED BY <2>3 DEF Handled
  <2>5. managed' = [managed EXCEPT ![w] = window] /\ pendingMaps' = [pendingMaps EXCEPT ![w] = hold]
    BY <2>1 DEF HeldInv
  <2> HIDE DEF window, hold
  <2>6. Answered(w, event)
    BY <2>1, <2>2, <2>4, <2>5 DEF Answered, window, hold
  <2> QED BY <2>1, <2>6, TimersStay
<1>4. CASE ~managed[w].shown /\ ~Held(w)
  <2>1. CASE Passes(w, event) /\ UNCHANGED <<timers, nextMap>>
    BY <1>1, <1>4, <2>1, PassedOn, TimersStay
  <2>2. CASE ~(Passes(w, event) /\ UNCHANGED <<timers, nextMap>>)
    <3>1. nextMap' = nextMap + 1 /\ timers' = timers \cup {<<w, nextMap'>>}
      BY <1>4, <2>2 DEF HoldMap
    <3>2. CASE event = "mapFull"
      <4>1. Passes(w, event)
        BY <1>4, <2>2, <3>2 DEF HoldMap
      <4> QED BY <1>1, <1>4, <3>1, <4>1, PassedOn, TimerStarts
    <3>3. CASE event = "map"
      <4>1. /\ pendingMaps' = [pendingMaps EXCEPT ![w] =
                   [map |-> "map", messages |-> <<>>, token |-> nextMap']]
            /\ UNCHANGED managed
        BY <1>4, <2>2, <3>3 DEF HoldMap
      <4> QED BY <1>4, <3>1, <3>3, <4>1, MapHeld, TimerStarts
    <3> QED BY <3>2, <3>3
  <2> QED BY <2>1, <2>2
<1> QED BY <1>2, <1>3, <1>4

LEMMA StartupAnswers ==
    ASSUME HeldInv, NEW w \in Ids, NEW event \in Requests, StartupEvent(w, event)
    PROVE  Answered(w, event) /\ TimersStart
<1>1. CASE event \in {"map", "mapFull"}
  <2>1. HoldMap(w, event)
    BY <1>1 DEF StartupEvent
  <2> QED BY <1>1, <2>1, MapAnswered
<1>2. CASE event = "destroy"
  <2>1. /\ pendingMaps' = [pendingMaps EXCEPT ![w] = NoHold]
        /\ managed' = [managed EXCEPT ![w] = Unmanaged] /\ UNCHANGED <<timers, nextMap>>
    BY <1>2 DEF StartupEvent
  <2>2. Outcome(Unmanaged, NoHold) = Handled(Outcome(managed[w], pendingMaps[w]), event)
    BY <1>2 DEF Outcome, Handled
  <2>3. Unmanaged \in ManagedWindows /\ KeptBack(w, Unmanaged, NoHold, timers')
    BY DEF Unmanaged, ManagedWindows, KeptBack
  <2> QED BY <2>1, <2>2, <2>3, NoHoldIsHold, TimersStay DEF Answered
<1>3. CASE event \in {"unmap", "full"} /\ Held(w)
  <2>1. MapPending(w, <<event>>) /\ UNCHANGED <<timers, nextMap>>
    BY <1>3 DEF StartupEvent
  <2> QED BY <1>3, <2>1, LetGo, TimersStay
<1>4. CASE event = "other" /\ Held(w)
  <2> DEFINE window == managed[w]
             hold == pendingMaps[w]
             more == [hold EXCEPT !.messages = Append(@, "other")]
  <2>1. /\ pendingMaps' = [pendingMaps EXCEPT ![w] = more]
        /\ UNCHANGED <<managed, timers, nextMap>>
    BY <1>4 DEF StartupEvent, HeldInv
  <2>2. /\ window \in ManagedWindows /\ hold \in Holds /\ KeptBack(w, window, hold, timers)
        /\ hold # NoHold
    BY <1>4 DEF HeldInv, Held
  <2>3. managed' = [managed EXCEPT ![w] = window]
    BY <2>1 DEF HeldInv
  <2>4. hold.map = "map" /\ ~window.shown /\ Outcome(window, hold).shown
        /\ <<w, hold.token>> \in timers
    BY <2>2 DEF KeptBack
  <2> HIDE DEF window, hold, more
  <2>5. /\ more \in Holds /\ more # NoHold /\ more.map = "map" /\ more.token = hold.token
        /\ Outcome(window, more) = Handled(Outcome(window, hold), "other")
    BY <2>2, <2>4, OneMessageMore DEF more
  <2>6. Handled(Outcome(window, hold), "other").shown
    <3> DEFINE outcome == Outcome(window, hold)
    <3>1. outcome \in ManagedWindows /\ outcome.shown
      BY <2>2, <2>4, OutcomeType
    <3> HIDE DEF outcome
    <3>2. [outcome EXCEPT !.told = @ + 1].shown
      BY <3>1 DEF ManagedWindows
    <3>3. Handled(outcome, "other") = [outcome EXCEPT !.told = @ + 1]
      BY <3>1 DEF Handled
    <3> QED BY <3>2, <3>3 DEF outcome
  <2>7. KeptBack(w, window, more, timers')
    BY <2>1, <2>4, <2>5, <2>6 DEF KeptBack
  <2>8. Answered(w, event)
    BY <1>4, <2>1, <2>2, <2>3, <2>5, <2>7 DEF Answered, window, hold
  <2> QED BY <2>1, <2>8, TimersStay
<1>5. CASE event \in {"unmap", "full", "other"} /\ ~Held(w)
  <2>1. Passes(w, event) /\ UNCHANGED <<timers, nextMap>>
    BY <1>5 DEF StartupEvent
  <2> QED BY <1>5, <2>1, PassedOn, TimersStay
<1> QED BY <1>1, <1>2, <1>3, <1>4, <1>5 DEF Requests

-----------------------------------------------------------------------------
(* The steps.                                                              *)

LEMMA HeldStarts ==
    ASSUME HeldInit
    PROVE  HeldInv
<1>1. Unmanaged \in ManagedWindows /\ <<>> \in Seq(Requests)
  BY DEF Unmanaged, ManagedWindows
<1>2. ASSUME NEW w \in Ids
      PROVE  /\ KeptBack(w, managed[w], pendingMaps[w], timers)
             /\ meant[w] = Replayed(Outcome(managed[w], pendingMaps[w]), arriving[w])
  <2>1. /\ pendingMaps[w] = NoHold /\ managed[w] = Unmanaged /\ meant[w] = Unmanaged
        /\ arriving[w] = <<>>
    BY DEF HeldInit
  <2>2. Replayed(Unmanaged, <<>>) = Unmanaged
    BY <1>1, ReplayedNone
  <2> QED BY <2>1, <2>2 DEF KeptBack, Outcome
<1>3. /\ nextMap \in Nat /\ arriving \in [Ids -> Seq(Requests)]
      /\ managed \in [Ids -> ManagedWindows] /\ meant \in [Ids -> ManagedWindows]
      /\ pendingMaps \in [Ids -> Holds] /\ timers \subseteq Ids \X (1..nextMap)
  BY <1>1, NoHoldIsHold DEF HeldInit
<1> QED BY <1>2, <1>3 DEF HeldInv

\* Timers of other windows run on, so what was kept back for them still is.
LEMMA OthersKeptBack ==
    ASSUME NEW w, NEW window, NEW hold, NEW running, NEW since,
           KeptBack(w, window, hold, running),
           <<w, hold.token>> \in running => <<w, hold.token>> \in since
    PROVE  KeptBack(w, window, hold, since)
BY DEF KeptBack

LEMMA EventArrives ==
    ASSUME HeldInv, NEW w \in Ids, NEW event \in Requests, ClientRequest(w, event)
    PROVE  HeldInv'
<1>1. /\ arriving' = [arriving EXCEPT ![w] = Append(@, event)]
      /\ meant' = [meant EXCEPT ![w] = Handled(@, event)]
      /\ UNCHANGED <<pendingMaps, timers, nextMap, managed>>
  BY DEF ClientRequest
<1>2. ASSUME NEW v \in Ids
      PROVE  meant'[v] = Replayed(Outcome(managed[v], pendingMaps[v]), arriving'[v])
  <2> DEFINE outcome == Outcome(managed[v], pendingMaps[v])
  <2>1. meant[v] = Replayed(outcome, arriving[v]) /\ arriving[v] \in Seq(Requests)
    BY DEF HeldInv
  <2>2. outcome \in ManagedWindows
    <3>1. /\ managed[v] \in ManagedWindows /\ pendingMaps[v] \in Holds
          /\ pendingMaps[v] # NoHold => pendingMaps[v].map = "map"
      BY DEF HeldInv, KeptBack
    <3> QED BY <3>1, OutcomeType
  <2> HIDE DEF outcome
  <2>3. CASE v = w
    <3>1. arriving'[v] = Append(arriving[v], event) /\ meant'[v] = Handled(meant[v], event)
      BY <1>1, <2>3 DEF HeldInv
    <3>2. Replayed(outcome, Append(arriving[v], event)) = Handled(Replayed(outcome, arriving[v]), event)
      BY <2>1, <2>2, ReplayedAppend
    <3> QED BY <2>1, <3>1, <3>2 DEF outcome
  <2>4. CASE v # w
    <3>1. arriving'[v] = arriving[v] /\ meant'[v] = meant[v]
      BY <1>1, <2>4 DEF HeldInv
    <3> QED BY <2>1, <3>1 DEF outcome
  <2> QED BY <2>3, <2>4
<1>3. arriving' \in [Ids -> Seq(Requests)] /\ meant' \in [Ids -> ManagedWindows]
  <2>1. Append(arriving[w], event) \in Seq(Requests)
    BY DEF HeldInv
  <2>2. Handled(meant[w], event) \in ManagedWindows
    BY HandledType DEF HeldInv
  <2> QED BY <1>1, <2>1, <2>2 DEF HeldInv
<1> QED BY <1>1, <1>2, <1>3 DEF HeldInv

LEMMA EventHandled ==
    ASSUME HeldInv, NEW w \in Ids, HandleEvent(w)
    PROVE  HeldInv'
<1> DEFINE event == Head(arriving[w])
<1>1. /\ event \in Requests /\ arriving[w] \in Seq(Requests) /\ arriving[w] # <<>>
      /\ Tail(arriving[w]) \in Seq(Requests)
  BY DEF HandleEvent, HeldInv
<1>2. /\ StartupEvent(w, event) /\ arriving' = [arriving EXCEPT ![w] = Tail(@)]
      /\ UNCHANGED meant
  BY DEF HandleEvent
<1>3. Answered(w, event) /\ TimersStart
  <2> HIDE DEF event
  <2> QED BY <1>1, <1>2, StartupAnswers
<1>4. PICK window \in ManagedWindows, hold \in Holds :
        /\ managed' = [managed EXCEPT ![w] = window]
        /\ pendingMaps' = [pendingMaps EXCEPT ![w] = hold]
        /\ Outcome(window, hold) = Handled(Outcome(managed[w], pendingMaps[w]), event)
        /\ KeptBack(w, window, hold, timers')
  BY <1>3 DEF Answered
<1>5. ASSUME NEW v \in Ids
      PROVE  /\ KeptBack(v, managed'[v], pendingMaps'[v], timers')
             /\ meant'[v] = Replayed(Outcome(managed'[v], pendingMaps'[v]), arriving'[v])
  <2> DEFINE outcome == Outcome(managed[v], pendingMaps[v])
  <2>1. meant'[v] = Replayed(outcome, arriving[v]) /\ KeptBack(v, managed[v], pendingMaps[v], timers)
    BY <1>2 DEF HeldInv
  <2>2. CASE v = w
    <3>1. managed'[v] = window /\ pendingMaps'[v] = hold /\ arriving'[v] = Tail(arriving[v])
      BY <1>2, <1>4, <2>2 DEF HeldInv
    <3>2. outcome \in ManagedWindows
      <4>1. /\ managed[v] \in ManagedWindows /\ pendingMaps[v] \in Holds
            /\ pendingMaps[v] # NoHold => pendingMaps[v].map = "map"
        BY DEF HeldInv, KeptBack
      <4> QED BY <4>1, OutcomeType
    <3> HIDE DEF outcome
    <3>3. Replayed(outcome, arriving[v])
            = Replayed(Handled(outcome, Head(arriving[v])), Tail(arriving[v]))
      BY <1>1, <2>2, <3>2, ReplayedFirst
    <3>4. Outcome(window, hold) = Handled(outcome, Head(arriving[v]))
      BY <1>4, <2>2 DEF outcome
    <3> QED BY <1>4, <2>1, <2>2, <3>1, <3>3, <3>4
  <2>3. CASE v # w
    <3>1. /\ managed'[v] = managed[v] /\ pendingMaps'[v] = pendingMaps[v]
          /\ arriving'[v] = arriving[v]
      BY <1>2, <1>4, <2>3 DEF HeldInv
    <3>2. KeptBack(v, managed[v], pendingMaps[v], timers')
      BY <1>3, <2>1, OthersKeptBack DEF TimersStart
    <3> QED BY <2>1, <3>1, <3>2
  <2> QED BY <2>2, <2>3
<1>6. /\ arriving' \in [Ids -> Seq(Requests)] /\ meant' \in [Ids -> ManagedWindows]
      /\ managed' \in [Ids -> ManagedWindows] /\ pendingMaps' \in [Ids -> Holds]
  <2> HIDE DEF event
  <2> QED BY <1>1, <1>2, <1>4 DEF HeldInv
<1> QED BY <1>3, <1>5, <1>6 DEF HeldInv, TimersStart

\* A hold let go by itself comes to what it was kept for.
LEMMA ReleasedOutcome ==
    ASSUME HeldInv, NEW w \in Ids
    PROVE  /\ Outcome(managed[w], pendingMaps[w]) \in ManagedWindows
           /\ Held(w) => /\ Released(w) = Outcome(managed[w], pendingMaps[w])
                         /\ Replayed(Released(w), <<>>) = Released(w)
           /\ ~Held(w) => managed[w] = Outcome(managed[w], pendingMaps[w])
           /\ Outcome(Outcome(managed[w], pendingMaps[w]), NoHold)
                = Outcome(managed[w], pendingMaps[w])
<1>1. Outcome(managed[w], pendingMaps[w]) \in ManagedWindows
  <2>1. /\ managed[w] \in ManagedWindows /\ pendingMaps[w] \in Holds
        /\ pendingMaps[w] # NoHold => pendingMaps[w].map = "map"
    BY DEF HeldInv, KeptBack
  <2> QED BY <2>1, OutcomeType
<1>2. Held(w) => Released(w) = Outcome(managed[w], pendingMaps[w])
  BY DEF Held, Released, Outcome
<1>3. ~Held(w) => managed[w] = Outcome(managed[w], pendingMaps[w])
  BY DEF Held, Outcome
<1>4. \A window : Outcome(window, NoHold) = window
  BY DEF Outcome
<1> QED BY <1>1, <1>2, <1>3, <1>4, ReplayedNone

LEMMA TimeIsUp ==
    ASSUME HeldInv, NEW w \in Ids, NEW token \in 1..nextMap, Timer(w, token)
    PROVE  HeldInv'
<1> DEFINE ends == Held(w) /\ pendingMaps[w].token = token
           outcome == Outcome(managed[w], pendingMaps[w])
<1>1. /\ timers' = timers \ {<<w, token>>} /\ UNCHANGED <<arriving, nextMap, meant>>
      /\ IF ends THEN MapPending(w, <<>>) ELSE UNCHANGED <<managed, pendingMaps>>
  BY DEF Timer
<1>2. /\ outcome \in ManagedWindows
      /\ Held(w) => Released(w) = outcome /\ Replayed(Released(w), <<>>) = Released(w)
      /\ Outcome(outcome, NoHold) = outcome
  BY ReleasedOutcome
<1> HIDE DEF outcome
<1>3. CASE ends
  <2>1. managed' = [managed EXCEPT ![w] = outcome] /\ pendingMaps' = [pendingMaps EXCEPT ![w] = NoHold]
    BY <1>1, <1>2, <1>3 DEF MapPending
  <2>2. ASSUME NEW v \in Ids
        PROVE  /\ KeptBack(v, managed'[v], pendingMaps'[v], timers')
               /\ meant'[v] = Replayed(Outcome(managed'[v], pendingMaps'[v]), arriving'[v])
    <3>1. /\ meant'[v] = Replayed(Outcome(managed[v], pendingMaps[v]), arriving[v])
          /\ KeptBack(v, managed[v], pendingMaps[v], timers)
      BY <1>1 DEF HeldInv
    <3>2. CASE v = w
      <4>1. managed'[v] = outcome /\ pendingMaps'[v] = NoHold /\ arriving'[v] = arriving[v]
        BY <1>1, <2>1, <3>2 DEF HeldInv
      <4>2. KeptBack(v, outcome, NoHold, timers')
        BY DEF KeptBack
      <4> QED BY <1>2, <3>1, <3>2, <4>1, <4>2 DEF outcome
    <3>3. CASE v # w
      <4>1. /\ managed'[v] = managed[v] /\ pendingMaps'[v] = pendingMaps[v]
            /\ arriving'[v] = arriving[v]
        BY <1>1, <2>1, <3>3 DEF HeldInv
      <4>2. KeptBack(v, managed[v], pendingMaps[v], timers')
        BY <1>1, <3>1, <3>3, OthersKeptBack
      <4> QED BY <3>1, <4>1, <4>2
    <3> QED BY <3>2, <3>3
  <2>3. managed' \in [Ids -> ManagedWindows] /\ pendingMaps' \in [Ids -> Holds]
    BY <1>2, <2>1, NoHoldIsHold DEF HeldInv
  <2> QED BY <1>1, <2>2, <2>3 DEF HeldInv
<1>4. CASE ~ends
  <2>1. UNCHANGED <<managed, pendingMaps, arriving, nextMap, meant>>
    BY <1>1, <1>4
  <2>2. ASSUME NEW v \in Ids
        PROVE  KeptBack(v, managed[v], pendingMaps[v], timers')
    <3>1. KeptBack(v, managed[v], pendingMaps[v], timers)
      BY DEF HeldInv
    <3>2. CASE pendingMaps[v] = NoHold
      BY <3>2 DEF KeptBack
    <3>3. CASE pendingMaps[v] # NoHold
      <4>1. <<v, pendingMaps[v].token>> # <<w, token>>
        BY <1>4, <3>3 DEF Held
      <4> QED BY <1>1, <3>1, <4>1, OthersKeptBack
    <3> QED BY <3>2, <3>3
  <2> QED BY <1>1, <2>1, <2>2 DEF HeldInv
<1> QED BY <1>3, <1>4

LEMMA AllLetGo ==
    ASSUME HeldInv, FlushMaps
    PROVE  HeldInv'
<1>1. /\ managed' = [w \in Ids |-> IF Held(w) THEN Released(w) ELSE managed[w]]
      /\ pendingMaps' = [w \in Ids |-> NoHold]
      /\ UNCHANGED <<arriving, timers, nextMap, meant>>
  BY DEF FlushMaps
<1>2. ASSUME NEW w \in Ids
      PROVE  /\ managed'[w] \in ManagedWindows /\ pendingMaps'[w] = NoHold
             /\ KeptBack(w, managed'[w], pendingMaps'[w], timers')
             /\ meant'[w] = Replayed(Outcome(managed'[w], pendingMaps'[w]), arriving'[w])
  <2>1. managed'[w] = Outcome(managed[w], pendingMaps[w]) /\ pendingMaps'[w] = NoHold
    BY <1>1, ReleasedOutcome
  <2>2. meant[w] = Replayed(Outcome(managed[w], pendingMaps[w]), arriving[w])
    BY DEF HeldInv
  <2>3. KeptBack(w, managed'[w], NoHold, timers')
    BY DEF KeptBack
  <2> QED BY <1>1, <2>1, <2>2, <2>3, ReleasedOutcome
<1>3. managed' \in [Ids -> ManagedWindows] /\ pendingMaps' \in [Ids -> Holds]
  BY <1>1, <1>2, NoHoldIsHold
<1> QED BY <1>1, <1>2, <1>3 DEF HeldInv

LEMMA HeldSteps ==
    ASSUME HeldInv, [HeldNext]_heldVars
    PROVE  HeldInv'
<1>1. CASE UNCHANGED heldVars
  BY <1>1 DEF HeldInv, heldVars
<1>2. CASE \E w \in Ids, event \in Requests : ClientRequest(w, event)
  BY <1>2, EventArrives
<1>3. CASE \E w \in Ids : HandleEvent(w)
  BY <1>3, EventHandled
<1>4. CASE \E w \in Ids, token \in 1..nextMap : Timer(w, token)
  BY <1>4, TimeIsUp
<1>5. CASE FlushMaps
  BY <1>5, AllLetGo
<1> QED BY <1>1, <1>2, <1>3, <1>4, <1>5 DEF HeldNext

LEMMA HeldInvIsInvisible ==
    ASSUME HeldInv
    PROVE  HoldIsInvisible
<1>1. ASSUME NEW w \in Ids, arriving[w] = <<>>
      PROVE  IF Held(w) THEN <<w, pendingMaps[w].token>> \in timers ELSE managed[w] = meant[w]
  <2>1. KeptBack(w, managed[w], pendingMaps[w], timers)
    BY DEF HeldInv
  <2>2. CASE Held(w)
    BY <2>1, <2>2 DEF Held, KeptBack
  <2>3. CASE ~Held(w)
    <3>1. meant[w] = Replayed(managed[w], <<>>) /\ managed[w] \in ManagedWindows
      BY <1>1, <2>3, ReleasedOutcome DEF HeldInv
    <3> QED BY <2>3, <3>1, ReplayedNone
  <2> QED BY <2>2, <2>3
<1> QED BY <1>1 DEF HoldIsInvisible

\* Whatever windows there are, however they use their identifiers again and
\* whenever timers and settings come in between, holding a mapping changes when
\* KWin sees it and never what comes of it.
\* (startupEvent(), mapPending() and holdMap(), x11resolution_startup.cpp:126-248)
THEOREM NothingShowsOfAHold == HeldSpec => []HoldIsInvisible
<1>1. HeldInit => HeldInv
  BY HeldStarts
<1>2. HeldInv /\ [HeldNext]_heldVars => HeldInv'
  BY HeldSteps
<1>3. HeldInv => HoldIsInvisible
  BY HeldInvIsInvisible
<1> QED BY <1>1, <1>2, <1>3, PTL DEF HeldSpec
-----------------------------------------------------------------------------
(* DisplayLists: what a client was shown of its screen.                    *)

\* While the policy speaks, what the client knows are the modes it was shown, the
\* current one is of them and there is one as soon as there are any.
ShownAsKnown ==
    speaking => /\ known = modes
                /\ (current = NoMode /\ modes = {}) \/ (current # NoMode /\ current \in modes)
                /\ modes # {} => named \subseteq modes

\* A place shown is kept where the server has it, withdrawn or not.
PlacesKept ==
    \A i \in DOMAIN legacy : i \in DOMAIN places /\ places[i] = legacy[i].at

ListsTyped == offers \in [list : Lists, monitors : {1, 2}] /\ speaking \in BOOLEAN
ListsInv == ListsTyped /\ ShownAsKnown /\ PlacesKept

\* The first of the modes that have the size is one of them.
LEMMA FirstWanted ==
    ASSUME offers.list \in Seq(Modes), Wanted # {}
    PROVE  /\ offers.list[Min(Wanted)] \in {offers.list[i] : i \in Wanted}
           /\ offers.list[Min(Wanted)] # NoMode
<1>1. Wanted \subseteq Nat
  BY DEF Wanted
<1>2. PICK least \in Wanted : \A n \in Wanted : least <= n
  BY <1>1, LeastNumber
<1>3. Min(Wanted) \in Wanted
  BY <1>2 DEF Min
<1>4. Min(Wanted) \in DOMAIN offers.list
  BY <1>3 DEF Wanted
<1>5. offers.list[Min(Wanted)] \in Modes
  BY <1>4
<1> QED BY <1>3, <1>5, ListsAssumption

LEMMA ListsStart == ListsInit => ListsInv
BY DEF ListsInit, ListsInv, ListsTyped, ShownAsKnown, PlacesKept

\* What any other request does: the policy is withdrawn, or nothing is shown anew
\* and what is named is of the screen shown.
LEMMA WithdrawnOrKept ==
    ASSUME ListsInv, UNCHANGED <<offers, known, legacy>>,
           Disable \/ Unchanged,
           Unchanged /\ speaking /\ modes # {} => named' \subseteq modes
    PROVE  ListsInv'
<1>1. CASE Disable
  <2>1. ListsTyped'
    BY <1>1 DEF Disable, ListsInv, ListsTyped
  <2>2. ShownAsKnown'
    BY <1>1 DEF Disable, ShownAsKnown
  <2>3. PlacesKept'
    BY <1>1 DEF Disable, ListsInv, PlacesKept
  <2> QED BY <2>1, <2>2, <2>3 DEF ListsInv
<1>2. CASE Unchanged
  <2>1. ListsTyped'
    BY <1>2 DEF Unchanged, ListsInv, ListsTyped
  <2>2. ShownAsKnown'
    <3>1. speaking' = speaking /\ modes' = modes /\ current' = current /\ known' = known
      BY <1>2 DEF Unchanged
    <3> QED BY <1>2, <3>1 DEF ListsInv, ShownAsKnown
  <2>3. PlacesKept'
    BY <1>2 DEF Unchanged, ListsInv, PlacesKept
  <2> QED BY <2>1, <2>2, <2>3 DEF ListsInv
<1> QED BY <1>1, <1>2

LEMMA ListsSteps == ListsInv /\ [ListsNext]_listVars => ListsInv'
<1> SUFFICES ASSUME ListsInv, [ListsNext]_listVars
             PROVE  ListsInv'
  OBVIOUS
<1> USE DEF ListsInv, ListsTyped, ShownAsKnown, PlacesKept
<1>1. CASE UNCHANGED listVars
  BY <1>1 DEF listVars
<1>2. CASE ScreenResources
  <2>1. CASE speaking /\ offers.monitors = 1 /\ Wanted # {}
    <3>1. offers.list \in Seq(Modes)
      BY ListsAssumption
    <3>2. /\ modes' = {offers.list[i] : i \in Wanted} /\ current' = offers.list[Min(Wanted)]
          /\ named' = modes' /\ known' = named' /\ UNCHANGED <<speaking, places, legacy, offers>>
      BY <1>2, <2>1 DEF ScreenResources
    <3>3. current' \in modes' /\ current' # NoMode
      BY <2>1, <3>1, <3>2, FirstWanted
    <3> QED BY <3>2, <3>3
  <2>2. CASE ~(speaking /\ offers.monitors = 1 /\ Wanted # {})
    <3>1. /\ UNCHANGED <<places, legacy, offers>>
          /\ speaking' = FALSE
      BY <1>2, <2>2 DEF ScreenResources, Disable, Unchanged
    <3> QED BY <3>1
  <2> QED BY <2>1, <2>2
<1>3. CASE OutputInfo
  <2>1. UNCHANGED <<offers, known, legacy>> /\ (Disable \/ Unchanged)
    BY <1>3 DEF OutputInfo
  <2>2. Unchanged /\ speaking /\ modes # {} => named' \subseteq modes
    <3>1. CASE ~speaking \/ modes = {}
      BY <3>1
    <3>2. CASE speaking /\ modes # {} /\ OfferedStill = {}
      BY <1>3, <3>2 DEF OutputInfo, Disable, Unchanged
    <3>3. CASE speaking /\ modes # {} /\ OfferedStill # {}
      BY <1>3, <3>3 DEF OutputInfo, OfferedStill
    <3> QED BY <3>1, <3>2, <3>3
  <2> QED BY <2>1, <2>2, WithdrawnOrKept
<1>4. CASE CrtcInfo
  <2>1. UNCHANGED <<offers, known, legacy>> /\ Unchanged
    BY <1>4 DEF CrtcInfo, Unchanged
  <2>2. speaking /\ modes # {} => named' \subseteq modes
    BY <1>4 DEF CrtcInfo
  <2> QED BY <2>1, <2>2, WithdrawnOrKept
<1>5. CASE MonitorList
  <2>1. UNCHANGED <<offers, known, legacy>> /\ named' = {} /\ (Disable \/ Unchanged)
    BY <1>5 DEF MonitorList
  <2> QED BY <2>1, WithdrawnOrKept
<1>6. CASE ScreenInfo
  <2>1. \E remaining :
            IF speaking /\ remaining # <<>>
            THEN /\ places' = [i \in DOMAIN remaining |-> remaining[i].at] /\ legacy' = remaining
                 /\ UNCHANGED <<speaking, modes, current>>
            ELSE legacy' = <<>> /\ speaking' = FALSE
    BY <1>6 DEF ScreenInfo
  <2>2. UNCHANGED offers /\ UNCHANGED known /\ named' = {}
    BY <1>6 DEF ScreenInfo
  <2>3. speaking' \in BOOLEAN /\ ShownAsKnown'
    <3>1. CASE speaking' = FALSE
      BY <3>1
    <3>2. CASE UNCHANGED <<speaking, modes, current>>
      <4>1. speaking' = speaking /\ modes' = modes /\ current' = current /\ known' = known
        BY <2>2, <3>2
      <4> QED BY <2>2, <4>1
    <3> QED BY <2>1, <3>1, <3>2
  <2>4. PICK remaining :
            IF speaking /\ remaining # <<>>
            THEN /\ places' = [i \in DOMAIN remaining |-> remaining[i].at] /\ legacy' = remaining
                 /\ UNCHANGED <<speaking, modes, current>>
            ELSE legacy' = <<>> /\ speaking' = FALSE
    BY <2>1
  <2>5. PlacesKept'
    <3>1. CASE speaking /\ remaining # <<>>
      BY <2>4, <3>1
    <3>2. CASE ~(speaking /\ remaining # <<>>)
      BY <2>4, <3>2
    <3> QED BY <3>1, <3>2
  <2> QED BY <2>2, <2>3, <2>5
<1>7. CASE VidModeLine
  <2>1. UNCHANGED <<offers, known, legacy>> /\ named' = {} /\ (Disable \/ Unchanged)
    BY <1>7 DEF VidModeLine
  <2> QED BY <2>1, WithdrawnOrKept
<1>8. CASE \E list \in Lists, monitors \in {1, 2} : ServerChanges(list, monitors)
  BY <1>8 DEF ServerChanges
<1> QED BY <1>1, <1>2, <1>3, <1>4, <1>5, <1>6, <1>7, <1>8 DEF ListsNext

\* Whatever modes the server has and however often they change, and in whatever
\* order the client asks, no reply names a mode of another screen than the one
\* shown, and a place goes on naming the same size.
\* (request(), reply() and outputInfo(), display.cpp:75-210)
THEOREM ShownGoesOnMeaning == ListsSpec => []ShownStaysTrue
<1>1. ListsInit => ListsInv
  BY ListsStart
<1>2. ListsInv /\ [ListsNext]_listVars => ListsInv'
  BY ListsSteps
<1>3. ListsInv => ShownStaysTrue
  BY DEF ListsInv, ShownAsKnown, PlacesKept, ShownStaysTrue, NativeSizeIndex
<1> QED BY <1>1, <1>2, <1>3, PTL DEF ListsSpec
-----------------------------------------------------------------------------
(* GameIndex: what an index says while nothing it read has another time.   *)

Was(menu0, times0, path) ==
    IF path[2] # "." /\ menu0[path] = "none" THEN NoTime ELSE times0[path]

AllAsRead(menu0, times0, read) == \A path \in DOMAIN read : read[path] = Was(menu0, times0, path)

Game(menu0, p) == menu0[p] \notin {"none", "plain", "hidden"}
GamesAmong(menu0, told) == {[id |-> p[2], kind |-> menu0[p]] : p \in {q \in told : Game(menu0, q)}}

\* What is true of the menu as long as everything read has its time: these entries
\* are there, those are not, and of the ones told these are the games.
Reliable(menu0, times0, read, there, gone, told, playable) ==
    AllAsRead(menu0, times0, read) =>
        /\ \A p \in there : menu0[p] # "none"
        /\ \A p \in gone : menu0[p] = "none"
        /\ playable = GamesAmong(menu0, told)

(* The entries among the paths read. *)
Asked(read) == {p \in DOMAIN read : p[2] # "."}

\* The directory of every entry that something is said of was read, and the entry
\* itself where its content is said.
Covered(read, there, gone, told) ==
    /\ there \subseteq Entries /\ gone \subseteq Entries
    /\ told \subseteq Asked(read)
    /\ DOMAIN read \subseteq Paths
    /\ \A p \in there \cup gone \cup Asked(read) : <<p[1], ".">> \in DOMAIN read

\* No change from now on leaves a time that was kept.
Past(read, clock0) ==
    \A path \in DOMAIN read :
        read[path] \in Int /\ (read[path] = NoTime \/ read[path] <= clock0 - TimeTick)

(* Of an index that is being read, and of one read to its end. *)
IsAsked(read, n) == \E p \in Asked(read) : p[2] = n
Overruled(read) == {q \in Entries : \E p \in Asked(read) : p[2] = q[2] /\ q[1] < p[1]}
Listed(b) == b.step \in {"entry", "content"}
GoneBy(b, q) == q[1] < b.at \/ (q[1] = b.at /\ Listed(b) /\ q[2] \notin b.todo)
There(b) == Asked(b.read) \cup {q \in Entries : q[1] = b.at /\ Listed(b) /\ q[2] \in b.todo}
Gone(b) == Overruled(b.read) \cup {q \in Entries : ~IsAsked(b.read, q[2]) /\ GoneBy(b, q)}
Told(b) == IF b.step = "content" THEN Asked(b.read) \ {<<b.at, b.entry>>} ELSE Asked(b.read)

Unasked(read) == {q \in Entries : ~IsAsked(read, q[2])}

Steps == {"remember", "list", "entry", "content"}
DirectoryRead(b, i) == i < b.at \/ (i = b.at /\ b.step # "remember")

IndexFields(b) ==
    [kept |-> b.kept, settled |-> b.settled, at |-> b.at, step |-> b.step, todo |-> b.todo,
     entry |-> b.entry, seen |-> b.seen, read |-> b.read, games |-> b.games]

\* How far reading is: which paths it has been to.
Underway(b) ==
    /\ b = IndexFields(b)
    /\ b.at \in DOMAIN Locations /\ b.step \in Steps
    /\ b.todo \subseteq EntryIds
    /\ DOMAIN b.read \subseteq Paths
    /\ \A i \in DOMAIN Locations : <<i, ".">> \in DOMAIN b.read <=> DirectoryRead(b, i)
    /\ \A p \in Asked(b.read) : DirectoryRead(b, p[1])
    /\ b.seen = {n \in EntryIds : IsAsked(b.read, n)}
    /\ b.step = "content" => b.entry \in b.todo /\ <<b.at, b.entry>> \in Asked(b.read)

Finished(read) ==
    /\ DOMAIN read \subseteq Paths
    /\ \A i \in DOMAIN Locations : <<i, ".">> \in DOMAIN read

MenuTyped ==
    /\ clock \in Nat
    /\ menu \in [Entries -> EntryKinds]
    /\ times \in [Paths -> Int] /\ \A path \in Paths : times[path] # NoTime

BuildingInv ==
    building.kept =>
        /\ Underway(building)
        /\ building.settled \in Int /\ building.settled <= clock - TimeTick
        /\ Past(building.read, clock)
        /\ Reliable(menu, times, building.read, There(building), Gone(building), Told(building),
                    building.games)

IndexInv ==
    index.kept =>
        /\ Finished(index.read)
        /\ Past(index.read, clock)
        /\ Reliable(menu, times, index.read, Asked(index.read),
                    Overruled(index.read) \cup Unasked(index.read), Asked(index.read), index.games)

GameInv == MenuTyped /\ BuildingInv /\ IndexInv

-----------------------------------------------------------------------------
(* What changes in the menu.                                               *)

LEMMA StampIsLate ==
    ASSUME clock \in Nat
    PROVE  Stamp \in Nat /\ Stamp > clock - TimeTick /\ Stamp # NoTime
<1>1. TimeTick \in Nat /\ TimeTick > 0
  BY GameIndexAssumption
<1>2. clock % TimeTick \in 0..(TimeTick - 1)
  BY <1>1
<1>3. clock % TimeTick <= clock
  BY <1>1
<1> QED BY <1>1, <1>2, <1>3 DEF Stamp, NoTime

LEMMA PathParts ==
    /\ \A path \in Paths : path = <<path[1], path[2]>> /\ path[1] \in DOMAIN Locations
    /\ \A path \in Paths : path[2] # "." => path \in Entries
    /\ \A p \in Entries : p \in Paths /\ p[2] # "." /\ p[2] \in EntryIds /\ <<p[1], ".">> \in Paths
    /\ \A i \in DOMAIN Locations : <<i, ".">> \in Paths /\ <<i, ".">>[2] = "."
    /\ \A i \in DOMAIN Locations, n \in EntryIds : <<i, n>> \in Entries
    /\ \A i \in DOMAIN Locations : i \in Nat
    /\ \A p \in Entries : p[1] \in DOMAIN Locations /\ p[1] \in Nat
<1>1. \A path \in Paths : path = <<path[1], path[2]>> /\ path[1] \in DOMAIN Locations
  BY DEF Paths
<1>2. \A path \in Paths : path[2] # "." => path \in Entries
  BY DEF Entries
<1>3. \A p \in Entries : p \in Paths /\ p[2] # "." /\ p[2] \in EntryIds /\ <<p[1], ".">> \in Paths
  BY DEF Entries, Paths
<1>4. \A i \in DOMAIN Locations : <<i, ".">> \in Paths /\ <<i, ".">>[2] = "."
  BY DEF Paths
<1>5. \A i \in DOMAIN Locations, n \in EntryIds : <<i, n>> \in Entries
  BY GameIndexAssumption DEF Entries, Paths
<1>6. \A i \in DOMAIN Locations : i \in Nat
  BY GameIndexAssumption
<1>7. \A p \in Entries : p[1] \in DOMAIN Locations /\ p[1] \in Nat
  BY <1>1, <1>3, <1>6
<1> QED BY <1>1, <1>2, <1>3, <1>4, <1>5, <1>6, <1>7

\* An entry that is added, replaced or removed leaves the time of its directory: of
\* what was read there nothing is relied on from then on.
LEMMA ReplacedReliable ==
    ASSUME NEW menu0 \in [Entries -> EntryKinds], NEW times0 \in [Paths -> Int],
           NEW read, NEW there, NEW gone, NEW told, NEW playable,
           NEW p \in Entries, NEW kind, NEW time, NEW stamp,
           Covered(read, there, gone, told),
           Reliable(menu0, times0, read, there, gone, told, playable),
           \A path \in DOMAIN read : read[path] # stamp
    PROVE  Reliable([menu0 EXCEPT ![p] = kind],
                    [times0 EXCEPT ![p] = time, ![<<p[1], ".">>] = stamp],
                    read, there, gone, told, playable)
<1> DEFINE menu1 == [menu0 EXCEPT ![p] = kind]
           times1 == [times0 EXCEPT ![p] = time, ![<<p[1], ".">>] = stamp]
           directory == <<p[1], ".">>
<1> SUFFICES ASSUME AllAsRead(menu1, times1, read)
             PROVE  /\ \A q \in there : menu1[q] # "none"
                    /\ \A q \in gone : menu1[q] = "none"
                    /\ playable = GamesAmong(menu1, told)
  BY DEF Reliable
<1>1. directory \in Paths /\ directory[2] = "." /\ p \in Paths /\ p # directory
  BY PathParts
<1>2. times1[directory] = stamp
  BY <1>1
<1>3. directory \notin DOMAIN read
  BY <1>1, <1>2 DEF AllAsRead, Was
<1>4. p \notin there /\ p \notin gone /\ p \notin DOMAIN read
  BY <1>3, PathParts DEF Covered, Asked
<1>5. \A q \in Entries \ {p} : menu1[q] = menu0[q]
  OBVIOUS
<1>6. \A q \in Paths \ {p, directory} : times1[q] = times0[q]
  BY <1>1
<1>7. \A q \in DOMAIN read : q \in Paths /\ q # p /\ q # directory
  BY <1>3, <1>4 DEF Covered
<1>8. \A q \in DOMAIN read : Was(menu1, times1, q) = Was(menu0, times0, q)
  <2> HIDE DEF menu1, times1, directory
  <2> SUFFICES ASSUME NEW q \in DOMAIN read
               PROVE  Was(menu1, times1, q) = Was(menu0, times0, q)
    OBVIOUS
  <2>1. q \in Paths /\ q # p /\ times1[q] = times0[q]
    BY <1>6, <1>7
  <2>2. q[2] # "." => menu1[q] = menu0[q]
    BY <2>1, <1>5, PathParts
  <2> QED BY <2>1, <2>2 DEF Was
<1> HIDE DEF menu1, times1, directory
<1>9. AllAsRead(menu0, times0, read)
  BY <1>8 DEF AllAsRead
<1>10. /\ \A q \in there : menu0[q] # "none"
       /\ \A q \in gone : menu0[q] = "none"
       /\ playable = GamesAmong(menu0, told)
  BY <1>9 DEF Reliable
<1>11. \A q \in there \cup gone : menu1[q] = menu0[q]
  BY <1>4, <1>5 DEF Covered
<1>12. GamesAmong(menu1, told) = GamesAmong(menu0, told)
  <2>1. \A q \in told : menu1[q] = menu0[q]
    BY <1>4, <1>5, PathParts DEF Covered, Asked
  <2>2. {q \in told : Game(menu1, q)} = {q \in told : Game(menu0, q)}
    BY <2>1 DEF Game
  <2> QED BY <2>1, <2>2 DEF GamesAmong
<1> QED BY <1>10, <1>11, <1>12

\* An entry rewritten in place leaves a time of its own.
LEMMA RewrittenReliable ==
    ASSUME NEW menu0 \in [Entries -> EntryKinds], NEW times0 \in [Paths -> Int],
           NEW read, NEW there, NEW gone, NEW told, NEW playable,
           NEW p \in Entries, NEW kind, NEW stamp,
           menu0[p] # "none", kind # "none",
           Covered(read, there, gone, told),
           Reliable(menu0, times0, read, there, gone, told, playable),
           \A path \in DOMAIN read : read[path] # stamp
    PROVE  Reliable([menu0 EXCEPT ![p] = kind], [times0 EXCEPT ![p] = stamp],
                    read, there, gone, told, playable)
<1> DEFINE menu1 == [menu0 EXCEPT ![p] = kind]
           times1 == [times0 EXCEPT ![p] = stamp]
<1> SUFFICES ASSUME AllAsRead(menu1, times1, read)
             PROVE  /\ \A q \in there : menu1[q] # "none"
                    /\ \A q \in gone : menu1[q] = "none"
                    /\ playable = GamesAmong(menu1, told)
  BY DEF Reliable
<1>1. p \in Paths /\ p[2] # "."
  BY PathParts
<1>2. times1[p] = stamp /\ menu1[p] = kind
  BY <1>1
<1>3. p \notin DOMAIN read
  BY <1>2 DEF AllAsRead, Was
<1>5. \A q \in Entries \ {p} : menu1[q] = menu0[q]
  OBVIOUS
<1>6. \A q \in Paths \ {p} : times1[q] = times0[q]
  BY <1>1
<1>7. \A q \in DOMAIN read : q \in Paths /\ q # p
  BY <1>3 DEF Covered
<1>8. \A q \in DOMAIN read : Was(menu1, times1, q) = Was(menu0, times0, q)
  <2> HIDE DEF menu1, times1
  <2> SUFFICES ASSUME NEW q \in DOMAIN read
               PROVE  Was(menu1, times1, q) = Was(menu0, times0, q)
    OBVIOUS
  <2>1. q \in Paths /\ q # p /\ times1[q] = times0[q]
    BY <1>6, <1>7
  <2>2. q[2] # "." => menu1[q] = menu0[q]
    BY <2>1, <1>5, PathParts
  <2> QED BY <2>1, <2>2 DEF Was
<1> HIDE DEF menu1, times1
<1>9. AllAsRead(menu0, times0, read)
  BY <1>8 DEF AllAsRead
<1>10. /\ \A q \in there : menu0[q] # "none"
       /\ \A q \in gone : menu0[q] = "none"
       /\ playable = GamesAmong(menu0, told)
  BY <1>9 DEF Reliable
<1>11. \A q \in there \cup gone : (menu1[q] = "none") <=> (menu0[q] = "none")
  BY <1>2, <1>5 DEF Covered
<1>12. GamesAmong(menu1, told) = GamesAmong(menu0, told)
  <2>1. \A q \in told : menu1[q] = menu0[q]
    BY <1>3, <1>5, PathParts DEF Covered, Asked
  <2>2. {q \in told : Game(menu1, q)} = {q \in told : Game(menu0, q)}
    BY <2>1 DEF Game
  <2> QED BY <2>1, <2>2 DEF GamesAmong
<1> QED BY <1>10, <1>11, <1>12

LEMMA ReadIsNotStamp ==
    ASSUME clock \in Nat, NEW read, Past(read, clock)
    PROVE  \A path \in DOMAIN read : read[path] # Stamp
<1>1. TimeTick \in Nat /\ TimeTick > 0
  BY GameIndexAssumption
<1> QED BY <1>1, StampIsLate DEF Past

LEMMA UnderwayCovered ==
    ASSUME NEW b, Underway(b)
    PROVE  Covered(b.read, There(b), Gone(b), Told(b))
<1>1. There(b) \subseteq Entries /\ Gone(b) \subseteq Entries /\ DOMAIN b.read \subseteq Paths
  BY PathParts DEF Underway, There, Gone, Asked, Overruled
<1>2. Told(b) \subseteq Asked(b.read) /\ Told(b) \subseteq There(b)
  BY DEF Told, There
<1>3. \A i \in DOMAIN Locations : DirectoryRead(b, i) => <<i, ".">> \in DOMAIN b.read
  BY DEF Underway
<1>4. \A p \in Asked(b.read) : p[1] \in DOMAIN Locations /\ DirectoryRead(b, p[1])
  BY <1>1, PathParts DEF Underway, Asked
<1>5. \A p \in There(b) : p[1] \in DOMAIN Locations /\ DirectoryRead(b, p[1])
  BY <1>4, PathParts DEF There, Listed, DirectoryRead
<1>6. \A p \in Overruled(b.read) : p[1] \in DOMAIN Locations /\ DirectoryRead(b, p[1])
  <2> SUFFICES ASSUME NEW p \in Overruled(b.read)
               PROVE  p[1] \in DOMAIN Locations /\ DirectoryRead(b, p[1])
    OBVIOUS
  <2>1. PICK q \in Asked(b.read) : p[2] = q[2] /\ p[1] < q[1]
    BY DEF Overruled
  <2>2. p[1] \in DOMAIN Locations /\ p[1] \in Nat /\ q[1] \in Nat /\ b.at \in Nat
    BY <1>4, PathParts DEF Overruled, Underway
  <2> QED BY <1>4, <2>1, <2>2 DEF DirectoryRead
<1>7. \A p \in Gone(b) : p[1] \in DOMAIN Locations /\ DirectoryRead(b, p[1])
  BY <1>6, PathParts DEF Gone, GoneBy, Listed, DirectoryRead
<1> QED BY <1>1, <1>2, <1>3, <1>4, <1>5, <1>7 DEF Covered

LEMMA FinishedCovered ==
    ASSUME NEW read, Finished(read)
    PROVE  Covered(read, Asked(read), Overruled(read) \cup Unasked(read), Asked(read))
<1>1. Asked(read) \subseteq Entries /\ Overruled(read) \cup Unasked(read) \subseteq Entries
  BY PathParts DEF Finished, Asked, Overruled, Unasked
<1> QED BY <1>1, PathParts DEF Finished, Covered

\* What the packages installed change: an index being read and the one kept stay
\* what they are.
LEMMA MenuChanges ==
    ASSUME GameInv, NEW p \in Entries, NEW kind \in EntryKinds,
           \/ RewriteEntry(p, kind)
           \/ \E time \in {NoTime - TimeTick, Stamp} : ReplaceEntry(p, kind, time)
    PROVE  GameInv'
<1> USE DEF GameInv
<1>1. MenuTyped
  OBVIOUS
<1>2. Stamp \in Int /\ Stamp # NoTime /\ NoTime - TimeTick \in Int /\ NoTime - TimeTick # NoTime
  BY <1>1, StampIsLate, GameIndexAssumption DEF MenuTyped, NoTime
<1>3. p \in Paths /\ <<p[1], ".">> \in Paths
  BY PathParts
<1>4. UNCHANGED <<clock, index, building>>
  BY DEF RewriteEntry, ReplaceEntry
<1>5. MenuTyped'
  <2>1. CASE RewriteEntry(p, kind)
    <3>1. menu' = [menu EXCEPT ![p] = kind] /\ times' = [times EXCEPT ![p] = Stamp]
      BY <2>1 DEF RewriteEntry
    <3> QED BY <1>1, <1>2, <1>3, <1>4, <3>1 DEF MenuTyped
  <2>2. CASE \E time \in {NoTime - TimeTick, Stamp} : ReplaceEntry(p, kind, time)
    <3>1. PICK time \in {NoTime - TimeTick, Stamp} : ReplaceEntry(p, kind, time)
      BY <2>2
    <3>2. /\ menu' = [menu EXCEPT ![p] = kind]
          /\ times' = [times EXCEPT ![p] = time, ![<<p[1], ".">>] = Stamp]
      BY <3>1 DEF ReplaceEntry
    <3>3. time \in Int /\ time # NoTime
      BY <1>2
    <3> QED BY <1>1, <1>2, <1>3, <1>4, <3>2, <3>3 DEF MenuTyped
  <2> QED BY <2>1, <2>2
<1>6. ASSUME NEW read, NEW there, NEW gone, NEW told, NEW playable,
             Past(read, clock), Covered(read, there, gone, told),
             Reliable(menu, times, read, there, gone, told, playable)
      PROVE  Reliable(menu', times', read, there, gone, told, playable)
  <2>1. \A path \in DOMAIN read : read[path] # Stamp
    BY <1>1, <1>6, ReadIsNotStamp DEF MenuTyped
  <2>2. menu \in [Entries -> EntryKinds] /\ times \in [Paths -> Int]
    BY <1>1 DEF MenuTyped
  <2>3. CASE RewriteEntry(p, kind)
    <3>1. menu' = [menu EXCEPT ![p] = kind] /\ times' = [times EXCEPT ![p] = Stamp]
      BY <2>3 DEF RewriteEntry
    <3>2. menu[p] # "none" /\ kind # "none"
      BY <2>3 DEF RewriteEntry
    <3>3. Reliable([menu EXCEPT ![p] = kind], [times EXCEPT ![p] = Stamp],
                   read, there, gone, told, playable)
      BY <1>6, <2>1, <2>2, <3>2, RewrittenReliable
    <3> QED BY <3>1, <3>3
  <2>4. CASE \E time \in {NoTime - TimeTick, Stamp} : ReplaceEntry(p, kind, time)
    <3>1. PICK time \in {NoTime - TimeTick, Stamp} : ReplaceEntry(p, kind, time)
      BY <2>4
    <3>2. /\ menu' = [menu EXCEPT ![p] = kind]
          /\ times' = [times EXCEPT ![p] = time, ![<<p[1], ".">>] = Stamp]
      BY <3>1 DEF ReplaceEntry
    <3>3. Reliable([menu EXCEPT ![p] = kind],
                   [times EXCEPT ![p] = time, ![<<p[1], ".">>] = Stamp],
                   read, there, gone, told, playable)
      BY <1>6, <2>1, <2>2, ReplacedReliable
    <3> QED BY <3>2, <3>3
  <2> QED BY <2>3, <2>4
<1>7. BuildingInv'
  <2> SUFFICES ASSUME building.kept
               PROVE  /\ Underway(building)
                      /\ building.settled \in Int /\ building.settled <= clock - TimeTick
                      /\ Past(building.read, clock)
                      /\ Reliable(menu', times', building.read, There(building), Gone(building),
                                  Told(building), building.games)
    BY <1>4 DEF BuildingInv
  <2>1. /\ Underway(building)
        /\ building.settled \in Int /\ building.settled <= clock - TimeTick
        /\ Past(building.read, clock)
        /\ Reliable(menu, times, building.read, There(building), Gone(building), Told(building),
                    building.games)
    BY DEF BuildingInv
  <2>2. Covered(building.read, There(building), Gone(building), Told(building))
    BY <2>1, UnderwayCovered
  <2>3. Reliable(menu', times', building.read, There(building), Gone(building), Told(building),
                 building.games)
    BY <1>6, <2>1, <2>2
  <2> QED BY <2>1, <2>3
<1>8. IndexInv'
  <2> SUFFICES ASSUME index.kept
               PROVE  /\ Finished(index.read) /\ Past(index.read, clock)
                      /\ Reliable(menu', times', index.read, Asked(index.read),
                                  Overruled(index.read) \cup Unasked(index.read),
                                  Asked(index.read), index.games)
    BY <1>4 DEF IndexInv
  <2>1. /\ Finished(index.read) /\ Past(index.read, clock)
        /\ Reliable(menu, times, index.read, Asked(index.read),
                    Overruled(index.read) \cup Unasked(index.read), Asked(index.read), index.games)
    BY DEF IndexInv
  <2>2. Covered(index.read, Asked(index.read), Overruled(index.read) \cup Unasked(index.read),
                Asked(index.read))
    BY <2>1, FinishedCovered
  <2>3. Reliable(menu', times', index.read, Asked(index.read),
                 Overruled(index.read) \cup Unasked(index.read), Asked(index.read), index.games)
    BY <1>6, <2>1, <2>2
  <2> QED BY <2>1, <2>3
<1> QED BY <1>5, <1>7, <1>8

LEMMA TimePasses ==
    ASSUME GameInv, ClockPasses
    PROVE  GameInv'
<1>1. clock \in Nat /\ clock' = clock + 1 /\ UNCHANGED <<menu, times, index, building>>
  BY DEF ClockPasses, GameInv, MenuTyped
<1>2. TimeTick \in Nat
  BY GameIndexAssumption
<1>3. \A read : Past(read, clock) => Past(read, clock + 1)
  BY <1>1, <1>2 DEF Past
<1>4. MenuTyped'
  BY <1>1 DEF GameInv, MenuTyped
<1>5. BuildingInv'
  BY <1>1, <1>2, <1>3 DEF GameInv, BuildingInv
<1>6. IndexInv'
  BY <1>1, <1>3 DEF GameInv, IndexInv
<1> QED BY <1>4, <1>5, <1>6 DEF GameInv

-----------------------------------------------------------------------------
(* An index from one step of reading to the next.                          *)

LEMMA AfterDirectory ==
    ASSUME NEW b, Underway(b), b.step = "remember",
           NEW c, c = IndexFields(c), c.at = b.at, c.step = "list", c.todo = b.todo, c.seen = b.seen,
           DOMAIN c.read = DOMAIN b.read \cup {<<b.at, ".">>}
    PROVE  Underway(c) /\ There(c) = There(b) /\ Gone(c) = Gone(b) /\ Told(c) = Told(b)
<1>1. Asked(c.read) = Asked(b.read)
  BY DEF Asked
<1>2. There(c) = There(b) /\ Told(c) = Told(b)
  BY <1>1 DEF There, Told, Listed
<1>3. Gone(c) = Gone(b)
  BY <1>1 DEF Gone, Overruled, IsAsked, GoneBy, Listed
<1>4. /\ c.at \in DOMAIN Locations /\ c.step \in Steps /\ c.todo \subseteq EntryIds
      /\ DOMAIN c.read \subseteq Paths /\ c.step # "content"
  BY PathParts DEF Underway, Steps
<1>5. \A i \in DOMAIN Locations : <<i, ".">> \in DOMAIN c.read <=> DirectoryRead(c, i)
  BY DEF Underway, DirectoryRead
<1>6. \A p \in Asked(c.read) : DirectoryRead(c, p[1])
  BY <1>1 DEF Underway, DirectoryRead
<1>7. c.seen = {n \in EntryIds : IsAsked(c.read, n)}
  BY <1>1 DEF Underway, IsAsked
<1> QED BY <1>2, <1>3, <1>4, <1>5, <1>6, <1>7 DEF Underway

LEMMA AfterListing ==
    ASSUME NEW b, Underway(b), b.step = "list",
           NEW c, c = IndexFields(c), c.at = b.at, c.step = "entry", c.todo \subseteq EntryIds,
           c.seen = b.seen, c.read = b.read
    PROVE  /\ Underway(c)
           /\ There(c) \subseteq There(b) \cup {q \in Entries : q[1] = b.at /\ q[2] \in c.todo}
           /\ Gone(c) \subseteq Gone(b) \cup {q \in Entries : q[1] = b.at /\ q[2] \notin c.todo}
           /\ Told(c) = Told(b)
<1>1. There(c) \subseteq There(b) \cup {q \in Entries : q[1] = b.at /\ q[2] \in c.todo}
  BY DEF There
<1>2. Gone(c) \subseteq Gone(b) \cup {q \in Entries : q[1] = b.at /\ q[2] \notin c.todo}
  BY DEF Gone, GoneBy
<1>3. Told(c) = Told(b)
  BY DEF Told
<1>4. Underway(c)
  BY DEF Underway, Steps, DirectoryRead
<1> QED BY <1>1, <1>2, <1>3, <1>4

LEMMA AfterHidden ==
    ASSUME NEW b, Underway(b), b.step = "entry", NEW n \in b.seen,
           NEW c, c = IndexFields(c), c.at = b.at, c.step = b.step, c.todo = b.todo \ {n},
           c.seen = b.seen, c.read = b.read
    PROVE  /\ Underway(c)
           /\ There(c) \subseteq There(b) /\ Gone(c) \subseteq Gone(b) /\ Told(c) = Told(b)
<1>1. There(c) \subseteq There(b)
  BY DEF There, Listed
<1>2. IsAsked(b.read, n)
  BY DEF Underway
<1>3. Gone(c) \subseteq Gone(b)
  BY <1>2 DEF Gone, GoneBy, Listed
<1>4. Told(c) = Told(b)
  BY DEF Told
<1>5. Underway(c)
  BY DEF Underway, Steps, DirectoryRead
<1> QED BY <1>1, <1>3, <1>4, <1>5

LEMMA AfterEntry ==
    ASSUME NEW b, Underway(b), b.step = "entry", NEW n \in b.todo, n \notin b.seen,
           NEW c, c = IndexFields(c), c.at = b.at, c.step = "content", c.entry = n, c.todo = b.todo,
           c.seen = b.seen \cup {n}, DOMAIN c.read = DOMAIN b.read \cup {<<b.at, n>>}
    PROVE  /\ Underway(c) /\ <<b.at, n>> \in Paths /\ <<b.at, n>> \notin DOMAIN b.read
           /\ There(c) \subseteq There(b) /\ Gone(c) \subseteq Gone(b) /\ Told(c) = Told(b)
<1> DEFINE new == <<b.at, n>>
<1>1. new \in Entries /\ new \in Paths /\ new[2] # "." /\ new[1] = b.at /\ new[2] = n
  BY PathParts DEF Underway
<1>2. ~IsAsked(b.read, n)
  BY DEF Underway
<1>3. new \notin DOMAIN b.read
  BY <1>1, <1>2 DEF IsAsked, Asked
<1>4. Asked(c.read) = Asked(b.read) \cup {new}
  BY <1>1 DEF Asked
<1> HIDE DEF new
<1>5. There(c) \subseteq There(b)
  BY <1>1, <1>4 DEF There, Listed
<1>6. Told(c) = Told(b)
  <2>1. new \notin Asked(b.read)
    BY <1>3 DEF Asked
  <2> QED BY <1>4, <2>1 DEF Told, new
<1>7. \A m : IsAsked(b.read, m) => IsAsked(c.read, m)
  BY <1>4 DEF IsAsked
<1>8. Gone(c) \subseteq Gone(b)
  <2>1. ASSUME NEW q \in Overruled(c.read)
        PROVE  q \in Gone(b)
    <3>1. PICK p \in Asked(c.read) : p[2] = q[2] /\ q[1] < p[1]
      BY <2>1 DEF Overruled
    <3>2. CASE p = new
      BY <1>1, <1>2, <2>1, <3>1, <3>2 DEF Gone, Overruled, GoneBy
    <3>3. CASE p # new
      BY <1>4, <2>1, <3>1, <3>3 DEF Gone, Overruled
    <3> QED BY <3>2, <3>3
  <2>2. ASSUME NEW q \in Entries, ~IsAsked(c.read, q[2]), GoneBy(c, q)
        PROVE  q \in Gone(b)
    BY <1>7, <2>2 DEF Gone, GoneBy, Listed
  <2> QED BY <2>1, <2>2 DEF Gone
<1>9. Underway(c)
  <2>1. /\ c.at \in DOMAIN Locations /\ c.step \in Steps /\ c.todo \subseteq EntryIds
        /\ DOMAIN c.read \subseteq Paths
    BY <1>1 DEF Underway, Steps, new
  <2>2. \A i \in DOMAIN Locations : <<i, ".">> \in DOMAIN c.read <=> DirectoryRead(c, i)
    <3>1. \A i \in DOMAIN Locations : <<i, ".">> # new
      BY <1>1, PathParts
    <3>2. \A i : DirectoryRead(c, i) <=> DirectoryRead(b, i)
      BY DEF DirectoryRead
    <3>3. \A i \in DOMAIN Locations : <<i, ".">> \in DOMAIN b.read <=> DirectoryRead(b, i)
      BY DEF Underway
    <3> QED BY <3>1, <3>2, <3>3 DEF new
  <2>3. \A p \in Asked(c.read) : DirectoryRead(c, p[1])
    BY <1>1, <1>4 DEF Underway, DirectoryRead
  <2>4. c.seen = {m \in EntryIds : IsAsked(c.read, m)}
    BY <1>1, <1>4 DEF Underway, IsAsked
  <2>5. c.entry \in c.todo /\ <<c.at, c.entry>> \in Asked(c.read)
    BY <1>4 DEF new
  <2> QED BY <2>1, <2>2, <2>3, <2>4, <2>5 DEF Underway
<1> QED BY <1>1, <1>3, <1>5, <1>6, <1>8, <1>9 DEF new

LEMMA AfterContent ==
    ASSUME NEW b, Underway(b), b.step = "content",
           NEW c, c = IndexFields(c), c.at = b.at, c.step = "entry", c.todo = b.todo \ {b.entry},
           c.seen = b.seen, c.read = b.read
    PROVE  /\ Underway(c)
           /\ There(c) \subseteq There(b) /\ Gone(c) \subseteq Gone(b)
           /\ Told(c) = Told(b) \cup {<<b.at, b.entry>>} /\ <<b.at, b.entry>> \notin Told(b)
<1>1. <<b.at, b.entry>> \in Asked(b.read)
  BY DEF Underway
<1>2. IsAsked(b.read, b.entry)
  BY <1>1 DEF IsAsked
<1>3. There(c) \subseteq There(b)
  BY DEF There, Listed
<1>4. Gone(c) \subseteq Gone(b)
  BY <1>2 DEF Gone, GoneBy, Listed
<1>5. Told(c) = Told(b) \cup {<<b.at, b.entry>>} /\ <<b.at, b.entry>> \notin Told(b)
  BY <1>1 DEF Told
<1>6. Underway(c)
  BY DEF Underway, Steps, DirectoryRead
<1> QED BY <1>3, <1>4, <1>5, <1>6

LEMMA AfterLeaving ==
    ASSUME NEW b, Underway(b), b.step = "entry", b.todo = {}, b.at < Len(Locations),
           NEW c, c = IndexFields(c), c.at = b.at + 1, c.step = "remember", c.todo = b.todo,
           c.seen = b.seen, c.read = b.read
    PROVE  /\ Underway(c)
           /\ There(c) \subseteq There(b) /\ Gone(c) \subseteq Gone(b) /\ Told(c) = Told(b)
<1>1. b.at \in Nat /\ c.at \in DOMAIN Locations
  BY GameIndexAssumption DEF Underway
<1>2. There(c) \subseteq There(b)
  BY DEF There, Listed
<1>3. Gone(c) \subseteq Gone(b)
  <2>1. \A q \in Entries : q[1] \in Nat
    BY PathParts
  <2>2. \A q \in Entries : GoneBy(c, q) => GoneBy(b, q)
    BY <1>1, <2>1 DEF GoneBy, Listed
  <2> QED BY <2>2 DEF Gone
<1>4. Told(c) = Told(b)
  BY DEF Told
<1>5. \A i \in DOMAIN Locations : DirectoryRead(c, i) <=> DirectoryRead(b, i)
  <2>1. \A i \in DOMAIN Locations : i \in Nat
    BY PathParts
  <2> SUFFICES ASSUME NEW i \in DOMAIN Locations
               PROVE  DirectoryRead(c, i) <=> DirectoryRead(b, i)
    OBVIOUS
  <2>2. DirectoryRead(b, i) <=> i < b.at \/ i = b.at
    BY DEF DirectoryRead
  <2>3. DirectoryRead(c, i) <=> i < b.at + 1
    BY DEF DirectoryRead
  <2>4. i < b.at + 1 <=> i < b.at \/ i = b.at
    BY <1>1, <2>1
  <2> QED BY <2>2, <2>3, <2>4
<1>6. Underway(c)
  <2>1. \A p \in Asked(b.read) : p[1] \in DOMAIN Locations
    BY PathParts DEF Underway, Asked
  <2> QED BY <1>1, <1>5, <2>1 DEF Underway, Steps
<1> QED BY <1>2, <1>3, <1>4, <1>6

LEMMA AtTheEnd ==
    ASSUME NEW b, Underway(b), b.step = "entry", b.todo = {}, ~(b.at < Len(Locations))
    PROVE  /\ Finished(b.read) /\ Told(b) = Asked(b.read) /\ Asked(b.read) \subseteq There(b)
           /\ Overruled(b.read) \cup Unasked(b.read) \subseteq Gone(b)
<1>1. b.at \in Nat /\ \A i \in DOMAIN Locations : i \in Nat /\ i <= b.at
  BY GameIndexAssumption DEF Underway
<1>2. Finished(b.read)
  BY <1>1 DEF Underway, Finished, DirectoryRead
<1>3. Told(b) = Asked(b.read) /\ Asked(b.read) \subseteq There(b)
  BY DEF Told, There
<1>4. Overruled(b.read) \cup Unasked(b.read) \subseteq Gone(b)
  <2>1. \A q \in Entries : q[1] \in Nat /\ q[1] <= b.at
    BY <1>1, PathParts
  <2>2. \A q \in Entries : GoneBy(b, q)
    BY <1>1, <2>1 DEF GoneBy, Listed
  <2> QED BY <2>2 DEF Gone, Unasked
<1> QED BY <1>2, <1>3, <1>4

-----------------------------------------------------------------------------
(* The steps of reading.                                                   *)

\* A path remembered is either read again for its time, or had its time from before
\* anything that can change from now on.
LEMMA Remembers ==
    ASSUME MenuTyped, building.settled \in Int, building.settled <= clock - TimeTick,
           NEW read, Past(read, clock), NEW path \in Paths, path \notin DOMAIN read
    PROVE  /\ DOMAIN With(read, path) = DOMAIN read \cup {path}
           /\ Past(With(read, path), clock)
           /\ AllAsRead(menu, times, With(read, path)) => AllAsRead(menu, times, read)
<1> DEFINE noted == TimeKept(ModifiedAt(path))
<1>1. ModifiedAt(path) \in Int
  BY DEF MenuTyped, ModifiedAt, NoTime
<1>2. TimeTick \in Nat /\ clock \in Nat
  BY GameIndexAssumption DEF MenuTyped
<1>3. noted \in Int /\ (noted = NoTime \/ noted <= clock - TimeTick)
  BY <1>1, <1>2 DEF TimeKept, NoTime
<1> HIDE DEF noted
<1>4. /\ DOMAIN With(read, path) = DOMAIN read \cup {path}
      /\ With(read, path)[path] = noted
      /\ \A p \in DOMAIN read : With(read, path)[p] = read[p]
  BY DEF With, noted
<1>5. Past(With(read, path), clock)
  BY <1>3, <1>4 DEF Past
<1>6. AllAsRead(menu, times, With(read, path)) => AllAsRead(menu, times, read)
  BY <1>4 DEF AllAsRead
<1> QED BY <1>4, <1>5, <1>6

LEMMA LessReliable ==
    ASSUME NEW menu0, NEW times0, NEW playable,
           NEW read, NEW there, NEW gone, NEW told,
           NEW read2, NEW there2, NEW gone2,
           Reliable(menu0, times0, read, there, gone, told, playable),
           AllAsRead(menu0, times0, read2) => AllAsRead(menu0, times0, read),
           \A p \in there2 : p \in there \/ menu0[p] # "none",
           \A p \in gone2 : p \in gone \/ menu0[p] = "none"
    PROVE  Reliable(menu0, times0, read2, there2, gone2, told, playable)
BY DEF Reliable

\* Of the index being read.
BuildingNow(b) ==
    /\ Underway(b)
    /\ b.settled \in Int /\ b.settled <= clock - TimeTick
    /\ Past(b.read, clock)
    /\ Reliable(menu, times, b.read, There(b), Gone(b), Told(b), b.games)

LEMMA StepsOn ==
    ASSUME GameInv, UNCHANGED <<clock, menu, times, index>>, BuildingNow(building')
    PROVE  GameInv'
BY DEF GameInv, MenuTyped, IndexInv, BuildingInv, BuildingNow

LEMMA Begins ==
    ASSUME GameInv, BeginIndex
    PROVE  GameInv'
<1>1. clock \in Nat /\ TimeTick \in Nat /\ Settling \in Nat /\ TimeTick <= Settling
  BY GameIndexAssumption DEF GameInv, MenuTyped
<1>2. building' = [kept |-> TRUE, settled |-> clock - Settling, at |-> 1, step |-> "remember",
                   todo |-> {}, entry |-> ".", seen |-> {}, read |-> NothingRead, games |-> {}]
  BY DEF BeginIndex
<1>3. /\ building'.settled = clock - Settling /\ building'.at = 1 /\ building'.step = "remember"
      /\ building'.todo = {} /\ building'.seen = {} /\ building'.read = NothingRead
      /\ building'.games = {} /\ building' = IndexFields(building')
  BY <1>2 DEF IndexFields
<1>4. DOMAIN building'.read = {} /\ Asked(building'.read) = {}
  BY <1>3 DEF NothingRead, Asked
<1>5. 1 \in DOMAIN Locations /\ \A i \in DOMAIN Locations : i \in Nat /\ 1 <= i
  BY GameIndexAssumption
<1>6. Underway(building')
  <2>1. \A i \in DOMAIN Locations : ~DirectoryRead(building', i)
    BY <1>3, <1>5 DEF DirectoryRead
  <2>2. \A n \in EntryIds : ~IsAsked(building'.read, n)
    BY <1>4 DEF IsAsked
  <2> QED BY <1>3, <1>4, <1>5, <2>1, <2>2 DEF Underway, Steps
<1>7. Told(building') = {} /\ There(building') = {} /\ Gone(building') = {}
  <2>1. Told(building') = {} /\ There(building') = {}
    BY <1>3, <1>4 DEF Told, There, Listed
  <2>2. \A q \in Entries : ~GoneBy(building', q)
    <3>1. \A q \in Entries : q[1] \in Nat /\ 1 <= q[1]
      BY <1>5, PathParts
    <3> QED BY <1>3, <3>1 DEF GoneBy, Listed
  <2>3. Overruled(building'.read) = {}
    BY <1>4 DEF Overruled
  <2> QED BY <2>1, <2>2, <2>3 DEF Gone
<1>8. Reliable(menu, times, building'.read, There(building'), Gone(building'), Told(building'),
               building'.games)
  <2>1. GamesAmong(menu, {}) = {}
    BY DEF GamesAmong
  <2> QED BY <1>3, <1>7, <2>1 DEF Reliable
<1>9. Past(building'.read, clock)
  BY <1>4 DEF Past
<1>10. building'.settled \in Int /\ building'.settled <= clock - TimeTick
  BY <1>1, <1>3
<1>11. UNCHANGED <<clock, menu, times, index>>
  BY DEF BeginIndex
<1>12. BuildingNow(building')
  BY <1>6, <1>8, <1>9, <1>10, <1>11 DEF BuildingNow
<1> QED BY <1>11, <1>12, StepsOn

LEMMA DirectoryRemembered ==
    ASSUME GameInv, RememberDirectory
    PROVE  GameInv'
<1> DEFINE path == <<building.at, ".">>
<1>1. BuildingNow(building) /\ building.step = "remember" /\ MenuTyped
  BY DEF GameInv, BuildingInv, BuildingNow, RememberDirectory, IndexStep
<1>2. building' = [building EXCEPT !.read = With(@, path), !.step = "list"]
  BY DEF RememberDirectory
<1>3. building = IndexFields(building)
  BY <1>1 DEF BuildingNow, Underway
<1>4. /\ building'.read = With(building.read, path) /\ building'.step = "list"
      /\ building'.at = building.at /\ building'.todo = building.todo
      /\ building'.seen = building.seen /\ building'.settled = building.settled
      /\ building'.games = building.games /\ building' = IndexFields(building')
  BY <1>2, <1>3 DEF IndexFields
<1>5. path \in Paths /\ path \notin DOMAIN building.read
  <2>1. building.at \in DOMAIN Locations /\ ~DirectoryRead(building, building.at)
    BY <1>1, PathParts DEF BuildingNow, Underway, DirectoryRead
  <2> QED BY <1>1, <2>1, PathParts DEF BuildingNow, Underway
<1> HIDE DEF path
<1>6. /\ DOMAIN building'.read = DOMAIN building.read \cup {path}
      /\ Past(building'.read, clock)
      /\ AllAsRead(menu, times, building'.read) => AllAsRead(menu, times, building.read)
  BY <1>1, <1>4, <1>5, Remembers DEF BuildingNow
<1>7. /\ Underway(building') /\ There(building') = There(building)
      /\ Gone(building') = Gone(building) /\ Told(building') = Told(building)
  BY <1>1, <1>4, <1>6, AfterDirectory DEF BuildingNow, path
<1>8. Reliable(menu, times, building'.read, There(building'), Gone(building'), Told(building'),
               building'.games)
  BY <1>1, <1>4, <1>6, <1>7 DEF Reliable, BuildingNow
<1>9. UNCHANGED <<clock, menu, times, index>>
  BY DEF RememberDirectory, IndexStep
<1>10. BuildingNow(building')
  BY <1>1, <1>4, <1>6, <1>7, <1>8 DEF BuildingNow
<1> QED BY <1>9, <1>10, StepsOn

LEMMA DirectoryListed ==
    ASSUME GameInv, ListDirectory
    PROVE  GameInv'
<1> DEFINE todo == {n \in EntryIds : menu[<<building.at, n>>] # "none"}
<1>1. BuildingNow(building) /\ building.step = "list"
  BY DEF GameInv, BuildingInv, BuildingNow, ListDirectory, IndexStep
<1>2. building' = [building EXCEPT !.step = "entry", !.todo = todo]
  BY DEF ListDirectory
<1>3. building = IndexFields(building)
  BY <1>1 DEF BuildingNow, Underway
<1>4. /\ building'.read = building.read /\ building'.step = "entry"
      /\ building'.at = building.at /\ building'.todo = todo
      /\ building'.seen = building.seen /\ building'.settled = building.settled
      /\ building'.games = building.games /\ building' = IndexFields(building')
  BY <1>2, <1>3 DEF IndexFields
<1>5. /\ Underway(building')
      /\ There(building') \subseteq
             There(building) \cup {q \in Entries : q[1] = building.at /\ q[2] \in building'.todo}
      /\ Gone(building') \subseteq
             Gone(building) \cup {q \in Entries : q[1] = building.at /\ q[2] \notin building'.todo}
      /\ Told(building') = Told(building)
  BY <1>1, <1>4, AfterListing DEF BuildingNow
<1>6. \A q \in Entries : q[1] = building.at =>
          (q[2] \in building'.todo <=> menu[q] # "none")
  <2> SUFFICES ASSUME NEW q \in Entries, q[1] = building.at
               PROVE  q[2] \in building'.todo <=> menu[q] # "none"
    OBVIOUS
  <2>1. q = <<building.at, q[2]>> /\ q[2] \in EntryIds
    BY PathParts
  <2> QED BY <1>4, <2>1
<1> HIDE DEF todo
<1>7. Reliable(menu, times, building'.read, There(building'), Gone(building'), Told(building'),
               building'.games)
  <2>1. \A p \in There(building') : p \in There(building) \/ menu[p] # "none"
    BY <1>5, <1>6
  <2>2. \A p \in Gone(building') : p \in Gone(building) \/ menu[p] = "none"
    BY <1>5, <1>6
  <2>3. Reliable(menu, times, building.read, There(building), Gone(building), Told(building),
                 building.games)
    BY <1>1 DEF BuildingNow
  <2>4. Reliable(menu, times, building'.read, There(building'), Gone(building'), Told(building),
                 building.games)
    BY <1>4, <2>1, <2>2, <2>3, LessReliable
  <2> QED BY <1>4, <1>5, <2>4
<1>8. UNCHANGED <<clock, menu, times, index>>
  BY DEF ListDirectory, IndexStep
<1>9. BuildingNow(building')
  BY <1>1, <1>4, <1>5, <1>7 DEF BuildingNow
<1> QED BY <1>8, <1>9, StepsOn

LEMMA EntryRemembered ==
    ASSUME GameInv, RememberEntry
    PROVE  GameInv'
<1>1. BuildingNow(building) /\ building.step = "entry" /\ MenuTyped
  BY DEF GameInv, BuildingInv, BuildingNow, RememberEntry, IndexStep
<1>2. PICK n \in building.todo :
          building' = IF n \in building.seen THEN [building EXCEPT !.todo = @ \ {n}]
                      ELSE [building EXCEPT !.seen = @ \cup {n},
                                            !.read = With(@, <<building.at, n>>),
                                            !.step = "content", !.entry = n]
  BY DEF RememberEntry
<1>3. building = IndexFields(building)
  BY <1>1 DEF BuildingNow, Underway
<1>4. UNCHANGED <<clock, menu, times, index>>
  BY DEF RememberEntry, IndexStep
<1>5. Reliable(menu, times, building.read, There(building), Gone(building), Told(building),
               building.games)
  BY <1>1 DEF BuildingNow
<1>6. CASE n \in building.seen
  <2>1. /\ building'.read = building.read /\ building'.step = building.step
        /\ building'.at = building.at /\ building'.todo = building.todo \ {n}
        /\ building'.seen = building.seen /\ building'.settled = building.settled
        /\ building'.games = building.games /\ building' = IndexFields(building')
    BY <1>2, <1>3, <1>6 DEF IndexFields
  <2>2. /\ Underway(building') /\ There(building') \subseteq There(building)
        /\ Gone(building') \subseteq Gone(building) /\ Told(building') = Told(building)
    BY <1>1, <1>6, <2>1, AfterHidden DEF BuildingNow
  <2>3. Reliable(menu, times, building'.read, There(building'), Gone(building'), Told(building),
                 building.games)
    BY <1>5, <2>1, <2>2, LessReliable
  <2>4. BuildingNow(building')
    BY <1>1, <2>1, <2>2, <2>3 DEF BuildingNow
  <2> QED BY <1>4, <2>4, StepsOn
<1>7. CASE n \notin building.seen
  <2> DEFINE path == <<building.at, n>>
  <2>1. building' = [building EXCEPT !.seen = @ \cup {n}, !.read = With(@, path),
                                     !.step = "content", !.entry = n]
    BY <1>2, <1>7
  <2>2. path \in Paths /\ path \notin DOMAIN building.read
    <3>1. path \in Entries
      BY <1>1, PathParts DEF BuildingNow, Underway
    <3>2. ~IsAsked(building.read, n)
      BY <1>1, <1>7 DEF BuildingNow, Underway
    <3>3. path \in Paths /\ path[2] = n /\ n # "."
      BY <3>1, PathParts
    <3>4. path \notin DOMAIN building.read
      BY <3>2, <3>3 DEF IsAsked, Asked
    <3> QED BY <3>3, <3>4
  <2> HIDE DEF path
  <2>3. /\ building'.read = With(building.read, path) /\ building'.step = "content"
        /\ building'.at = building.at /\ building'.todo = building.todo /\ building'.entry = n
        /\ building'.seen = building.seen \cup {n} /\ building'.settled = building.settled
        /\ building'.games = building.games /\ building' = IndexFields(building')
    BY <1>3, <2>1 DEF IndexFields
  <2>4. /\ DOMAIN building'.read = DOMAIN building.read \cup {path}
        /\ Past(building'.read, clock)
        /\ AllAsRead(menu, times, building'.read) => AllAsRead(menu, times, building.read)
    BY <1>1, <2>2, <2>3, Remembers DEF BuildingNow
  <2>5. /\ Underway(building') /\ There(building') \subseteq There(building)
        /\ Gone(building') \subseteq Gone(building) /\ Told(building') = Told(building)
    BY <1>1, <1>7, <2>3, <2>4, AfterEntry DEF BuildingNow, path
  <2>6. Reliable(menu, times, building'.read, There(building'), Gone(building'), Told(building),
                 building.games)
    BY <1>5, <2>4, <2>5, LessReliable
  <2>7. BuildingNow(building')
    BY <1>1, <2>3, <2>4, <2>5, <2>6 DEF BuildingNow
  <2> QED BY <1>4, <2>7, StepsOn
<1> QED BY <1>6, <1>7

LEMMA ContentRead ==
    ASSUME GameInv, ReadEntry
    PROVE  GameInv'
<1> DEFINE p == <<building.at, building.entry>>
           playable == IF menu[p] \in {"none", "plain", "hidden"} THEN building.games
                    ELSE building.games \cup {[id |-> building.entry, kind |-> menu[p]]}
<1>1. BuildingNow(building) /\ building.step = "content"
  BY DEF GameInv, BuildingInv, BuildingNow, ReadEntry, IndexStep
<1>2. building' = [building EXCEPT !.step = "entry", !.todo = @ \ {building.entry}, !.games = playable]
  BY DEF ReadEntry
<1> HIDE DEF playable
<1>3. building = IndexFields(building)
  BY <1>1 DEF BuildingNow, Underway
<1>4. /\ building'.read = building.read /\ building'.step = "entry"
      /\ building'.at = building.at /\ building'.todo = building.todo \ {building.entry}
      /\ building'.seen = building.seen /\ building'.settled = building.settled
      /\ building'.games = playable /\ building' = IndexFields(building')
  BY <1>2, <1>3 DEF IndexFields
<1>5. /\ Underway(building') /\ There(building') \subseteq There(building)
      /\ Gone(building') \subseteq Gone(building)
      /\ Told(building') = Told(building) \cup {p} /\ p \notin Told(building)
  BY <1>1, <1>4, AfterContent DEF BuildingNow
<1>6. Reliable(menu, times, building.read, There(building), Gone(building), Told(building),
               building.games)
  BY <1>1 DEF BuildingNow
<1>7. GamesAmong(menu, Told(building')) =
          IF Game(menu, p) THEN GamesAmong(menu, Told(building)) \cup {[id |-> p[2], kind |-> menu[p]]}
          ELSE GamesAmong(menu, Told(building))
  <2> HIDE DEF p
  <2>1. \A told : GamesAmong(menu, told \cup {p}) =
            IF Game(menu, p) THEN GamesAmong(menu, told) \cup {[id |-> p[2], kind |-> menu[p]]}
            ELSE GamesAmong(menu, told)
    BY DEF GamesAmong
  <2> QED BY <1>5, <2>1
<1>8. Reliable(menu, times, building'.read, There(building'), Gone(building'), Told(building'),
               building'.games)
  <2> SUFFICES ASSUME AllAsRead(menu, times, building.read)
               PROVE  /\ \A q \in There(building') : menu[q] # "none"
                      /\ \A q \in Gone(building') : menu[q] = "none"
                      /\ playable = GamesAmong(menu, Told(building'))
    BY <1>4 DEF Reliable
  <2>1. /\ \A q \in There(building) : menu[q] # "none"
        /\ \A q \in Gone(building) : menu[q] = "none"
        /\ building.games = GamesAmong(menu, Told(building))
    BY <1>6 DEF Reliable
  <2>2. playable = GamesAmong(menu, Told(building'))
    BY <1>7, <2>1 DEF playable, Game
  <2> QED BY <1>5, <2>1, <2>2
<1>9. UNCHANGED <<clock, menu, times, index>>
  BY DEF ReadEntry, IndexStep
<1>10. BuildingNow(building')
  BY <1>1, <1>4, <1>5, <1>8 DEF BuildingNow
<1> QED BY <1>9, <1>10, StepsOn

LEMMA DirectoryLeft ==
    ASSUME GameInv, LeaveDirectory
    PROVE  GameInv'
<1>1. BuildingNow(building) /\ building.step = "entry" /\ building.todo = {}
  BY DEF GameInv, BuildingInv, BuildingNow, LeaveDirectory, IndexStep
<1>2. UNCHANGED <<clock, menu, times>>
  BY DEF LeaveDirectory, IndexStep
<1>3. building = IndexFields(building)
  BY <1>1 DEF BuildingNow, Underway
<1>4. Reliable(menu, times, building.read, There(building), Gone(building), Told(building),
               building.games)
  BY <1>1 DEF BuildingNow
<1>5. CASE building.at < Len(Locations)
  <2>1. building' = [building EXCEPT !.at = @ + 1, !.step = "remember"] /\ UNCHANGED index
    BY <1>5 DEF LeaveDirectory
  <2>2. /\ building'.read = building.read /\ building'.step = "remember"
        /\ building'.at = building.at + 1 /\ building'.todo = building.todo
        /\ building'.seen = building.seen /\ building'.settled = building.settled
        /\ building'.games = building.games /\ building' = IndexFields(building')
    BY <1>3, <2>1 DEF IndexFields
  <2>3. /\ Underway(building') /\ There(building') \subseteq There(building)
        /\ Gone(building') \subseteq Gone(building) /\ Told(building') = Told(building)
    BY <1>1, <1>5, <2>2, AfterLeaving DEF BuildingNow
  <2>4. Reliable(menu, times, building'.read, There(building'), Gone(building'), Told(building),
                 building.games)
    BY <1>4, <2>2, <2>3, LessReliable
  <2>5. BuildingNow(building')
    BY <1>1, <2>2, <2>3, <2>4 DEF BuildingNow
  <2> QED BY <1>2, <2>1, <2>5, StepsOn
<1>6. CASE ~(building.at < Len(Locations))
  <2>1. /\ building' = NoIndex
        /\ index' = [kept |-> TRUE, read |-> building.read, games |-> building.games]
    BY <1>6 DEF LeaveDirectory
  <2>2. /\ Finished(building.read) /\ Told(building) = Asked(building.read)
        /\ Asked(building.read) \subseteq There(building)
        /\ Overruled(building.read) \cup Unasked(building.read) \subseteq Gone(building)
    BY <1>1, <1>6, AtTheEnd DEF BuildingNow
  <2>3. Reliable(menu, times, building.read, Asked(building.read),
                 Overruled(building.read) \cup Unasked(building.read), Told(building),
                 building.games)
    BY <1>4, <2>2, LessReliable
  <2>4. index'.read = building.read /\ index'.games = building.games
    BY <2>1
  <2>5. IndexInv'
    BY <1>1, <1>2, <2>2, <2>3, <2>4 DEF IndexInv, BuildingNow
  <2>6. MenuTyped' /\ BuildingInv'
    BY <1>2, <2>1 DEF GameInv, MenuTyped, BuildingInv, NoIndex
  <2> QED BY <2>5, <2>6 DEF GameInv
<1> QED BY <1>5, <1>6

-----------------------------------------------------------------------------
LEMMA GamesStart == GameInit => GameInv
<1> SUFFICES ASSUME GameInit
             PROVE  GameInv
  OBVIOUS
<1>1. MenuTyped
  BY GameIndexAssumption DEF GameInit, MenuTyped, NoTime
<1> QED BY <1>1 DEF GameInit, GameInv, BuildingInv, IndexInv, NoIndex

LEMMA GameSteps == GameInv /\ [GameNext]_gameVars => GameInv'
<1> SUFFICES ASSUME GameInv, [GameNext]_gameVars
             PROVE  GameInv'
  OBVIOUS
<1>1. CASE UNCHANGED gameVars
  BY <1>1 DEF gameVars, GameInv, MenuTyped, BuildingInv, IndexInv
<1>2. CASE ClockPasses
  BY <1>2, TimePasses
<1>3. CASE BeginIndex
  BY <1>3, Begins
<1>4. CASE RememberDirectory
  BY <1>4, DirectoryRemembered
<1>5. CASE ListDirectory
  BY <1>5, DirectoryListed
<1>6. CASE RememberEntry
  BY <1>6, EntryRemembered
<1>7. CASE ReadEntry
  BY <1>7, ContentRead
<1>8. CASE LeaveDirectory
  BY <1>8, DirectoryLeft
<1>9. ASSUME NEW p \in Entries, NEW kind \in EntryKinds,
             \/ RewriteEntry(p, kind)
             \/ \E time \in {NoTime - TimeTick, Stamp} : ReplaceEntry(p, kind, time)
      PROVE  GameInv'
  BY <1>9, MenuChanges
<1> QED BY <1>1, <1>2, <1>3, <1>4, <1>5, <1>6, <1>7, <1>8, <1>9 DEF GameNext

\* An index to its end says of every name that it is missing everywhere, or which
\* entry is the first of that name.
LEMMA GameInvTells ==
    ASSUME GameInv, IndexCurrent
    PROVE  index.games = MenuGames
<1> DEFINE read == index.read
           tried == Asked(read)
           Foremost(q) == \A j \in 1..(q[1] - 1) : menu[<<j, q[2]>>] = "none"
<1>1. /\ Finished(read)
      /\ Reliable(menu, times, read, tried, Overruled(read) \cup Unasked(read), tried, index.games)
  BY DEF GameInv, IndexInv, IndexCurrent
<1>2. AllAsRead(menu, times, read)
  BY DEF IndexCurrent, AllAsRead, ModifiedAt, Was
<1>3. /\ \A p \in tried : menu[p] # "none"
      /\ \A p \in Overruled(read) \cup Unasked(read) : menu[p] = "none"
      /\ index.games = GamesAmong(menu, tried)
  BY <1>1, <1>2 DEF Reliable
<1>4. tried \subseteq Entries
  BY <1>1, PathParts DEF Finished, Asked
<1>5. ASSUME NEW q \in tried, NEW j \in 1..(q[1] - 1)
      PROVE  menu[<<j, q[2]>>] = "none"
  <2>1. q[1] \in DOMAIN Locations /\ q[1] \in Nat /\ q[2] \in EntryIds
    BY <1>4, PathParts
  <2>2. j \in DOMAIN Locations /\ j < q[1]
    BY <2>1, GameIndexAssumption
  <2>3. <<j, q[2]>> \in Entries /\ <<j, q[2]>>[1] = j /\ <<j, q[2]>>[2] = q[2]
    BY <2>1, <2>2, PathParts
  <2>4. <<j, q[2]>> \in Overruled(read)
    BY <2>2, <2>3 DEF Overruled
  <2> QED BY <1>3, <2>4
<1>6. ASSUME NEW q \in Entries, menu[q] # "none", Foremost(q)
      PROVE  q \in tried
  <2>1. q \notin Overruled(read) /\ q \notin Unasked(read)
    BY <1>3, <1>6
  <2>2. PICK p \in tried : p[2] = q[2]
    BY <1>6, <2>1 DEF Unasked, IsAsked
  <2>3. p[1] \in Nat /\ q[1] \in Nat /\ p \in Entries /\ 1 <= p[1]
    BY <1>4, <1>6, PathParts, GameIndexAssumption
  <2>4. ~(q[1] < p[1])
    BY <1>6, <2>1, <2>2 DEF Overruled
  <2>5. p = <<p[1], q[2]>> /\ q = <<q[1], q[2]>>
    BY <1>6, <2>2, <2>3, PathParts
  <2>6. ~(p[1] < q[1])
    <3>1. SUFFICES ASSUME p[1] < q[1]
                   PROVE  FALSE
      OBVIOUS
    <3>2. p[1] \in 1..(q[1] - 1)
      BY <2>3, <3>1
    <3>3. menu[<<p[1], q[2]>>] = "none"
      BY <1>6, <3>2
    <3> QED BY <1>3, <2>5, <3>3
  <2>7. p[1] = q[1]
    BY <2>3, <2>4, <2>6
  <2> QED BY <2>5, <2>7
<1>7. {q \in tried : Game(menu, q)} =
      {q \in Entries : menu[q] \notin {"none", "plain", "hidden"} /\ Foremost(q)}
  <2> HIDE DEF tried
  <2>1. \A q \in tried : q \in Entries /\ Foremost(q)
    BY <1>4, <1>5
  <2> HIDE DEF Foremost
  <2> QED BY <1>6, <2>1 DEF Game
<1>8. MenuGames = {[id |-> q[2], kind |-> menu[q]] :
                      q \in {r \in Entries : menu[r] \notin {"none", "plain", "hidden"} /\ Foremost(r)}}
  BY DEF MenuGames
<1> HIDE DEF tried, Foremost, read
<1> QED BY <1>3, <1>7, <1>8 DEF GamesAmong

\* However long an index takes to read, whatever is installed, replaced with an old
\* time, rewritten or removed in between, and however coarse the times are: an
\* index that is taken to be current names the games the menu has.
\* (remember(), readDirectory() and gameIndex(), gamerecognition.cpp:116-182)
THEOREM CurrentIndexIsRight == GameSpec => []IndexTellsTheMenu
<1>1. GameInit => GameInv
  BY GamesStart
<1>2. GameInv /\ [GameNext]_gameVars => GameInv'
  BY GameSteps
<1>3. GameInv => IndexTellsTheMenu
  BY GameInvTells DEF IndexTellsTheMenu
<1> QED BY <1>1, <1>2, <1>3, PTL DEF GameSpec
-----------------------------------------------------------------------------
(* Recognition: what the index leaves out matches nothing.                 *)

\* What a pattern pins is the last component of every name it matches.
LEMMA PinnedByMatch ==
    ASSUME NEW p, NEW value, IsName(p.text), IsName(value),
           Matches(p, value), FixedLastComponent(p) # NoName
    PROVE  LastName(value) = FixedLastComponent(p)
<1>1. p.text # <<>> /\ FixedLastComponent(p) = Last(p.text)
  BY DEF FixedLastComponent, Stated
<1>2. p.kind = "Exact" \/ p.kind = "AnyFolder"
  BY DEF FixedLastComponent
<1>3. Len(p.text) \in Nat /\ Len(p.text) >= 1
  BY <1>1 DEF IsName
<1>4. CASE p.kind = "Exact"
  BY <1>1, <1>4 DEF Matches, LastName
<1>5. CASE p.kind = "AnyFolder"
  <2>1. Len(value) > Len(p.text) /\ IsSuffix(p.text, value)
    BY <1>5 DEF Matches
  <2>2. Len(value) \in Nat /\ value # <<>>
    BY <1>3, <2>1 DEF IsName
  <2> DEFINE one == Reverse(p.text)
             other == Reverse(value)
  <2>3. /\ one \in Seq(ToSet(p.text)) /\ Len(one) = Len(p.text) /\ one[1] = Last(p.text)
        /\ other \in Seq(ToSet(value)) /\ Len(other) = Len(value) /\ other[1] = Last(value)
    BY <1>3, <2>1, <2>2 DEF Reverse, Last, IsName
  <2>4. Len(one) <= Len(other) /\ SubSeq(one, 1, Len(one)) = SubSeq(other, 1, Len(one))
    BY <2>1 DEF IsSuffix, IsPrefix
  <2> HIDE DEF one, other
  <2>5. SubSeq(one, 1, Len(one))[1] = one[1]
    BY <1>3, <2>3, SubSeqProperties
  <2>6. SubSeq(other, 1, Len(one))[1] = other[1]
    BY <1>3, <2>3, <2>4, SubSeqProperties
  <2> QED BY <1>1, <2>2, <2>3, <2>4, <2>5, <2>6 DEF LastName
<1> QED BY <1>2, <1>4, <1>5

\* An entry and a window it matches: the window has the name the entry is filed
\* under.
LEMMA FiledWhereFound ==
    ASSUME NEW e, NEW who, GatesMatch(e, who),
           IsName(e.executable.text), IsName(e.windowClass.text), IsName(e.instance.text),
           IsName(who.executable), IsName(who.windowClass), IsName(who.instance)
    PROVE  FileEntry(e) \in {NotFiled, <<"program", LastName(who.executable)>>,
                             <<"class", LastName(who.windowClass)>>,
                             <<"instance", LastName(who.instance)>>}
<1>1. \A p : FixedLastComponent(p) # NoName => Stated(p)
  BY DEF FixedLastComponent
<1>2. CASE FixedLastComponent(e.executable) # NoName
  <2>1. LastName(who.executable) = FixedLastComponent(e.executable)
    BY <1>1, <1>2, PinnedByMatch DEF GatesMatch
  <2> QED BY <1>2, <2>1 DEF FileEntry
<1>3. CASE FixedLastComponent(e.executable) = NoName /\ FixedLastComponent(e.windowClass) # NoName
  <2>1. LastName(who.windowClass) = FixedLastComponent(e.windowClass)
    BY <1>1, <1>3, PinnedByMatch DEF GatesMatch
  <2> QED BY <1>3, <2>1 DEF FileEntry
<1>4. CASE /\ FixedLastComponent(e.executable) = NoName
           /\ FixedLastComponent(e.windowClass) = NoName
           /\ FixedLastComponent(e.instance) # NoName
  <2>1. LastName(who.instance) = FixedLastComponent(e.instance)
    BY <1>1, <1>4, PinnedByMatch DEF GatesMatch
  <2> QED BY <1>4, <2>1 DEF FileEntry
<1>5. CASE /\ FixedLastComponent(e.executable) = NoName
           /\ FixedLastComponent(e.windowClass) = NoName
           /\ FixedLastComponent(e.instance) = NoName
  BY <1>5 DEF FileEntry
<1> QED BY <1>2, <1>3, <1>4, <1>5

Names(who) == IsName(who.executable) /\ IsName(who.windowClass) /\ IsName(who.instance)
FiledAll(list) == [i \in DOMAIN list |-> FileEntry(list[i])]

\* The first entry that is on and matches, of the whole list.
FirstMatching(list, who) ==
    LET matching == {i \in DOMAIN list : list[i].enabled /\ GatesMatch(list[i], who)}
    IN  IF matching = {} THEN NoClaim ELSE list[Min(matching)].id

LEMMA ListedNames ==
    ASSUME NEW r \in Readings, NEW i \in DOMAIN r.list
    PROVE  /\ IsName(r.list[i].executable.text) /\ IsName(r.list[i].windowClass.text)
           /\ IsName(r.list[i].instance.text)
           /\ r.list[i].id # NoClaim /\ "acts" \notin DOMAIN r.list[i].overrides
<1>1. r.list \in Seq(ToSet(r.list))
  BY RecognitionAssumption
<1>2. r.list[i] \in ToSet(r.list)
  BY <1>1
<1> QED BY <1>2, RecognitionAssumption

\* Asking the index for candidates finds what asking every entry would find.
LEMMA IndexFindsAll ==
    ASSUME reading \in Readings, NEW who, Names(who)
    PROVE  ApplicationFor(FiledAll(reading.list), who) = FirstMatching(reading.list, who)
<1> DEFINE found == {i \in Candidates(FiledAll(reading.list), who) :
                        reading.list[i].enabled /\ GatesMatch(reading.list[i], who)}
           matching == {i \in DOMAIN reading.list :
                           reading.list[i].enabled /\ GatesMatch(reading.list[i], who)}
<1>1. found \subseteq matching
  BY DEF Candidates, FiledAll
<1>2. ASSUME NEW i \in matching
      PROVE  i \in found
  <2>1. FileEntry(reading.list[i]) \in {NotFiled, <<"program", LastName(who.executable)>>,
                                        <<"class", LastName(who.windowClass)>>,
                                        <<"instance", LastName(who.instance)>>}
    BY ListedNames, FiledWhereFound DEF Names
  <2> QED BY <2>1 DEF Candidates, FiledAll
<1>3. found = matching
  BY <1>1, <1>2
<1> QED BY <1>3 DEF ApplicationFor, FirstMatching, FirstOf

-----------------------------------------------------------------------------
(* What is kept of a window.                                               *)

IsWindow(w) ==
    /\ Names(w) /\ w.pid # 0
    /\ w = [executable |-> w.executable, windowClass |-> w.windowClass, instance |-> w.instance,
            pid |-> w.pid, desktopFile |-> w.desktopFile]

KeptFields(r) ==
    [kept |-> r.kept, gone |-> r.gone, executable |-> r.executable, generation |-> r.generation,
     windowClass |-> r.windowClass, instance |-> r.instance, application |-> r.application,
     recognized |-> r.recognized, desktopFile |-> r.desktopFile, game |-> r.game]

\* What is kept of a window is of that window, and right for the names it was
\* matched by as long as the list is the one it was matched with; it is taken for a
\* game only if the names it was recognized by were one's at some time of the spell
\* it is open for, and if they always were.
KeptOf(r, w, list, generation, spell) ==
    /\ r = KeptFields(r) /\ r.kept /\ ~r.gone
    /\ r.executable = w.executable
    /\ r.generation \in Nat /\ r.generation <= generation
    /\ r.generation = generation => r.application = FirstMatching(list, r)
    /\ r.recognized =>
           /\ r.game => NamesGame(r, r.desktopFile, spell.ever)
           /\ NamesGame(r, r.desktopFile, spell.always) => r.game

ListKept ==
    /\ reading \in Readings /\ listGeneration \in Nat \ {0}
    /\ compiled.generation \in Nat /\ compiled.generation <= listGeneration
    /\ compiled.generation = listGeneration => compiled.filed = FiledAll(reading.list)

WindowKept(a) ==
    /\ openWindows[a] = NoWindow \/ IsWindow(openWindows[a])
    /\ resolved[a] = NotResolved \/ resolved[a] = KeptFields(resolved[a])
    /\ resolved[a].kept /\ ~resolved[a].gone =>
           IsOpen(a) /\ KeptOf(resolved[a], openWindows[a], reading.list, listGeneration, sinceOpened[a])
    /\ IsOpen(a) => sinceOpened[a].always \subseteq gameNames /\ gameNames \subseteq sinceOpened[a].ever

RecognitionInv ==
    /\ ListKept
    /\ DOMAIN openWindows = Addresses /\ DOMAIN resolved = Addresses
    /\ DOMAIN sinceOpened = Addresses /\ sinceOpened = [a \in Addresses |-> sinceOpened[a]]
    /\ openWindows = [a \in Addresses |-> openWindows[a]] /\ resolved = [a \in Addresses |-> resolved[a]]
    /\ \A a \in Addresses : WindowKept(a)

LEMMA SameNamesSameEntry ==
    ASSUME NEW list, NEW who, NEW other,
           who.executable = other.executable, who.windowClass = other.windowClass,
           who.instance = other.instance
    PROVE  FirstMatching(list, who) = FirstMatching(list, other)
<1>1. \A e : GatesMatch(e, who) <=> GatesMatch(e, other)
  BY DEF GatesMatch
<1>2. {i \in DOMAIN list : list[i].enabled /\ GatesMatch(list[i], who)} =
      {i \in DOMAIN list : list[i].enabled /\ GatesMatch(list[i], other)}
  BY <1>1
<1> QED BY <1>2 DEF FirstMatching

LEMMA OpenIsWindow ==
    ASSUME RecognitionInv, NEW a \in Addresses, IsOpen(a)
    PROVE  IsWindow(openWindows[a])
BY DEF RecognitionInv, WindowKept, IsOpen

LEMMA CompiledIsFiled ==
    ASSUME ListKept
    PROVE  /\ CompiledList.filed = FiledAll(reading.list)
           /\ CompiledList.generation = listGeneration
BY DEF ListKept, CompiledList, FiledAll

LEMMA ResolvedIsOfWindow ==
    ASSUME RecognitionInv, NEW a \in Addresses, IsOpen(a)
    PROVE  KeptOf(ResolvedFor(a), openWindows[a], reading.list, listGeneration, sinceOpened[a])
<1>1. CASE resolved[a].kept /\ ~resolved[a].gone
  BY <1>1 DEF RecognitionInv, WindowKept, ResolvedFor
<1>2. CASE ~(resolved[a].kept /\ ~resolved[a].gone)
  <2>1. ResolvedFor(a) = Fresh(a)
    BY <1>2 DEF ResolvedFor
  <2>2. listGeneration \in Nat \ {0}
    BY DEF RecognitionInv, ListKept
  <2> QED BY <2>1, <2>2 DEF Fresh, KeptOf, KeptFields
<1> QED BY <1>1, <1>2

LEMMA MatchedFields ==
    ASSUME NEW r, r = KeptFields(r), NEW generation, NEW class, NEW instance, NEW application,
           NEW n, n = [r EXCEPT !.generation = generation, !.windowClass = class,
                                !.instance = instance, !.application = application]
    PROVE  /\ n = KeptFields(n) /\ n.kept = r.kept /\ n.gone = r.gone
           /\ n.executable = r.executable /\ n.generation = generation /\ n.windowClass = class
           /\ n.instance = instance /\ n.application = application
           /\ n.recognized = r.recognized /\ n.game = r.game /\ n.desktopFile = r.desktopFile
BY DEF KeptFields

LEMMA RecognizedFields ==
    ASSUME NEW r, r = KeptFields(r), NEW recognized, NEW desktopFile, NEW game,
           NEW n, n = [r EXCEPT !.recognized = recognized, !.desktopFile = desktopFile, !.game = game]
    PROVE  /\ n = KeptFields(n) /\ n.kept = r.kept /\ n.gone = r.gone
           /\ n.executable = r.executable /\ n.generation = r.generation
           /\ n.windowClass = r.windowClass /\ n.instance = r.instance
           /\ n.application = r.application
           /\ n.recognized = recognized /\ n.game = game /\ n.desktopFile = desktopFile
BY DEF KeptFields

LEMMA GoneFields ==
    ASSUME NEW r, r = KeptFields(r), NEW n, n = [r EXCEPT !.gone = TRUE]
    PROVE  n = KeptFields(n) /\ n.gone = TRUE
BY DEF KeptFields

\* The entry kept after a window was looked at is that of the names it has now.
LEMMA MatchedIsRight ==
    ASSUME RecognitionInv, NEW a \in Addresses, IsOpen(a)
    PROVE  /\ KeptOf(Matched(a), openWindows[a], reading.list, listGeneration, sinceOpened[a])
           /\ Matched(a).application = FirstMatching(reading.list, openWindows[a])
<1> DEFINE w == openWindows[a]
           was == ResolvedFor(a)
           who == [executable |-> was.executable, windowClass |-> w.windowClass, instance |-> w.instance]
           application == ApplicationFor(CompiledList.filed, who)
           anew == [was EXCEPT !.generation = listGeneration, !.windowClass = w.windowClass,
                                !.instance = w.instance, !.application = application]
<1>1. KeptOf(was, w, reading.list, listGeneration, sinceOpened[a])
  BY ResolvedIsOfWindow
<1>2. IsWindow(w)
  BY OpenIsWindow
<1>3. CASE was.generation = listGeneration /\ was.windowClass = w.windowClass /\ was.instance = w.instance
  <2>1. Matched(a) = was
    BY <1>3 DEF Matched
  <2>2. was.application = FirstMatching(reading.list, was)
    BY <1>1, <1>3 DEF KeptOf
  <2>3. FirstMatching(reading.list, was) = FirstMatching(reading.list, w)
    BY <1>1, <1>3, SameNamesSameEntry DEF KeptOf
  <2> QED BY <1>1, <2>1, <2>2, <2>3
<1>4. CASE ~(was.generation = listGeneration /\ was.windowClass = w.windowClass /\ was.instance = w.instance)
  <2>1. Matched(a) = anew
    BY <1>4 DEF Matched
  <2>2. reading \in Readings /\ ListKept /\ listGeneration \in Nat
    BY DEF RecognitionInv, ListKept
  <2>3. who.executable = w.executable /\ who.windowClass = w.windowClass /\ who.instance = w.instance
    BY <1>1 DEF KeptOf
  <2>4. Names(who)
    BY <1>2, <2>3 DEF IsWindow, Names
  <2> HIDE DEF who
  <2>5. application = FirstMatching(reading.list, w)
    BY <2>2, <2>3, <2>4, CompiledIsFiled, IndexFindsAll, SameNamesSameEntry
  <2> HIDE DEF application, was, w
  <2>6. was = KeptFields(was)
    BY <1>1 DEF KeptOf
  <2>61. anew = [was EXCEPT !.generation = listGeneration, !.windowClass = w.windowClass,
                             !.instance = w.instance, !.application = application]
    OBVIOUS
  <2> HIDE DEF anew
  <2>7. /\ anew = KeptFields(anew) /\ anew.kept = was.kept /\ anew.gone = was.gone
        /\ anew.executable = was.executable /\ anew.generation = listGeneration
        /\ anew.windowClass = w.windowClass /\ anew.instance = w.instance
        /\ anew.application = application /\ anew.recognized = was.recognized
        /\ anew.game = was.game /\ anew.desktopFile = was.desktopFile
    BY <2>6, <2>61 DEF KeptFields
  <2>8. FirstMatching(reading.list, anew) = FirstMatching(reading.list, w)
    BY <1>1, <2>7, SameNamesSameEntry DEF KeptOf
  <2>81. \A names : NamesGame(anew, anew.desktopFile, names) <=> NamesGame(was, was.desktopFile, names)
    BY <2>7, Zenon DEF NamesGame
  <2>82. anew.recognized =>
           /\ anew.game => NamesGame(anew, anew.desktopFile, sinceOpened[a].ever)
           /\ NamesGame(anew, anew.desktopFile, sinceOpened[a].always) => anew.game
    BY <1>1, <2>7, <2>81, Zenon DEF KeptOf
  <2>83. /\ anew.executable = w.executable /\ anew.generation \in Nat /\ anew.generation <= listGeneration
         /\ anew.generation = listGeneration => anew.application = FirstMatching(reading.list, anew)
    BY <1>1, <2>2, <2>5, <2>7, <2>8 DEF KeptOf
  <2>9. KeptOf(anew, w, reading.list, listGeneration, sinceOpened[a])
    BY <1>1, <2>7, <2>82, <2>83, Zenon DEF KeptOf
  <2> QED BY <2>1, <2>5, <2>7, <2>9 DEF w
<1> QED BY <1>3, <1>4

LEMMA RecognizedIsRight ==
    ASSUME RecognitionInv, NEW a \in Addresses, IsOpen(a)
    PROVE  /\ KeptOf(Recognized(a), openWindows[a], reading.list, listGeneration, sinceOpened[a])
           /\ Recognized(a).game =>
                  NamesGame(openWindows[a], openWindows[a].desktopFile, sinceOpened[a].ever)
           /\ NamesGame(openWindows[a], openWindows[a].desktopFile, sinceOpened[a].always) =>
                  Recognized(a).game
<1> DEFINE w == openWindows[a]
           was == Matched(a)
           game == NamesGame(was, w.desktopFile, gameNames)
           anew == [was EXCEPT !.recognized = TRUE, !.desktopFile = w.desktopFile, !.game = game]
<1>1. KeptOf(was, w, reading.list, listGeneration, sinceOpened[a])
  BY MatchedIsRight
<1>2. CASE was.recognized /\ was.desktopFile = w.desktopFile
  BY <1>1, <1>2 DEF Recognized, KeptOf, NamesGame
<1>3. CASE ~(was.recognized /\ was.desktopFile = w.desktopFile)
  <2>1. Recognized(a) = anew
    BY <1>3 DEF Recognized
  <2>2. /\ game => NamesGame(was, w.desktopFile, sinceOpened[a].ever)
        /\ NamesGame(was, w.desktopFile, sinceOpened[a].always) => game
    BY DEF RecognitionInv, WindowKept, NamesGame
  <2> HIDE DEF game, was, w
  <2>3. was = KeptFields(was)
    BY <1>1 DEF KeptOf
  <2>31. anew = [was EXCEPT !.recognized = TRUE, !.desktopFile = w.desktopFile, !.game = game]
    OBVIOUS
  <2> HIDE DEF anew
  <2>4. /\ anew = KeptFields(anew) /\ anew.kept = was.kept /\ anew.gone = was.gone
        /\ anew.executable = was.executable /\ anew.generation = was.generation
        /\ anew.windowClass = was.windowClass /\ anew.instance = was.instance
        /\ anew.application = was.application /\ anew.recognized = TRUE
        /\ anew.game = game /\ anew.desktopFile = w.desktopFile
    BY <2>3, <2>31 DEF KeptFields
  <2>5. FirstMatching(reading.list, anew) = FirstMatching(reading.list, was)
    BY <2>4, SameNamesSameEntry
  <2>6. KeptOf(anew, w, reading.list, listGeneration, sinceOpened[a])
    BY <1>1, <2>2, <2>4, <2>5 DEF KeptOf, NamesGame
  <2>7. was.executable = w.executable
    BY <1>1 DEF KeptOf
  <2> QED BY <2>1, <2>2, <2>4, <2>6, <2>7 DEF w, NamesGame
<1> QED BY <1>2, <1>3

-----------------------------------------------------------------------------
(* The steps.                                                              *)

LEMMA KeptElsewhere ==
    ASSUME NEW r, NEW w, NEW v, NEW list, NEW generation, NEW spell,
           KeptOf(r, w, list, generation, spell), v.executable = w.executable
    PROVE  KeptOf(r, v, list, generation, spell)
BY DEF KeptOf

LEMMA KeptLonger ==
    ASSUME NEW r, NEW w, NEW list, NEW generation, NEW spell, NEW longer,
           KeptOf(r, w, list, generation, spell),
           spell.ever \subseteq longer.ever, longer.always \subseteq spell.always
    PROVE  KeptOf(r, w, list, generation, longer)
BY DEF KeptOf, NamesGame

LEMMA LookKeeps ==
    ASSUME RecognitionInv, NEW a \in Addresses, Look(a)
    PROVE  RecognitionInv'
<1> DEFINE looked == IF ApplicationForWindow(a) = NoClaim /\ ResolveSettings(NoClaim).acts THEN Recognized(a)
                     ELSE Matched(a)
           clears == ResolvedFor(a) # resolved[a]
<1>1. UNCHANGED <<reading, listGeneration, openWindows, gameNames, sinceOpened>> /\ IsOpen(a) /\ compiled' = CompiledList
  BY DEF Look
<1>2. resolved' = [b \in Addresses |->
                      IF b = a THEN looked
                      ELSE IF clears /\ resolved[b].kept /\ resolved[b].gone THEN NotResolved
                      ELSE resolved[b]]
  BY DEF Look
<1>3. KeptOf(looked, openWindows[a], reading.list, listGeneration, sinceOpened[a])
  BY <1>1, MatchedIsRight, RecognizedIsRight
<1> HIDE DEF looked, clears
<1>4. ListKept'
  BY <1>1, CompiledIsFiled DEF RecognitionInv, ListKept
<1>5. ASSUME NEW b \in Addresses
      PROVE  WindowKept(b)'
  <2>1. WindowKept(b)
    BY DEF RecognitionInv
  <2>2. CASE b = a
    <3>1. resolved'[b] = looked
      BY <1>2, <2>2
    <3> QED BY <1>1, <1>3, <2>1, <2>2, <3>1 DEF WindowKept, IsOpen, KeptOf
  <2>3. CASE b # a
    <3>1. resolved'[b] = NotResolved \/ resolved'[b] = resolved[b]
      BY <1>2, <2>3
    <3> QED BY <1>1, <2>1, <3>1 DEF WindowKept, NotResolved, IsOpen
  <2> QED BY <2>2, <2>3
<1> QED BY <1>1, <1>2, <1>4, <1>5 DEF RecognitionInv

LEMMA RenamedWindow ==
    ASSUME NEW w, IsWindow(w), NEW name,
           NEW v, v = [w EXCEPT !.windowClass = <<name>>, !.desktopFile = name]
    PROVE  IsWindow(v) /\ v.executable = w.executable
<1>1. /\ v = [executable |-> v.executable, windowClass |-> v.windowClass, instance |-> v.instance,
              pid |-> v.pid, desktopFile |-> v.desktopFile]
      /\ v.executable = w.executable /\ v.instance = w.instance /\ v.pid = w.pid
      /\ v.windowClass = <<name>>
  BY DEF IsWindow
<1>2. IsName(<<name>>)
  BY DEF IsName, ToSet
<1> QED BY <1>1, <1>2 DEF IsWindow, Names

LEMMA WindowsKeep ==
    ASSUME RecognitionInv, NEW a \in Addresses,
           \/ CloseWindow(a)
           \/ \E w \in Opened : OpenWindow(a, w)
           \/ \E name \in Renamed : RenameWindow(a, name)
    PROVE  RecognitionInv'
<1>1. UNCHANGED <<reading, listGeneration, compiled, gameNames>>
  BY DEF CloseWindow, OpenWindow, RenameWindow
<1>2. ListKept'
  BY <1>1 DEF RecognitionInv, ListKept
<1>3. \A b \in Addresses : WindowKept(b)
  BY DEF RecognitionInv
<1>4. DOMAIN openWindows = Addresses /\ openWindows = [b \in Addresses |-> openWindows[b]]
      /\ DOMAIN resolved = Addresses /\ resolved = [b \in Addresses |-> resolved[b]]
      /\ DOMAIN sinceOpened = Addresses /\ sinceOpened = [b \in Addresses |-> sinceOpened[b]]
  BY DEF RecognitionInv
<1>5. CASE CloseWindow(a)
  <2>1. openWindows' = [openWindows EXCEPT ![a] = NoWindow]
    BY <1>5 DEF CloseWindow
  <2>2. resolved' = [resolved EXCEPT ![a] = IF @.kept THEN [@ EXCEPT !.gone = TRUE] ELSE @]
    BY <1>5 DEF CloseWindow
  <2>3. resolved'[a] = NotResolved
        \/ (resolved'[a] = KeptFields(resolved'[a]) /\ (resolved'[a].kept => resolved'[a].gone))
    <3>1. resolved'[a] = IF resolved[a].kept THEN [resolved[a] EXCEPT !.gone = TRUE] ELSE resolved[a]
      BY <1>4, <2>2
    <3>2. resolved[a] = NotResolved \/ resolved[a] = KeptFields(resolved[a])
      BY <1>3 DEF WindowKept
    <3>3. CASE resolved[a].kept
      <4>1. resolved[a] = KeptFields(resolved[a])
        BY <3>2, <3>3 DEF NotResolved
      <4>2. resolved'[a] = [resolved[a] EXCEPT !.gone = TRUE]
        BY <3>1, <3>3
      <4> QED BY <4>1, <4>2, GoneFields
    <3>4. CASE ~resolved[a].kept
      BY <3>1, <3>2, <3>4
    <3> QED BY <3>3, <3>4
  <2>4. openWindows'[a] = NoWindow
    BY <1>4, <2>1
  <2>41. sinceOpened' = [sinceOpened EXCEPT ![a] = Unopened]
    BY <1>5 DEF CloseWindow
  <2>5. WindowKept(a)'
    BY <2>3, <2>4 DEF WindowKept, NotResolved, IsOpen
  <2>6. \A b \in Addresses \ {a} : /\ openWindows'[b] = openWindows[b] /\ resolved'[b] = resolved[b]
                                   /\ sinceOpened'[b] = sinceOpened[b]
    BY <1>4, <2>1, <2>2, <2>41
  <2>7. \A b \in Addresses \ {a} : WindowKept(b)'
    BY <1>1, <1>3, <2>6 DEF WindowKept, IsOpen
  <2>8. /\ DOMAIN openWindows' = Addresses /\ openWindows' = [b \in Addresses |-> openWindows'[b]]
        /\ DOMAIN resolved' = Addresses /\ resolved' = [b \in Addresses |-> resolved'[b]]
        /\ DOMAIN sinceOpened' = Addresses /\ sinceOpened' = [b \in Addresses |-> sinceOpened'[b]]
    BY <1>4, <2>1, <2>2, <2>41
  <2> QED BY <1>2, <2>5, <2>7, <2>8 DEF RecognitionInv
<1>6. ASSUME NEW w \in Opened, OpenWindow(a, w)
      PROVE  RecognitionInv'
  <2>1. openWindows' = [openWindows EXCEPT ![a] = w] /\ UNCHANGED resolved /\ ~IsOpen(a)
    BY <1>6 DEF OpenWindow
  <2>2. IsWindow(w)
    BY RecognitionAssumption DEF IsWindow, Names
  <2>21. sinceOpened' = [sinceOpened EXCEPT ![a] = [ever |-> gameNames, always |-> gameNames]]
    BY <1>6 DEF OpenWindow
  <2>3. openWindows'[a] = w /\ sinceOpened'[a] = [ever |-> gameNames, always |-> gameNames]
    BY <1>4, <2>1, <2>21
  <2>4. WindowKept(a)'
    BY <1>1, <1>3, <2>1, <2>2, <2>3 DEF WindowKept
  <2>5. \A b \in Addresses \ {a} : openWindows'[b] = openWindows[b] /\ sinceOpened'[b] = sinceOpened[b]
    BY <1>4, <2>1, <2>21
  <2>6. \A b \in Addresses \ {a} : WindowKept(b)'
    BY <1>1, <1>3, <2>1, <2>5 DEF WindowKept, IsOpen
  <2>7. /\ DOMAIN openWindows' = Addresses /\ openWindows' = [b \in Addresses |-> openWindows'[b]]
        /\ DOMAIN sinceOpened' = Addresses /\ sinceOpened' = [b \in Addresses |-> sinceOpened'[b]]
    BY <1>4, <2>1, <2>21
  <2> QED BY <1>2, <1>4, <2>1, <2>4, <2>6, <2>7 DEF RecognitionInv
<1>7. ASSUME NEW name \in Renamed, RenameWindow(a, name)
      PROVE  RecognitionInv'
  <2> DEFINE w == openWindows[a]
             v == [w EXCEPT !.windowClass = <<name>>, !.desktopFile = name]
  <2>1. openWindows' = [openWindows EXCEPT ![a] = v] /\ UNCHANGED <<resolved, sinceOpened>> /\ IsOpen(a)
    <3>1. openWindows' = [openWindows EXCEPT ![a].windowClass = <<name>>, ![a].desktopFile = name]
      BY <1>7 DEF RenameWindow
    <3>2. [openWindows EXCEPT ![a].windowClass = <<name>>, ![a].desktopFile = name] =
              [openWindows EXCEPT ![a] = v]
      BY <1>4
    <3> QED BY <1>7, <3>1, <3>2 DEF RenameWindow
  <2>2. IsWindow(w)
    BY <2>1, OpenIsWindow
  <2>3. openWindows'[a] = v
    BY <1>4, <2>1
  <2>31. v = [w EXCEPT !.windowClass = <<name>>, !.desktopFile = name]
    OBVIOUS
  <2> HIDE DEF v
  <2>4. IsWindow(v) /\ v.executable = w.executable
    BY <2>2, <2>31, RenamedWindow
  <2>5. WindowKept(a)'
    <3>1. v # NoWindow
      BY <2>4 DEF IsWindow, NoWindow
    <3>2. WindowKept(a)
      BY <1>3
    <3>3. resolved[a].kept /\ ~resolved[a].gone =>
              KeptOf(resolved[a], v, reading.list, listGeneration, sinceOpened[a])
      BY <2>4, <3>2, KeptElsewhere DEF WindowKept
    <3> QED BY <1>1, <2>1, <2>3, <2>4, <3>1, <3>2, <3>3 DEF WindowKept, IsOpen
  <2>6. \A b \in Addresses \ {a} : openWindows'[b] = openWindows[b]
    BY <1>4, <2>1
  <2>7. \A b \in Addresses \ {a} : WindowKept(b)'
    BY <1>1, <1>3, <2>1, <2>6 DEF WindowKept, IsOpen
  <2>8. DOMAIN openWindows' = Addresses /\ openWindows' = [b \in Addresses |-> openWindows'[b]]
    BY <1>4, <2>1
  <2> QED BY <1>2, <1>4, <2>1, <2>5, <2>7, <2>8 DEF RecognitionInv
<1> QED BY <1>5, <1>6, <1>7

LEMMA ListReadAgain ==
    ASSUME RecognitionInv, NEW r \in Readings, ReloadApplications(r)
    PROVE  RecognitionInv'
<1>1. /\ reading' = r /\ listGeneration' = listGeneration + 1
      /\ UNCHANGED <<compiled, openWindows, resolved, gameNames, sinceOpened>>
  BY DEF ReloadApplications
<1>2. ListKept'
  BY <1>1 DEF RecognitionInv, ListKept
<1>3. listGeneration \in Nat
  BY DEF RecognitionInv, ListKept
<1>4. ASSUME NEW a \in Addresses
      PROVE  WindowKept(a)'
  <2>1. WindowKept(a)
    BY DEF RecognitionInv
  <2>2. resolved[a].kept /\ ~resolved[a].gone =>
            IsOpen(a) /\ KeptOf(resolved[a], openWindows[a], r.list, listGeneration + 1, sinceOpened[a])
    BY <1>3, <2>1 DEF WindowKept, KeptOf
  <2> QED BY <1>1, <2>1, <2>2 DEF WindowKept, IsOpen
<1> QED BY <1>1, <1>2, <1>4 DEF RecognitionInv

LEMMA MenuReplaced ==
    ASSUME RecognitionInv, NEW names, ReplaceMenu(names)
    PROVE  RecognitionInv'
<1>1. /\ UNCHANGED <<reading, listGeneration, compiled, openWindows, resolved>> /\ gameNames' = names
      /\ sinceOpened' = [a \in Addresses |->
             IF IsOpen(a) THEN [ever |-> sinceOpened[a].ever \cup names, always |-> sinceOpened[a].always \cap names]
             ELSE sinceOpened[a]]
  BY DEF ReplaceMenu
<1>2. ListKept'
  BY <1>1 DEF RecognitionInv, ListKept
<1>3. ASSUME NEW a \in Addresses
      PROVE  WindowKept(a)'
  <2>1. WindowKept(a)
    BY DEF RecognitionInv
  <2>2. CASE IsOpen(a)
    <3>1. sinceOpened'[a] = [ever |-> sinceOpened[a].ever \cup names, always |-> sinceOpened[a].always \cap names]
      BY <1>1, <2>2
    <3>2. /\ sinceOpened[a].ever \subseteq sinceOpened'[a].ever /\ sinceOpened'[a].always \subseteq sinceOpened[a].always
          /\ sinceOpened'[a].always \subseteq names /\ names \subseteq sinceOpened'[a].ever
      BY <3>1
    <3> QED BY <1>1, <2>1, <3>2, KeptLonger DEF WindowKept, IsOpen
  <2>3. CASE ~IsOpen(a)
    BY <1>1, <2>1, <2>3 DEF WindowKept, IsOpen
  <2> QED BY <2>2, <2>3
<1>4. DOMAIN sinceOpened' = Addresses /\ sinceOpened' = [a \in Addresses |-> sinceOpened'[a]]
  BY <1>1
<1> QED BY <1>1, <1>2, <1>3, <1>4 DEF RecognitionInv

LEMMA ServedKeeps ==
    ASSUME RecognitionInv,
           UNCHANGED <<reading, listGeneration, openWindows, resolved, gameNames, sinceOpened>>,
           compiled' = compiled \/ compiled' = CompiledList
    PROVE  RecognitionInv'
<1>1. ListKept'
  BY CompiledIsFiled DEF RecognitionInv, ListKept
<1>2. \A a \in Addresses : WindowKept(a)'
  BY DEF RecognitionInv, WindowKept, IsOpen
<1> QED BY <1>1, <1>2 DEF RecognitionInv

LEMMA RecognitionStarts == RecognitionInit => RecognitionInv
<1> SUFFICES ASSUME RecognitionInit
             PROVE  RecognitionInv
  OBVIOUS
<1>1. ListKept
  BY DEF RecognitionInit, ListKept
<1>2. /\ openWindows = [a \in Addresses |-> NoWindow] /\ resolved = [a \in Addresses |-> NotResolved]
      /\ sinceOpened = [a \in Addresses |-> Unopened]
  BY DEF RecognitionInit
<1>3. \A a \in Addresses : openWindows[a] = NoWindow /\ resolved[a] = NotResolved
  BY <1>2
<1>4. \A a \in Addresses : WindowKept(a)
  BY <1>3 DEF WindowKept, NotResolved, IsOpen
<1> QED BY <1>1, <1>2, <1>4 DEF RecognitionInv

LEMMA RecognitionSteps == RecognitionInv /\ [RecognitionNext]_recognitionVars => RecognitionInv'
<1> SUFFICES ASSUME RecognitionInv, [RecognitionNext]_recognitionVars
             PROVE  RecognitionInv'
  OBVIOUS
<1>1. CASE UNCHANGED recognitionVars
  BY <1>1, ServedKeeps DEF recognitionVars
<1>2. ASSUME NEW a \in Addresses, Look(a)
      PROVE  RecognitionInv'
  BY <1>2, LookKeeps
<1>3. ASSUME NEW a \in Addresses,
             \/ CloseWindow(a)
             \/ \E w \in Opened : OpenWindow(a, w)
             \/ \E name \in Renamed : RenameWindow(a, name)
      PROVE  RecognitionInv'
  BY <1>3, WindowsKeep
<1>4. ASSUME NEW r \in Readings, ReloadApplications(r)
      PROVE  RecognitionInv'
  BY <1>4, ListReadAgain
<1>41. ASSUME NEW names \in GameMenus, ReplaceMenu(names)
       PROVE  RecognitionInv'
  BY <1>41, MenuReplaced
<1>5. CASE \E client \in Connecting, out \in X11Outputs : ConnectX11(client, out)
  <2>1. /\ UNCHANGED <<reading, listGeneration, openWindows, resolved, gameNames, sinceOpened>>
        /\ compiled' = CompiledList
    BY <1>5 DEF ConnectX11
  <2> QED BY <2>1, ServedKeeps
<1>6. CASE \E game, pid \in {client.pid : client \in Connecting} : ProcessShown(game, pid)
  <2>1. UNCHANGED <<reading, listGeneration, openWindows, resolved, compiled, gameNames, sinceOpened>>
    BY <1>6 DEF ProcessShown
  <2> QED BY <2>1, ServedKeeps
<1> QED BY <1>1, <1>2, <1>3, <1>4, <1>41, <1>5, <1>6 DEF RecognitionNext

\* All games, or the entry that is on, says whether anything is done, unless the
\* previous release's switch is off.
LEMMA ActsIsStated ==
    ASSUME NEW id, id # NoClaim => "acts" \notin DOMAIN EntryOf(id).overrides
    PROVE  ResolveSettings(id).acts =
               IF id = NoClaim THEN reading.all /\ ~reading.switchedOff
               ELSE EntryOf(id).enabled /\ ~reading.switchedOff
BY DEF ResolveSettings, Layered

\* An entry of the list is found by its name.
LEMMA EntryInList ==
    ASSUME reading \in Readings, NEW e \in ToSet(reading.list)
    PROVE  EntryOf(e.id) = e /\ "acts" \notin DOMAIN e.overrides
<1>1. EntryOf(e.id) \in ToSet(reading.list) /\ EntryOf(e.id).id = e.id
  BY DEF EntryOf
<1> QED BY <1>1, RecognitionAssumption

LEMMA FirstIsListed ==
    ASSUME reading \in Readings, NEW who,
           NEW matching, matching = {i \in DOMAIN reading.list :
                                        reading.list[i].enabled /\ GatesMatch(reading.list[i], who)},
           matching # {}
    PROVE  /\ reading.list[Min(matching)] \in ToSet(reading.list)
           /\ reading.list[Min(matching)].id # NoClaim
           /\ reading.list[Min(matching)].enabled
<1>1. reading.list \in Seq(ToSet(reading.list))
  BY RecognitionAssumption
<1>2. DOMAIN reading.list \subseteq Nat
  BY <1>1
<1>3. PICK least \in matching : \A n \in matching : least <= n
  BY <1>2, LeastNumber
<1>4. Min(matching) \in matching
  BY <1>3 DEF Min
<1>5. Min(matching) \in DOMAIN reading.list /\ reading.list[Min(matching)].enabled
  BY <1>4
<1>6. reading.list[Min(matching)].id # NoClaim
  BY <1>5, ListedNames
<1>7. reading.list[Min(matching)] \in ToSet(reading.list)
  BY <1>5, Zenon DEF ToSet
<1> QED BY <1>5, <1>6, <1>7

LEMMA ServedIsListed ==
    ASSUME reading \in Readings, NEW pid, ServedApplication(pid) # NoClaim
    PROVE  \E e \in ToSet(reading.list) : e.id = ServedApplication(pid) /\ e.enabled
BY DEF ServedApplication

LEMMA RecognitionInvClaims ==
    ASSUME RecognitionInv
    PROVE  ClaimedByFirst
<1> SUFFICES ASSUME NEW a \in Addresses, IsOpen(a)
             PROVE  LET w == openWindows[a]
                        matching == {i \in DOMAIN reading.list :
                                        reading.list[i].enabled /\ GatesMatch(reading.list[i], w)}
                        claimed == IF matching # {} THEN reading.list[Min(matching)].id
                                   ELSE ServedApplication(w.pid)
                        mayAct(names) ==
                            /\ ~reading.switchedOff
                            /\ \/ claimed # NoClaim
                               \/ reading.all /\ (NamesGame(w, w.desktopFile, names) \/ ServedGame(w.pid))
                    IN  /\ ApplicationForWindow(a) = claimed
                        /\ mayAct(sinceOpened[a].always) => ActsFor(a)
                        /\ ActsFor(a) => mayAct(sinceOpened[a].ever)
  BY DEF ClaimedByFirst
<1> DEFINE w == openWindows[a]
           matching == {i \in DOMAIN reading.list :
                           reading.list[i].enabled /\ GatesMatch(reading.list[i], w)}
           claimed == IF matching # {} THEN reading.list[Min(matching)].id ELSE ServedApplication(w.pid)
<1>1. Matched(a).application = FirstMatching(reading.list, w)
  BY MatchedIsRight
<1>2. /\ Recognized(a).game => NamesGame(w, w.desktopFile, sinceOpened[a].ever)
      /\ NamesGame(w, w.desktopFile, sinceOpened[a].always) => Recognized(a).game
  BY RecognizedIsRight
<1>3. reading \in Readings
  BY DEF RecognitionInv, ListKept
<1>4. Matched(a).application = IF matching = {} THEN NoClaim ELSE reading.list[Min(matching)].id
  BY <1>1 DEF FirstMatching
<1> HIDE DEF matching
<1>5. matching # {} => /\ reading.list[Min(matching)] \in ToSet(reading.list)
                       /\ reading.list[Min(matching)].id # NoClaim
                       /\ reading.list[Min(matching)].enabled
  BY <1>3, FirstIsListed DEF matching
<1>6. ApplicationForWindow(a) = claimed
  BY <1>4, <1>5 DEF ApplicationForWindow
<1>7. claimed # NoClaim => \E e \in ToSet(reading.list) : e.id = claimed /\ e.enabled
  BY <1>3, <1>5, ServedIsListed
<1> HIDE DEF claimed
<1>8. CASE claimed # NoClaim
  <2>1. PICK e \in ToSet(reading.list) : e.id = claimed /\ e.enabled
    BY <1>7, <1>8
  <2>2. EntryOf(claimed) = e /\ "acts" \notin DOMAIN e.overrides
    BY <1>3, <2>1, EntryInList
  <2>3. ResolveSettings(claimed).acts = (EntryOf(claimed).enabled /\ ~reading.switchedOff)
    BY <1>8, <2>2, ActsIsStated
  <2>4. ActsFor(a) <=> ~reading.switchedOff
    BY <1>6, <1>8, <2>1, <2>2, <2>3, Zenon DEF ActsFor
  <2> QED BY <1>6, <1>8, <2>4 DEF claimed, matching
<1>9. CASE claimed = NoClaim
  <2>1. ResolveSettings(claimed).acts = (reading.all /\ ~reading.switchedOff)
    BY <1>9, ActsIsStated
  <2>2. ActsFor(a) <=> reading.all /\ ~reading.switchedOff /\ (Recognized(a).game \/ ServedGame(w.pid))
    BY <1>6, <1>9, <2>1, Zenon DEF ActsFor, GameWindow
  <2> QED BY <1>2, <1>6, <1>9, <2>2 DEF claimed, matching
<1> QED BY <1>8, <1>9

\* Whatever is indexed, kept of a window or remembered of a process, and wherever
\* windows are allocated: a window is claimed by the first entry that is on and
\* matches what it is and is named now, else by the one its process was served for,
\* acts when it is claimed or as a game under All games, unless the previous
\* release's switch is off, and is taken for a game by what the menu said of it at
\* some time since it opened.
\* (compiledList() and upscaleApplicationFor(), matching.cpp:121-173;
\* resolvedFor() and upscaleApplicationForWindow(), windowidentity.cpp:75-160;
\* upscaleResolveSettings(), settings.cpp:444-461)
THEOREM FirstEntryClaims == RecognitionSpec => []ClaimedByFirst
<1>1. RecognitionInit => RecognitionInv
  BY RecognitionStarts
<1>2. RecognitionInv /\ [RecognitionNext]_recognitionVars => RecognitionInv'
  BY RecognitionSteps
<1>3. RecognitionInv => ClaimedByFirst
  BY RecognitionInvClaims
<1> QED BY <1>1, <1>2, <1>3, PTL DEF RecognitionSpec

-----------------------------------------------------------------------------
(* What a game hears of a pen.                                             *)

Pens == [near : BOOLEAN, down : BOOLEAN]
Styli == [near : BOOLEAN, down : BOOLEAN, told : Pens, heard : Pens, forwarded : BOOLEAN,
          takenBack : BOOLEAN, onPicture : BOOLEAN, amiss : BOOLEAN]
PenActions == {"enter", "leave", "motion", "press", "release"}
\* The filter noted just what the game heard while it is the one that speaks to it
\* of the pen, and nothing once KWin does.
Sound(s) ==
    /\ ~s.amiss
    /\ s.heard.down => s.heard.near /\ s.down
    /\ s.heard.near => s.near
    /\ s.told = IF s.forwarded THEN PenUnknown ELSE s.heard
PenInv ==
    /\ stylus \in Styli
    /\ stylus.down => stylus.near
    /\ ~stylus.takenBack => Sound(stylus)

LEMMA Hearing ==
    ASSUME NEW s \in Styli, NEW action \in PenActions
    PROVE  LET heard == PenHears(s, action)
           IN  /\ heard \in Styli
               /\ heard.near = s.near /\ heard.down = s.down /\ heard.told = s.told
               /\ heard.forwarded = s.forwarded /\ heard.takenBack = s.takenBack
               /\ heard.heard.near <=> action # "leave"
               /\ heard.heard.down <=> (s.heard.down \/ action = "press") /\ action \notin {"release", "leave"}
               /\ heard.amiss <=> \/ s.amiss
                                  \/ s.heard.near <=> action = "enter"
                                  \/ action = "release" /\ ~s.heard.down
                                  \/ action = "leave" /\ s.heard.down
BY DEF PenHears, Styli, Pens, PenActions

LEMMA SamePen ==
    ASSUME NEW a \in Pens, NEW b \in Pens, a.near <=> b.near, a.down <=> b.down
    PROVE  a = b
BY DEF Pens

\* What a picture does with a pen the filter speaks of.
LEMMA OnPictureKeeps ==
    ASSUME NEW pen \in Styli, NEW action \in PenActions, NEW p \in Places,
           action = "press" => ~pen.heard.down,
           action = "enter" => ~pen.heard.near,
           action = "leave" => ~pen.heard.down,
           pen.near <=> action # "leave",
           pen.down => pen.near,
           ~pen.amiss, pen.told = pen.heard, ~pen.forwarded,
           pen.heard.down => pen.heard.near /\ (pen.down \/ action = "release"),
           action = "release" => ~pen.down,
           action = "press" => pen.down
    PROVE  Sound(PenOnPicture(pen, action, p))
<1>1. CASE (p = "bar" /\ ~Ends(pen.told, action)) \/ NeverBegan(pen.told, action)
  <2>1. PenOnPicture(pen, action, p) = pen
    BY <1>1 DEF PenOnPicture
  <2> QED BY <1>1, <2>1 DEF Sound, Ends, NeverBegan, Styli, Pens, PenActions
<1>2. CASE ~((p = "bar" /\ ~Ends(pen.told, action)) \/ NeverBegan(pen.told, action))
  <2> DEFINE near == IF ~pen.told.near /\ action # "enter" THEN PenHears(pen, "enter") ELSE pen
             heard == PenHears(near, action)
  <2>1. PenOnPicture(pen, action, p) = [heard EXCEPT !.told = PenTold(pen.told, action)]
    BY <1>2 DEF PenOnPicture
  <2>2. /\ near \in Styli /\ near.near = pen.near /\ near.down = pen.down /\ ~near.amiss
        /\ near.forwarded = pen.forwarded
        /\ near.heard.near <=> pen.told.near \/ action # "enter"
        /\ near.heard.down <=> pen.told.down
    BY Hearing DEF PenActions, Pens, Styli
  <2> HIDE DEF near
  <2>3. /\ PenTold(pen.told, action) \in Pens
        /\ PenTold(pen.told, action).near <=> action # "leave"
        /\ PenTold(pen.told, action).down <=> (pen.told.down \/ action = "press")
                                               /\ action # "release" /\ action # "leave"
    BY DEF PenTold, Pens, Styli
  <2>4. /\ heard \in Styli /\ heard.near = pen.near /\ heard.down = pen.down
        /\ heard.forwarded = pen.forwarded
        /\ heard.heard.near <=> action # "leave"
        /\ heard.heard.down <=> (pen.told.down \/ action = "press") /\ action \notin {"release", "leave"}
        /\ ~heard.amiss
    BY <1>2, <2>2, Hearing DEF Styli, Pens, PenActions, NeverBegan
  <2> HIDE DEF heard
  <2>5. heard.heard = PenTold(pen.told, action)
    BY <2>3, <2>4, SamePen DEF Styli
  <2> DEFINE after == [heard EXCEPT !.told = PenTold(pen.told, action)]
  <2>6. /\ ~after.amiss /\ after.told = after.heard /\ after.heard = heard.heard
        /\ after.near = pen.near /\ after.down = pen.down /\ ~after.forwarded
    BY <2>3, <2>4, <2>5 DEF Styli
  <2> HIDE DEF after
  <2>7. Sound(after)
    BY <2>4, <2>6 DEF Sound, PenActions
  <2> QED BY <2>1, <2>7 DEF after
<1> QED BY <1>1, <1>2

LEMMA OnPictureIs ==
    ASSUME NEW pen \in Styli, NEW action \in PenActions, NEW p \in Places
    PROVE  LET after == PenOnPicture(pen, action, p)
           IN  after \in Styli /\ after.near = pen.near /\ after.down = pen.down
               /\ after.takenBack = pen.takenBack
<1> DEFINE near == IF ~pen.told.near /\ action # "enter" THEN PenHears(pen, "enter") ELSE pen
           heard == PenHears(near, action)
<1>1. \/ PenOnPicture(pen, action, p) = pen
      \/ PenOnPicture(pen, action, p) = [heard EXCEPT !.told = PenTold(pen.told, action)]
  BY DEF PenOnPicture
<1>2. /\ near \in Styli /\ near.near = pen.near /\ near.down = pen.down
      /\ near.takenBack = pen.takenBack
  BY Hearing DEF PenActions
<1> HIDE DEF near
<1>3. /\ heard \in Styli /\ heard.near = pen.near /\ heard.down = pen.down
      /\ heard.takenBack = pen.takenBack
  BY <1>2, Hearing
<1>4. PenTold(pen.told, action) \in Pens
  BY DEF PenTold, Pens, Styli
<1> HIDE DEF heard
<1> QED BY <1>1, <1>3, <1>4 DEF Styli

LEMMA ForwardedKeeps ==
    ASSUME NEW pen \in Styli, NEW action \in PenActions, NEW p \in Places
    PROVE  LET after == PenForwarded(pen, scene, action, p)
           IN  /\ after \in Styli /\ after.near = pen.near /\ after.down = pen.down
               /\ after.takenBack = pen.takenBack
               /\ (/\ action = "enter" => ~pen.heard.near
                   /\ action = "leave" => ~pen.heard.down
                   /\ pen.near <=> action # "leave"
                   /\ ~pen.amiss
                   /\ pen.heard.down => pen.heard.near /\ (pen.down \/ action = "release")
                   /\ action = "press" => pen.down)
                  => Sound(after)
<1> DEFINE after == PenForwarded(pen, scene, action, p)
           forgotten == [pen EXCEPT !.told = PenUnknown, !.forwarded = action # "leave"]
<1>1. /\ forgotten \in Styli /\ forgotten.told = PenUnknown /\ forgotten.heard = pen.heard
      /\ forgotten.near = pen.near /\ forgotten.down = pen.down /\ forgotten.amiss = pen.amiss
      /\ forgotten.takenBack = pen.takenBack /\ forgotten.forwarded = (action # "leave")
  BY DEF Styli, Pens, PenUnknown
<1>2. CASE HitFocus(scene, p) # "game"
  <2>1. after = [forgotten EXCEPT !.heard = PenUnknown, !.forwarded = FALSE]
    BY <1>2 DEF PenForwarded
  <2> HIDE DEF forgotten
  <2>2. /\ after \in Styli /\ after.near = pen.near /\ after.down = pen.down
        /\ after.takenBack = pen.takenBack /\ after.heard = PenUnknown /\ after.told = PenUnknown
        /\ after.amiss = pen.amiss /\ ~after.forwarded
    BY <1>1, <2>1 DEF Styli, Pens, PenUnknown
  <2> HIDE DEF after
  <2> QED BY <2>2 DEF Sound, PenUnknown, after
<1>3. CASE HitFocus(scene, p) = "game"
  <2> DEFINE near == IF ~pen.heard.near /\ action # "enter" THEN PenHears(forgotten, "enter")
                     ELSE forgotten
  <2>1. after = IF action = "release" /\ ~pen.heard.down THEN near ELSE PenHears(near, action)
    BY <1>3 DEF PenForwarded
  <2> HIDE DEF forgotten
  <2>2. /\ near \in Styli /\ near.near = pen.near /\ near.down = pen.down
        /\ near.told = PenUnknown /\ near.takenBack = pen.takenBack
        /\ near.forwarded = (action # "leave")
        /\ ~pen.amiss => ~near.amiss
        /\ near.heard.near <=> pen.heard.near \/ action # "enter"
        /\ ((pen.heard.down => pen.heard.near) => (near.heard.down <=> pen.heard.down))
    BY <1>1, Hearing DEF PenActions, Pens, Styli
  <2> HIDE DEF near, after
  <2>3. CASE action = "release" /\ ~pen.heard.down
    <3>1. after = near
      BY <2>1, <2>3
    <3> QED BY <2>2, <2>3, <3>1 DEF Sound, Styli, Pens, PenActions, after
  <2>4. CASE ~(action = "release" /\ ~pen.heard.down)
    <3>1. after = PenHears(near, action)
      BY <2>1, <2>4
    <3>2. /\ after \in Styli /\ after.near = pen.near /\ after.down = pen.down
          /\ after.told = PenUnknown /\ after.takenBack = pen.takenBack
          /\ after.forwarded = (action # "leave")
          /\ after.heard.near <=> action # "leave"
          /\ after.heard.down <=> (near.heard.down \/ action = "press") /\ action \notin {"release", "leave"}
          /\ after.amiss <=> \/ near.amiss
                             \/ near.heard.near <=> action = "enter"
                             \/ action = "release" /\ ~near.heard.down
                             \/ action = "leave" /\ near.heard.down
      BY <2>2, <3>1, Hearing
    <3>3. action = "leave" => after.heard = PenUnknown
      BY <3>2 DEF Styli, Pens, PenUnknown
    <3> QED BY <2>2, <2>4, <3>2, <3>3 DEF Sound, PenActions, after
  <2> QED BY <2>3, <2>4
<1> QED BY <1>2, <1>3

LEMMA PenEventKeeps ==
    ASSUME PenInv, NEW p \in Places,
           NEW action \in PenActions, PenEvent(action, p)
    PROVE  PenInv'
<1> DEFINE pictured == TouchPictured(scene, p)
           near == action # "leave"
           down == (stylus.down \/ action = "press") /\ action # "release"
           back == stylus.takenBack \/ (pictured /\ stylus.forwarded)
           on == IF action = "press" THEN pictured ELSE stylus.onPicture
           pen == [stylus EXCEPT !.near = action # "leave",
                                 !.down = (@ \/ action = "press") /\ action # "release",
                                 !.takenBack = @ \/ (pictured /\ stylus.forwarded),
                                 !.onPicture = IF action = "press" THEN pictured ELSE @]
<1>1. stylus' = IF pictured THEN PenOnPicture(pen, action, p) ELSE PenForwarded(pen, scene, action, p)
  BY DEF PenEvent
<1>2. /\ (action = "enter") = ~stylus.near
      /\ action = "press" => ~stylus.down
      /\ action = "release" => stylus.down
      /\ action = "leave" => ~stylus.down
  BY DEF PenEvent
<1>3. pictured \in BOOLEAN
  BY DEF TouchPictured, Drawn
<1> HIDE DEF pictured
<1>31. near \in BOOLEAN /\ down \in BOOLEAN /\ back \in BOOLEAN /\ on \in BOOLEAN
  BY <1>3, Zenon DEF PenInv, Styli, Pens
<1>32. pen = [stylus EXCEPT !.near = near, !.down = down, !.takenBack = back, !.onPicture = on]
  BY Zenon
<1> HIDE DEF pen
<1>33. /\ near <=> action # "leave"
       /\ down <=> (stylus.down \/ action = "press") /\ action # "release"
       /\ back <=> stylus.takenBack \/ (pictured /\ stylus.forwarded)
  BY Zenon
<1> HIDE DEF near, down, back, on
<1>4. /\ pen \in Styli
      /\ pen.near <=> action # "leave"
      /\ pen.down <=> (stylus.down \/ action = "press") /\ action # "release"
      /\ pen.told = stylus.told /\ pen.heard = stylus.heard /\ pen.amiss = stylus.amiss
      /\ pen.forwarded = stylus.forwarded
      /\ pen.takenBack <=> stylus.takenBack \/ (pictured /\ stylus.forwarded)
  <2>1. /\ pen \in Styli
        /\ pen.near = near /\ pen.down = down /\ pen.takenBack = back
        /\ pen.told = stylus.told /\ pen.heard = stylus.heard /\ pen.amiss = stylus.amiss
        /\ pen.forwarded = stylus.forwarded
    BY <1>31, <1>32 DEF PenInv, Styli
  <2> QED BY <1>33, <2>1, Zenon
<1>5. pen.down => pen.near
  BY <1>2, <1>4 DEF PenInv, PenActions
<1>6. CASE pictured
  <2>1. ~pen.takenBack => Sound(PenOnPicture(pen, action, p))
    <3> SUFFICES ASSUME ~pen.takenBack
                 PROVE  Sound(PenOnPicture(pen, action, p))
      OBVIOUS
    <3>1. Sound(stylus) /\ ~stylus.forwarded
      BY <1>4, <1>6 DEF PenInv
    <3> QED BY <1>2, <1>4, <1>5, <3>1, OnPictureKeeps DEF Sound, PenActions
  <2> QED BY <1>1, <1>4, <1>5, <1>6, <2>1, OnPictureIs DEF PenInv
<1>7. CASE ~pictured
  <2>1. ~pen.takenBack => Sound(PenForwarded(pen, scene, action, p))
    <3> SUFFICES ASSUME ~pen.takenBack
                 PROVE  Sound(PenForwarded(pen, scene, action, p))
      OBVIOUS
    <3>1. Sound(stylus)
      BY <1>4, <1>7 DEF PenInv
    <3>2. /\ action = "enter" => ~pen.heard.near
          /\ action = "leave" => ~pen.heard.down
          /\ pen.near <=> action # "leave"
          /\ ~pen.amiss
          /\ pen.heard.down => pen.heard.near /\ (pen.down \/ action = "release")
          /\ action = "press" => pen.down
      BY <1>2, <1>4, <3>1 DEF Sound, PenActions
    <3> QED BY <1>4, <3>2, ForwardedKeeps
  <2> QED BY <1>1, <1>4, <1>5, <1>7, <2>1, ForwardedKeeps DEF PenInv
<1> QED BY <1>6, <1>7

\* Whatever the game is shown as, whatever picture begins or ends near the pen, what
\* is above the game and beside it, and wherever a pen comes near, touches and goes:
\* what it began for the game ends for it, and nothing ends that never began, but for
\* a pen that a picture took back after KWin had forwarded it to the game.
\* (pen(), pictureinput.cpp:339-383)
THEOREM WhatBeganEnds == InputSpec => []StrokesComplete
<1>1. InputInit => PenInv
  BY DEF InputInit, NoStylus, PenUnknown, PenInv, Sound, Styli, Pens
<1>2. PenInv /\ [InputNext]_pictureVars => PenInv'
  <2> SUFFICES ASSUME PenInv, [InputNext]_pictureVars
               PROVE  PenInv'
    OBVIOUS
  <2>1. CASE stylus' = stylus
    BY <2>1 DEF PenInv
  <2>2. ASSUME NEW p \in Places, NEW action \in {"enter", "leave", "motion", "press", "release"},
               PenEvent(action, p)
        PROVE  PenInv'
    BY <2>2, PenEventKeeps DEF PenActions
  <2> QED
    BY <2>1, <2>2
       DEF InputNext, pictureVars, PointerMotion, PointerWarp, PointerButton, PointerAxis,
           PointerEvent, TouchDown, TouchMotion, TouchUp, TabletToolProximity, TabletToolAxis,
           TabletToolTip, SceneChanges, Judged, Activates, Unload
<1>3. PenInv => StrokesComplete
  BY DEF PenInv, Sound, Styli, StrokesComplete
<1> QED BY <1>1, <1>2, <1>3, PTL DEF InputSpec

-----------------------------------------------------------------------------
(* No two displays share a corner (placement.cpp).                         *)

Layouts == [Displays3 -> Corners]
ApartFrom(c, d) == \A e \in Displays3 \ {d} : c[e] # c[d]

LEMMA LeastOfFew ==
    ASSUME NEW T \in SUBSET (1..4), T # {}
    PROVE  Min(T) \in T
<1>1. \E x \in T : \A y \in T : x <= y
  <2>1. CASE 1 \in T
    BY <2>1
  <2>2. CASE 1 \notin T /\ 2 \in T
    BY <2>2
  <2>3. CASE 1 \notin T /\ 2 \notin T /\ 3 \in T
    BY <2>3
  <2>4. CASE 1 \notin T /\ 2 \notin T /\ 3 \notin T
    <3>1. \A y \in T : y \in 1..4 /\ y # 1 /\ y # 2 /\ y # 3
      BY <2>4
    <3>2. \A y \in T : y = 4
      BY <3>1
    <3>3. PICK x : x \in T
      OBVIOUS
    <3> QED BY <3>2, <3>3
  <2> QED BY <2>1, <2>2, <2>3, <2>4
<1> QED BY <1>1 DEF Min

\* Of four corners, two others leave one.
LEMMA FreeCornerIsFree ==
    ASSUME NEW c \in Layouts, NEW d \in Displays3, NEW from \in Corners
    PROVE  /\ FreeCornerAfter(c, d, from) \in Corners
           /\ \A e \in Displays3 \ {d} : c[e] # FreeCornerAfter(c, d, from)
<1> DEFINE taken == {c[e] : e \in Displays3 \ {d}}
           ahead == {n \in 1..4 : (from + n) % 4 \notin taken}
<1>1. PICK x \in Corners, y \in Corners : taken = {x, y}
  <2>1. d = 1 \/ d = 2 \/ d = 3
    BY DEF Displays3
  <2>2. c[1] \in Corners /\ c[2] \in Corners /\ c[3] \in Corners
    BY DEF Layouts, Displays3
  <2>3. CASE d = 1
    <3>1. taken = {c[2], c[3]}
      BY <2>3 DEF Displays3
    <3> QED BY <2>2, <3>1
  <2>4. CASE d = 2
    <3>1. taken = {c[1], c[3]}
      BY <2>4 DEF Displays3
    <3> QED BY <2>2, <3>1
  <2>5. CASE d = 3
    <3>1. taken = {c[1], c[2]}
      BY <2>5 DEF Displays3
    <3> QED BY <2>2, <3>1
  <2> QED BY <2>1, <2>3, <2>4, <2>5
<1>2. \A n \in 1..4 : (from + n) % 4 \in Corners
  BY DEF Corners
<1>3. ahead # {}
  <2>1. \E n \in 1..3 : (from + n) % 4 # x /\ (from + n) % 4 # y
    <3>1. /\ from = 0 => (from + 1) % 4 = 1 /\ (from + 2) % 4 = 2 /\ (from + 3) % 4 = 3
          /\ from = 1 => (from + 1) % 4 = 2 /\ (from + 2) % 4 = 3 /\ (from + 3) % 4 = 0
          /\ from = 2 => (from + 1) % 4 = 3 /\ (from + 2) % 4 = 0 /\ (from + 3) % 4 = 1
          /\ from = 3 => (from + 1) % 4 = 0 /\ (from + 2) % 4 = 1 /\ (from + 3) % 4 = 2
      OBVIOUS
    <3>2. from = 0 \/ from = 1 \/ from = 2 \/ from = 3
      BY DEF Corners
    <3>3. \E n \in 1..3 : LET at == (from + n) % 4 IN at # x /\ at # y
      <4>1. 1 \in 1..3 /\ 2 \in 1..3 /\ 3 \in 1..3
        OBVIOUS
      <4>2. \/ (from + 1) % 4 \notin {x, y} \/ (from + 2) % 4 \notin {x, y}
            \/ (from + 3) % 4 \notin {x, y}
        BY <3>1, <3>2
      <4> QED BY <4>1, <4>2
    <3> QED BY <3>3
  <2> QED BY <1>1, <2>1
<1>4. Min(ahead) \in ahead
  BY <1>3, LeastOfFew
<1>5. FreeCornerAfter(c, d, from) = (from + Min(ahead)) % 4
  BY DEF FreeCornerAfter
<1> HIDE DEF ahead, taken
<1>6. Min(ahead) \in 1..4 /\ (from + Min(ahead)) % 4 \notin taken
  BY <1>4 DEF ahead
<1> QED BY <1>2, <1>5, <1>6 DEF taken

\* One display moved out of the way of what it shares its corner with.
LEMMA MovedOff ==
    ASSUME NEW c \in Layouts, NEW d \in Displays3, NEW from \in Corners
    PROVE  LET moved == [c EXCEPT ![d] = FreeCornerAfter(c, d, from)]
           IN  /\ moved \in Layouts
               /\ ApartFrom(moved, d)
               /\ \A e \in Displays3 \ {d} : moved[e] = c[e]
BY FreeCornerIsFree DEF Layouts, ApartFrom

LEMMA Separated ==
    ASSUME NEW c \in Layouts
    PROVE  SeparateCorners(c) \in Layouts /\ IsInjective(SeparateCorners(c))
<1> DEFINE Step(l, d) == IF \E e \in 1..(d - 1) : l[e] = l[d]
                         THEN [l EXCEPT ![d] = FreeCornerAfter(l, d, l[d])] ELSE l
           one == Step(c, 2)
           two == Step(one, 3)
<1>1. SeparateCorners(c) = two
  BY DEF SeparateCorners
<1>2. ASSUME NEW l \in Layouts, NEW d \in {2, 3}
      PROVE  /\ Step(l, d) \in Layouts
             /\ \A e \in 1..(d - 1) : Step(l, d)[e] # Step(l, d)[d] /\ Step(l, d)[e] = l[e]
  <2>1. d \in Displays3 /\ l[d] \in Corners /\ 1..(d - 1) \subseteq Displays3 \ {d}
    BY DEF Layouts, Displays3
  <2>2. CASE \E e \in 1..(d - 1) : l[e] = l[d]
    <3>1. Step(l, d) = [l EXCEPT ![d] = FreeCornerAfter(l, d, l[d])]
      BY <2>2
    <3> QED BY <2>1, <3>1, MovedOff DEF ApartFrom
  <2>3. CASE ~\E e \in 1..(d - 1) : l[e] = l[d]
    BY <2>3
  <2> QED BY <2>2, <2>3
<1> HIDE DEF Step
<1>3. one \in Layouts /\ one[1] # one[2]
  BY <1>2
<1>4. two \in Layouts /\ two[1] # two[3] /\ two[2] # two[3] /\ two[1] = one[1] /\ two[2] = one[2]
  BY <1>2, <1>3
<1>5. two[1] # two[2]
  BY <1>3, <1>4
<1> HIDE DEF one, two
<1> QED BY <1>1, <1>4, <1>5 DEF IsInjective, Layouts, Displays3

\* Corners that are apart stay as they are.
LEMMA ApartIsKept ==
    ASSUME NEW c \in Layouts, IsInjective(c)
    PROVE  SeparateCorners(c) = c
<1> DEFINE Step(l, d) == IF \E e \in 1..(d - 1) : l[e] = l[d]
                         THEN [l EXCEPT ![d] = FreeCornerAfter(l, d, l[d])] ELSE l
<1>1. SeparateCorners(c) = Step(Step(c, 2), 3)
  BY DEF SeparateCorners
<1>2. \A d \in {2, 3} : Step(c, d) = c
  BY DEF IsInjective, Layouts, Displays3
<1> HIDE DEF Step
<1> QED BY <1>1, <1>2

LEMMA Taken ==
    ASSUME NEW c \in Layouts, NEW m \in Displays3, NEW corner \in Corners
    PROVE  /\ TakeCorner(c, m, corner) \in Layouts
           /\ IsInjective(c) => IsInjective(TakeCorner(c, m, corner))
<1> DEFINE placed == [c EXCEPT ![m] = corner]
           Step(l, d) == IF d # m /\ l[d] = corner
                         THEN [l EXCEPT ![d] = FreeCornerAfter(l, d, corner)] ELSE l
           one == Step(placed, 1)
           two == Step(one, 2)
           three == Step(two, 3)
           Others(l) == \A d, e \in Displays3 \ {m} : d # e => l[d] # l[e]
           Good(l) == l \in Layouts /\ l[m] = corner /\ (IsInjective(c) => Others(l))
<1>1. TakeCorner(c, m, corner) = three
  BY DEF TakeCorner
<1>2. Good(placed)
  BY DEF Layouts, IsInjective
<1>3. ASSUME NEW l, Good(l), NEW d \in Displays3
      PROVE  /\ Good(Step(l, d)) /\ (d # m => Step(l, d)[d] # corner)
             /\ \A e \in Displays3 \ {m} : l[e] # corner => Step(l, d)[e] # corner
  <2>1. CASE d # m /\ l[d] = corner
    <3>1. Step(l, d) = [l EXCEPT ![d] = FreeCornerAfter(l, d, corner)]
      BY <2>1
    <3>2. /\ Step(l, d) \in Layouts /\ ApartFrom(Step(l, d), d)
          /\ \A e \in Displays3 \ {d} : Step(l, d)[e] = l[e]
      BY <1>3, <3>1, MovedOff
    <3> HIDE DEF Step
    <3> QED BY <1>3, <2>1, <3>2 DEF ApartFrom
  <2>2. CASE ~(d # m /\ l[d] = corner)
    BY <1>3, <2>2
  <2> QED BY <2>1, <2>2
<1> HIDE DEF Step, placed
<1>4. Good(one) /\ (1 # m => one[1] # corner)
  BY <1>2, <1>3 DEF Displays3
<1>5. Good(two) /\ (1 # m => two[1] # corner) /\ (2 # m => two[2] # corner)
  BY <1>3, <1>4 DEF Displays3
<1>6. Good(three) /\ \A e \in Displays3 \ {m} : three[e] # corner
  BY <1>3, <1>5 DEF Displays3
<1> HIDE DEF one, two, three
<1> QED BY <1>1, <1>6 DEF IsInjective, Layouts, Displays3

-----------------------------------------------------------------------------
(* What is stored and what is read back.                                   *)

NumberStated(f) == "MinimumPixels" \in DOMAIN f => f["MinimumPixels"] # NoNumber
Legible(f) == CornersStated(f) /\ NumberStated(f)

LEMMA KeysAre ==
    /\ CurrentKeys \cap LegacyKeys = {}
    /\ CurrentKeys = {"UnlistedApplications", "Resolution", "Percentage", "MinimumPixels", "Method",
                      "Rest", CornerKeys[1], CornerKeys[2], CornerKeys[3]}
    /\ CornerKeys[1] = "OsdAnnouncementPosition" /\ CornerKeys[2] = "OsdStatisticsPosition"
    /\ CornerKeys[3] = "OsdDeveloperPosition"
BY DEF CurrentKeys, LegacyKeys, CornerKeys, Default

LEMMA DefaultIs ==
    /\ Default[CornerKeys[1]] = 0 /\ Default[CornerKeys[2]] = 1 /\ Default[CornerKeys[3]] = 3
    /\ Default["MinimumPixels"] # NoNumber
BY PageAssumption DEF Default, CornerKeys

\* Any corners are shown and kept apart.
LEMMA ReadsCorners ==
    ASSUME NEW f, Legible(f)
    PROVE  LET stored == StoredCorners(ReadConfig(f))
           IN  /\ StoredCorners(Default) \in Layouts
               /\ LegacyCorners(f, stored) \in Layouts
               /\ ReadConfig(f)["MinimumPixels"] # NoNumber
<1>1. \A d \in Displays3 : Default[CornerKeys[d]] \in Corners
  BY DefaultIs DEF Displays3, Corners
<1>2. \A d \in Displays3 : CornerKeys[d] \in CurrentKeys
  BY KeysAre DEF Displays3
<1>3. \A d \in Displays3 : ReadConfig(f)[CornerKeys[d]] \in Corners
  BY <1>1, <1>2 DEF ReadConfig, Legible, CornersStated, Has
<1>4. ReadConfig(f)["MinimumPixels"] # NoNumber
  BY DefaultIs, KeysAre DEF ReadConfig, Legible, NumberStated, Has
<1>5. StoredCorners(ReadConfig(f)) \in Layouts /\ StoredCorners(Default) \in Layouts
  BY <1>1, <1>3 DEF StoredCorners, Layouts
<1>6. Has(f, "OsdPosition") => f["OsdPosition"] \in Corners
  BY DEF Has, Legible, CornersStated
<1>7. LegacyCorners(f, StoredCorners(ReadConfig(f))) \in Layouts
  BY <1>5, <1>6, Taken DEF LegacyCorners, Displays3
<1> QED BY <1>4, <1>5, <1>7

\* What Apply writes is what is read back, and no old key is left.
LEMMA WrittenIsRead ==
    ASSUME NEW f, NEW c, c = [k \in CurrentKeys |-> c[k]],
           NEW stored, stored = ForgetLegacy(Written(f, c, ReadConfig(f)))
    PROVE  /\ ReadConfig(stored) = c
           /\ \A k \in LegacyKeys : ~Has(stored, k)
           /\ SwitchedOff(stored) = SwitchedOff(f)
<1> DEFINE changed == {k \in CurrentKeys : c[k] # ReadConfig(f)[k]}
           stated == (DOMAIN f \ changed) \cup {k \in changed : c[k] # Default[k]}
           written == [k \in stated |-> IF k \in changed THEN c[k] ELSE f[k]]
<1>1. stored = [k \in DOMAIN written \ LegacyKeys |-> written[k]]
  BY DEF ForgetLegacy, Written, Restrict
<1>2. \A k \in CurrentKeys : k \in DOMAIN stored <=> k \in stated
  BY <1>1, KeysAre
<1>3. \A k \in CurrentKeys : (IF k \in DOMAIN stored THEN stored[k] ELSE Default[k]) = c[k]
  <2> SUFFICES ASSUME NEW k \in CurrentKeys
               PROVE  (IF k \in DOMAIN stored THEN stored[k] ELSE Default[k]) = c[k]
    OBVIOUS
  <2>1. k \in stated => stored[k] = IF k \in changed THEN c[k] ELSE f[k]
    BY <1>1, KeysAre
  <2>2. ReadConfig(f)[k] = IF k \in DOMAIN f THEN f[k] ELSE Default[k]
    BY DEF ReadConfig, Has
  <2> QED BY <1>2, <2>1, <2>2
<1> HIDE DEF changed, stated, written
<1>4. ReadConfig(stored) = c
  BY <1>3 DEF ReadConfig, Has
<1>5. \A k \in LegacyKeys : ~Has(stored, k)
  BY <1>1 DEF Has
<1>6. SwitchedOff(stored) = SwitchedOff(f)
  <2>1. OldSwitch \notin CurrentKeys /\ OldSwitch \notin LegacyKeys
    BY KeysAre DEF OldSwitch, LegacyKeys, CornerKeys
  <2>2. (OldSwitch \in DOMAIN stored) <=> OldSwitch \in DOMAIN f
    BY <1>1, <2>1 DEF changed, stated, written
  <2>3. OldSwitch \in DOMAIN f => stored[OldSwitch] = f[OldSwitch]
    BY <1>1, <2>1, <2>2 DEF changed, stated, written
  <2> QED BY <2>2, <2>3 DEF SwitchedOff, Has
<1> QED BY <1>4, <1>5, <1>6

-----------------------------------------------------------------------------
(* The page, the file and the effect.                                      *)

Shaped(p) ==
    p = [all |-> p.all, preset |-> p.preset, scale |-> p.scale, limit |-> p.limit,
         corners |-> p.corners, method |-> p.method, rest |-> p.rest]
\* What the controls show can be applied as it is.
Consistent(p) ==
    /\ Shaped(p) /\ p.all \in BOOLEAN
    /\ p.corners \in Layouts /\ IsInjective(p.corners)
    /\ p = Followed(p)
    /\ plugging => p.limit # NoNumber
PageInv ==
    /\ Legible(file) /\ loaded = ReadConfig(file)
    /\ config["MinimumPixels"] # NoNumber
    /\ Consistent(page)
    /\ ~unsaved => ShownOnPage(page, config) = Followed(Translated(file))
    /\ applying \in Nat /\ (applying = 0 => kept = KeptGlobal(file))
    /\ kept.switchedOff = SwitchedOff(file)

LEMMA FollowedIs ==
    ASSUME NEW p, Shaped(p)
    PROVE  /\ Shaped(Followed(p)) /\ Followed(Followed(p)) = Followed(p)
           /\ Followed(p).all = p.all /\ Followed(p).corners = p.corners
           /\ Followed(p).limit = p.limit
<1>1. CASE p.preset = CustomPreset
  <2>1. Followed(p) = p
    BY <1>1 DEF Followed
  <2> QED BY <2>1
<1>2. CASE p.preset # CustomPreset
  <2> DEFINE scale == PresetScale(p.preset)
             q == [all |-> p.all, preset |-> p.preset, scale |-> scale, limit |-> p.limit,
                   corners |-> p.corners, method |-> p.method, rest |-> p.rest]
  <2> HIDE DEF scale
  <2>1. Followed(p) = [p EXCEPT !.scale = scale]
    BY <1>2 DEF Followed, scale
  <2>2. Followed(p) = q
    BY <2>1 DEF Shaped
  <2>3. Followed(q) = [q EXCEPT !.scale = scale]
    BY <1>2 DEF Followed, scale
  <2>4. Followed(q) = q
    BY <2>3
  <2> QED BY <2>2, <2>4 DEF Shaped
<1> QED BY <1>1, <1>2

\* Whatever is read is shown as the effect takes it, once the old keys are read.
LEMMA ShowsWhatIsRead ==
    ASSUME NEW f, Legible(f)
    PROVE  LET p == ShowSettings(f, ReadConfig(f), TRUE)
               d == ShowSettings(f, Default, FALSE)
           IN  /\ Consistent(p) /\ Consistent(d)
               /\ ShownOnPage(p, ReadConfig(f)) = Followed(Translated(f))
<1> DEFINE c == ReadConfig(f)
           raw == [all |-> c["UnlistedApplications"] \/ LegacyUnlisted(f),
                   preset |-> LegacyResolution(f, c["Resolution"]),
                   scale |-> c["Percentage"], limit |-> c["MinimumPixels"],
                   corners |-> SeparateCorners(LegacyCorners(f, StoredCorners(c))),
                   method |-> GlobalMethod(f), rest |-> c["Rest"]]
           plain == [all |-> Default["UnlistedApplications"],
                     preset |-> Default["Resolution"],
                     scale |-> Default["Percentage"], limit |-> Default["MinimumPixels"],
                     corners |-> SeparateCorners(StoredCorners(Default)),
                     method |-> GlobalMethod(f), rest |-> Default["Rest"]]
<1>1. Translated(f) = raw
  BY DEF Translated
<1>2. ShowSettings(f, c, TRUE) = Followed(raw)
  BY DEF ShowSettings
<1>3. ShowSettings(f, Default, FALSE) = Followed(plain)
  <2>1. Default["UnlistedApplications"] = FALSE
    BY DEF Default
  <2>2. (Default["UnlistedApplications"] \/ (FALSE /\ LegacyUnlisted(f))) = Default["UnlistedApplications"]
    BY <2>1
  <2> QED BY <2>2 DEF ShowSettings
<1>4. /\ Shaped(raw) /\ raw.all \in BOOLEAN /\ raw.limit # NoNumber
      /\ raw.corners \in Layouts /\ IsInjective(raw.corners)
  BY ReadsCorners, Separated DEF Shaped
<1>5. /\ Shaped(plain) /\ plain.all \in BOOLEAN /\ plain.limit # NoNumber
      /\ plain.corners \in Layouts /\ IsInjective(plain.corners)
  <2>1. Default["UnlistedApplications"] \in BOOLEAN
    BY DEF Default
  <2> QED BY <2>1, ReadsCorners, DefaultIs, Separated DEF Shaped
<1> HIDE DEF raw, plain
<1>6. Consistent(Followed(raw)) /\ Consistent(Followed(plain))
  BY <1>4, <1>5, FollowedIs DEF Consistent
<1>7. ShownOnPage(Followed(raw), c) = Followed(raw)
  <2>1. ShownLimit(Followed(raw), c) = Followed(raw).limit
    BY <1>4, FollowedIs DEF ShownLimit
  <2> QED BY <1>4, <2>1, FollowedIs DEF ShownOnPage, Shaped
<1> QED BY <1>1, <1>2, <1>3, <1>6, <1>7

\* What is applied is what the effect reads, whatever the file said before.
LEMMA AppliedIsRead ==
    ASSUME NEW p, Consistent(p), NEW c, c["MinimumPixels"] # NoNumber, NEW f, Legible(f),
           NEW stored, stored = ForgetLegacy(Written(f, Handed(p, c), ReadConfig(f)))
    PROVE  /\ Legible(stored) /\ ReadConfig(stored) = Handed(p, c)
           /\ Handed(p, c)["MinimumPixels"] # NoNumber
           /\ ShownOnPage(p, Handed(p, c)) = Followed(Translated(stored))
           /\ SwitchedOff(stored) = SwitchedOff(f)
<1> DEFINE h == Handed(p, c)
<1>1. /\ h = [k \in CurrentKeys |-> h[k]]
      /\ h["UnlistedApplications"] = p.all /\ h["Resolution"] = p.preset
      /\ h["Percentage"] = p.scale /\ h["MinimumPixels"] = ShownLimit(p, c)
      /\ h["Method"] = p.method /\ h["Rest"] = p.rest
      /\ \A d \in Displays3 : h[CornerKeys[d]] = p.corners[d]
  BY DEF Handed, CurrentKeys, Default, CornerKeys, Displays3
<1> HIDE DEF h
<1>2. /\ ReadConfig(stored) = h /\ \A k \in LegacyKeys : ~Has(stored, k)
      /\ SwitchedOff(stored) = SwitchedOff(f)
  BY <1>1, WrittenIsRead DEF h
<1>3. ~Has(stored, "Preset") /\ ~Has(stored, "UnknownApplications") /\ ~Has(stored, "OsdPosition")
  BY <1>2 DEF LegacyKeys
<1>4. ShownLimit(p, c) # NoNumber
  BY DEF ShownLimit
<1>5. \A k \in CurrentKeys : Has(stored, k) => stored[k] = h[k]
  BY <1>2 DEF ReadConfig
<1>6. Legible(stored)
  <2>1. \A d \in Displays3 : CornerKeys[d] \in CurrentKeys
    BY KeysAre DEF Displays3
  <2>2. CornersStated(stored)
    BY <1>1, <1>3, <1>5, <2>1 DEF CornersStated, Consistent, Layouts, Has
  <2>3. NumberStated(stored)
    BY <1>1, <1>4, <1>5, KeysAre DEF NumberStated, Has
  <2> QED BY <2>2, <2>3 DEF Legible
<1>7. StoredCorners(h) = p.corners
  BY <1>1 DEF StoredCorners, Consistent, Layouts
<1> DEFINE q == [all |-> p.all, preset |-> p.preset, scale |-> p.scale, limit |-> ShownLimit(p, c),
                 corners |-> p.corners, method |-> p.method, rest |-> p.rest]
<1>8. Translated(stored) = q
  <2>1. ~LegacyUnlisted(stored)
    BY <1>3 DEF LegacyUnlisted
  <2>2. LegacyResolution(stored, h["Resolution"]) = p.preset
    BY <1>1, <1>3 DEF LegacyResolution
  <2>3. GlobalMethod(stored) = p.method
    BY <1>1, <1>2, <2>1 DEF GlobalMethod
  <2>4. SeparateCorners(LegacyCorners(stored, StoredCorners(h))) = p.corners
    BY <1>3, <1>7, ApartIsKept DEF LegacyCorners, Consistent
  <2>5. (h["UnlistedApplications"] \/ LegacyUnlisted(stored)) = p.all
    BY <1>1, <2>1 DEF Consistent
  <2> QED BY <1>1, <1>2, <2>2, <2>3, <2>4, <2>5 DEF Translated
<1>9. ShownOnPage(p, h) = q
  <2>1. ShownLimit(p, h) = ShownLimit(p, c)
    BY <1>1 DEF ShownLimit
  <2> HIDE DEF q
  <2>2. ShownOnPage(p, h) = [p EXCEPT !.limit = ShownLimit(p, c)]
    BY <2>1 DEF ShownOnPage
  <2> QED BY <2>2 DEF Consistent, Shaped, q
<1>10. Followed(q) = q
  <2>1. p.preset # CustomPreset => p.scale = PresetScale(p.preset)
    <3>1. p.preset # CustomPreset => Followed(p) = [p EXCEPT !.scale = PresetScale(p.preset)]
      BY DEF Followed
    <3> HIDE DEF PresetScale
    <3> QED BY <3>1 DEF Consistent, Shaped
  <2> QED BY <2>1 DEF Followed
<1> HIDE DEF q
<1> QED BY <1>1, <1>2, <1>4, <1>6, <1>8, <1>9, <1>10 DEF h

\* Every edit leaves what can be applied as it is.
LEMMA EditKeeps ==
    ASSUME PageInv, NEW p, Edit(p), Shaped(p), p.all \in BOOLEAN, p.corners \in Layouts,
           IsInjective(p.corners), plugging => p.limit # NoNumber
    PROVE  PageInv'
<1>1. /\ page' = Followed(p) /\ unsaved' = TRUE /\ plugging' = plugging
      /\ UNCHANGED <<file, config, loaded, applying, kept>>
  BY DEF Edit
<1>2. Consistent(page)'
  BY <1>1, FollowedIs DEF Consistent, Shaped
<1> QED BY <1>1, <1>2 DEF PageInv

LEMMA EditsKeep ==
    ASSUME PageInv,
           \/ CheckAll \/ ChoosePreset \/ DragScale \/ TypeScale \/ ChooseLimit
           \/ ChooseMethod \/ ChooseRest \/ ChooseCorner
    PROVE  PageInv'
<1> DEFINE CanShow(p) == /\ Shaped(p) /\ p.all \in BOOLEAN /\ p.corners \in Layouts
                      /\ IsInjective(p.corners) /\ (plugging => p.limit # NoNumber)
<1>1. Shaped(page) /\ CanShow(page)
  BY DEF PageInv, Consistent
<1>2. \A x : CanShow([page EXCEPT !.preset = x]) /\ CanShow([page EXCEPT !.method = x])
             /\ CanShow([page EXCEPT !.rest = x]) /\ CanShow([page EXCEPT !.scale = x, !.preset = CustomPreset])
  <2>1. \A x : CanShow([page EXCEPT !.preset = x])
    BY <1>1 DEF Shaped
  <2>2. \A x : CanShow([page EXCEPT !.method = x])
    BY <1>1 DEF Shaped
  <2>3. \A x : CanShow([page EXCEPT !.rest = x])
    BY <1>1 DEF Shaped
  <2>4. ASSUME NEW x
        PROVE  CanShow([page EXCEPT !.scale = x, !.preset = CustomPreset])
    <3> DEFINE one == [page EXCEPT !.scale = x]
               two == [one EXCEPT !.preset = CustomPreset]
    <3>1. CanShow(one)
      BY <1>1 DEF Shaped
    <3> HIDE DEF one
    <3>2. CanShow(two)
      BY <3>1 DEF Shaped
    <3>3. two = [page EXCEPT !.scale = x, !.preset = CustomPreset]
      BY Zenon DEF one
    <3> HIDE DEF two
    <3> QED BY <3>2, <3>3
  <2> QED BY <2>1, <2>2, <2>3, <2>4
<1>3. CanShow([page EXCEPT !.all = ~@])
  BY <1>1 DEF Shaped
<1>4. \A x : x # NoNumber \/ ~plugging => CanShow([page EXCEPT !.limit = x])
  BY <1>1 DEF Shaped
<1>5. \A d \in Displays3, x \in Corners : CanShow([page EXCEPT !.corners = TakeCorner(@, d, x)])
  <2> SUFFICES ASSUME NEW d \in Displays3, NEW x \in Corners
               PROVE  CanShow([page EXCEPT !.corners = TakeCorner(page.corners, d, x)])
    OBVIOUS
  <2>1. TakeCorner(page.corners, d, x) \in Layouts /\ IsInjective(TakeCorner(page.corners, d, x))
    BY <1>1, Taken
  <2> QED BY <1>1, <2>1 DEF Shaped
<1> HIDE DEF CanShow
<1>6. \A p : CanShow(p) /\ Edit(p) => PageInv'
  BY EditKeeps DEF CanShow
<1>7. CASE CheckAll
  BY <1>3, <1>6, <1>7 DEF CheckAll
<1>8. CASE ChoosePreset
  BY <1>2, <1>6, <1>8 DEF ChoosePreset
<1>9. CASE DragScale
  BY <1>2, <1>6, <1>9 DEF DragScale, SetScale
<1>10. CASE TypeScale
  BY <1>2, <1>6, <1>10 DEF TypeScale, SetScale
<1>11. CASE ChooseLimit
  <2>1. PICK x \in Limits \cup (IF plugging THEN {} ELSE {NoNumber}) : Edit([page EXCEPT !.limit = x])
    BY <1>11 DEF ChooseLimit
  <2>2. x # NoNumber \/ ~plugging
    BY PageAssumption
  <2> QED BY <1>4, <1>6, <2>1, <2>2
<1>12. CASE ChooseMethod
  BY <1>2, <1>6, <1>12 DEF ChooseMethod
<1>13. CASE ChooseRest
  <2>1. Edit([page EXCEPT !.rest = 1 - page.rest])
    BY <1>13 DEF ChooseRest
  <2> QED BY <1>2, <1>6, <2>1
<1>14. CASE ChooseCorner
  <2>1. PICK d \in Displays3, x \in Corners : Edit([page EXCEPT !.corners = TakeCorner(page.corners, d, x)])
    BY <1>14 DEF ChooseCorner
  <2> QED BY <1>5, <1>6, <2>1
<1> QED BY <1>7, <1>8, <1>9, <1>10, <1>11, <1>12, <1>13, <1>14

\* The old switch is the one difference of what the effect does.
LEMMA SwitchIsTheDifference ==
    ASSUME NEW f
    PROVE  /\ [Followed(Translated(f)) EXCEPT !.all = @ /\ ~SwitchedOff(f)] = Followed(GlobalSettings(f))
           /\ KeptGlobal(f).settings = GlobalSettings(f) /\ KeptGlobal(f).switchedOff = SwitchedOff(f)
<1> DEFINE t == Translated(f)
           all == t.all /\ ~SwitchedOff(f)
<1>1. Shaped(t)
  BY DEF Translated, Shaped
<1>2. GlobalSettings(f) = [t EXCEPT !.all = all]
  BY DEF GlobalSettings
<1>3. KeptGlobal(f).settings = GlobalSettings(f) /\ KeptGlobal(f).switchedOff = SwitchedOff(f)
  BY Zenon DEF KeptGlobal
<1>4. Followed(t).all = t.all
  BY <1>1, FollowedIs
<1>5. [Followed(t) EXCEPT !.all = @ /\ ~SwitchedOff(f)] = [Followed(t) EXCEPT !.all = all]
  BY <1>4
<1> HIDE DEF t, all
<1>6. [Followed(t) EXCEPT !.all = all] = Followed([t EXCEPT !.all = all])
  <2>1. CASE t.preset = CustomPreset
    <3>1. Followed(t) = t /\ Followed([t EXCEPT !.all = all]) = [t EXCEPT !.all = all]
      BY <1>1, <2>1 DEF Followed, Shaped
    <3> QED BY <3>1
  <2>2. CASE t.preset # CustomPreset
    <3> DEFINE scale == PresetScale(t.preset)
    <3>1. Followed(t) = [t EXCEPT !.scale = scale]
      BY <2>2 DEF Followed
    <3>2. [t EXCEPT !.all = all].preset = t.preset
      BY <1>1 DEF Shaped
    <3>3. Followed([t EXCEPT !.all = all]) = [[t EXCEPT !.all = all] EXCEPT !.scale = scale]
      BY <2>2, <3>2 DEF Followed
    <3> HIDE DEF scale
    <3> QED BY <1>1, <3>1, <3>3 DEF Shaped
  <2> QED BY <2>1, <2>2
<1> QED BY <1>2, <1>3, <1>5, <1>6 DEF t

LEMMA PageStarts == PageInit => PageInv
<1> SUFFICES ASSUME PageInit
             PROVE  PageInv
  OBVIOUS
<1>1. Legible(file)
  BY PageAssumption DEF PageInit, Legible, NumberStated
<1>2. ReadConfig(file)["MinimumPixels"] # NoNumber
  BY <1>1, ReadsCorners
<1>3. /\ config = ReadConfig(file) /\ loaded = ReadConfig(file)
      /\ page = ShowSettings(file, ReadConfig(file), TRUE)
      /\ applying = 0 /\ kept = KeptGlobal(file)
  BY DEF PageInit
<1>4. Consistent(page) /\ ShownOnPage(page, config) = Followed(Translated(file))
  BY <1>1, <1>3, ShowsWhatIsRead
<1>5. kept.switchedOff = SwitchedOff(file)
  BY <1>3, SwitchIsTheDifference
<1> QED BY <1>1, <1>2, <1>3, <1>4, <1>5 DEF PageInv

LEMMA PageSteps == PageInv /\ [PageNext]_pageVars => PageInv'
<1> SUFFICES ASSUME PageInv, [PageNext]_pageVars
             PROVE  PageInv'
  OBVIOUS
<1>1. CASE \/ CheckAll \/ ChoosePreset \/ DragScale \/ TypeScale \/ ChooseLimit
           \/ ChooseMethod \/ ChooseRest \/ ChooseCorner
  BY <1>1, EditsKeep
<1>2. CASE ScreensChange
  <2>1. page' = page
    BY <1>2 DEF ScreensChange, PageInv, Consistent, Shaped
  <2>2. UNCHANGED <<file, config, loaded, unsaved, applying, kept, plugging>>
    BY <1>2 DEF ScreensChange
  <2> QED BY <2>1, <2>2 DEF PageInv, Consistent
<1>3. CASE Load
  <2>1. /\ config' = ReadConfig(file) /\ loaded' = ReadConfig(file)
        /\ page' = ShowSettings(file, ReadConfig(file), TRUE)
        /\ UNCHANGED <<file, applying, kept, plugging>>
    BY <1>3 DEF Load
  <2>2. Consistent(page') /\ ShownOnPage(page', config') = Followed(Translated(file))
    BY <2>1, ShowsWhatIsRead DEF PageInv
  <2>3. config'["MinimumPixels"] # NoNumber
    BY <2>1, ReadsCorners DEF PageInv
  <2> QED BY <2>1, <2>2, <2>3 DEF PageInv, Consistent
<1>4. CASE Defaults
  <2>1. /\ config' = Default /\ unsaved' = TRUE
        /\ page' = ShowSettings(file, Default, FALSE)
        /\ UNCHANGED <<file, loaded, applying, kept, plugging>>
    BY <1>4 DEF Defaults
  <2>2. Consistent(page')
    BY <2>1, ShowsWhatIsRead DEF PageInv
  <2> QED BY <2>1, <2>2, DefaultIs DEF PageInv, Consistent
<1>5. CASE Apply
  <2>1. /\ file' = ForgetLegacy(Written(file, Handed(page, config), ReadConfig(file)))
        /\ config' = Handed(page, config) /\ loaded' = Handed(page, config)
        /\ applying' = applying + 1
        /\ UNCHANGED <<page, kept, plugging>>
    BY <1>5 DEF Apply, PageInv
  <2>2. /\ Legible(file') /\ ReadConfig(file') = Handed(page, config)
        /\ config'["MinimumPixels"] # NoNumber
        /\ ShownOnPage(page, config') = Followed(Translated(file'))
        /\ SwitchedOff(file') = SwitchedOff(file)
    BY <2>1, AppliedIsRead DEF PageInv
  <2> QED BY <2>1, <2>2 DEF PageInv, Consistent
<1>6. CASE ReconfigureEffect
  BY <1>6, SwitchIsTheDifference DEF ReconfigureEffect, PageInv, Consistent
<1>7. CASE UNCHANGED pageVars
  BY <1>7 DEF pageVars, PageInv, Consistent
<1> QED BY <1>1, <1>2, <1>3, <1>4, <1>5, <1>6, <1>7 DEF PageNext

\* For any file of either release, thresholds, screens and edits, and however long
\* the effect takes to be told: while there is nothing to apply, the page shows what
\* the effect does once it was told, but for the previous release's switch, which the
\* page neither shows nor changes, and no two displays share a corner.
\* (showSettings() and applySettings(), upscale_config.cpp:365-438)
THEOREM PageIsTrue == PageSpec => []PageTellsTheEffect
<1>1. PageInit => PageInv
  BY PageStarts
<1>2. PageInv /\ [PageNext]_pageVars => PageInv'
  BY PageSteps
<1>3. PageInv => PageTellsTheEffect
  <2> SUFFICES ASSUME PageInv
               PROVE  PageTellsTheEffect
    OBVIOUS
  <2>1. ASSUME ~unsaved, applying = 0
        PROVE  [ShownOnPage(page, config) EXCEPT !.all = @ /\ ~kept.switchedOff] = Followed(kept.settings)
    <3>1. /\ ShownOnPage(page, config) = Followed(Translated(file))
          /\ kept.switchedOff = SwitchedOff(file) /\ kept = KeptGlobal(file)
      BY <2>1 DEF PageInv
    <3> QED BY <3>1, SwitchIsTheDifference
  <2> QED BY <2>1 DEF PageInv, Consistent, PageTellsTheEffect
<1> QED BY <1>1, <1>2, <1>3, PTL DEF PageSpec

-----------------------------------------------------------------------------
(* EffectFrames.  A frame that is not painted whole may leave what is there  *)
(* alone because it is what the effect's last frame left: the window taken   *)
(* for enlarged is the one in the picture, and the text is its, or the       *)
(* active window's.  That is lost only when KWin paints the output without   *)
(* the effect.                                                               *)

\* What the effect's last frame left of an output, while not all of it is to be
\* painted again.
LeftWhole(o) ==
    /\ pixels[o].whole
    /\ o \in adjusted => pixels[o].by = NoGame
    /\ enlargedBy[o] # NoGame /\ o \notin adjusted \cup colored => pixels[o].by = enlargedBy[o]

LeftText(o) ==
    pixels[o].text # NoGame =>
        /\ display.drawn /\ ~locked
        /\ osd = "always" \/ (osd = "timed" /\ display.left > 0)
        /\ pixels[o].text = (IF enlargedBy[o] # NoGame THEN enlargedBy[o] ELSE activeGame)
        /\ games[pixels[o].text].on = o

\* And of one that is not to be painted at all.
LeftShown(o) ==
    /\ FindCandidate(o) = enlargedBy[o]
    /\ pixels[o].text # NoGame => pixels[o].text = Described(o)

PictureInv(o) ==
    /\ pixels[o].by # NoGame => enlargedBy[o] = pixels[o].by
    /\ damage[o] # "source"

OutputInv(o) ==
    /\ PictureInv(o)
    /\ o \notin behind /\ damage[o] # "full" => LeftWhole(o) /\ LeftText(o)
    /\ o \notin behind /\ damage[o] = "none" => LeftShown(o)

FramesInv == FramesTypeOK /\ \A o \in Heads : OutputInv(o)

LEMMA CandidateIsGame ==
    ASSUME NEW o \in Heads
    PROVE  /\ FindCandidate(o) \in Games \cup {NoGame}
           /\ FindCandidate(o) # NoGame => FindCandidate(o) \in EligibleOn(o)
<1>1. EligibleOn(o) \subseteq Games
  BY DEF EligibleOn
<1>2. ASSUME ~(EligibleOn(o) \subseteq unsupported)
      PROVE  (CHOOSE w \in EligibleOn(o) : TRUE) \in EligibleOn(o)
  BY <1>2
<1> QED BY <1>1, <1>2 DEF FindCandidate

LEMMA CandidateIsGameLater ==
    ASSUME NEW o \in Heads
    PROVE  FindCandidate(o)' \in Games \cup {NoGame}
<1>1. EligibleOn(o)' \subseteq Games
  BY DEF EligibleOn
<1>2. ASSUME ~(EligibleOn(o)' \subseteq unsupported')
      PROVE  (CHOOSE w \in EligibleOn(o)' : TRUE) \in EligibleOn(o)'
  BY <1>2
<1> QED BY <1>1, <1>2 DEF FindCandidate

\* The candidate of an output is the same while its windows, and what refuses
\* them, are.
LEMMA SameCandidate ==
    ASSUME NEW o \in Heads, UNCHANGED <<failed, locked, unsupported>>,
           EligibleOn(o)' = EligibleOn(o)
    PROVE  FindCandidate(o)' = FindCandidate(o)
BY DEF FindCandidate

LEMMA SameExplained ==
    ASSUME UNCHANGED activeGame,
           activeGame # NoGame => games'[activeGame].shape = games[activeGame].shape
    PROVE  Explained' = Explained
BY DEF Explained

\* An output that is all to be painted again need only know its picture.
LEMMA AllAgain ==
    ASSUME FramesInv, UNCHANGED <<pixels, enlargedBy>>, damage' = Full
    PROVE  \A o \in Heads : OutputInv(o)'
BY DEF FramesInv, OutputInv, PictureInv, Full

LEMMA ReleaseDamages ==
    ASSUME NEW damaged, Release(damaged), FramesTypeOK
    PROVE  /\ damage' = Full \/ (damage' = damaged /\ display' = display)
           /\ display' \in [drawn : BOOLEAN, announced : Games \cup {NoGame}, left : 0..Shown]
           /\ scaler' \in BOOLEAN
<1>1. Hidden \in [drawn : BOOLEAN, announced : Games \cup {NoGame}, left : 0..Shown]
  BY DEF Hidden, FramesTypeOK
<1>2. SomeCandidate' \in BOOLEAN
  BY DEF SomeCandidate
<1> DEFINE hides == display.drawn /\ (~(SomeCandidate' \/ Explained' # NoGame) \/ locked')
<1>3. /\ display' = IF hides THEN Hidden ELSE display
      /\ damage' = IF hides THEN Full ELSE damaged
      /\ scaler' = (scaler /\ SomeCandidate')
  BY DEF Release
<1> HIDE DEF hides
<1>4. scaler' \in BOOLEAN
  BY <1>2, <1>3, Zenon DEF FramesTypeOK
<1>5. display \in [drawn : BOOLEAN, announced : Games \cup {NoGame}, left : 0..Shown]
  BY DEF FramesTypeOK
<1> QED BY <1>1, <1>3, <1>4, <1>5, Zenon

LEMMA FramesStart == FramesInit => FramesInv
<1> SUFFICES ASSUME FramesInit PROVE FramesInv
  OBVIOUS
<1>1. (CHOOSE o \in Heads : TRUE) \in Heads
  BY FramesAssumption
<1>2. FramesTypeOK
  <2>1. games \in [Games -> [life : {"none", "open", "gone"}, on : Heads, shape : Shapes, small : BOOLEAN]]
    BY <1>1 DEF FramesInit, Shapes
  <2>2. display \in [drawn : BOOLEAN, announced : Games \cup {NoGame}, left : 0..Shown]
    BY FramesAssumption DEF FramesInit
  <2>3. pixels \in [Heads -> [by : Games \cup {NoGame}, whole : BOOLEAN, text : Games \cup {NoGame}]]
    BY DEF FramesInit
  <2>4. osd \in Osds /\ happened \in 0..MaxEvents
    BY FramesAssumption DEF FramesInit
  <2>5. /\ enlargedBy \in [Heads -> Games \cup {NoGame}] /\ drawnOver \in [Heads -> Games \cup {NoGame}]
        /\ damage \in [Heads -> {"none", "part", "source", "full"}]
        /\ asked \in [Games -> {"no", "waiting", "over"}]
    BY DEF FramesInit
  <2> QED BY <2>1, <2>2, <2>3, <2>4, <2>5 DEF FramesInit, FramesTypeOK
<1>3. \A o \in Heads : OutputInv(o)
  BY DEF FramesInit, OutputInv, PictureInv
<1> QED BY <1>2, <1>3 DEF FramesInv

WindowRecords == [life : {"none", "open", "gone"}, on : Heads, shape : Shapes, small : BOOLEAN]

\* What happens between frames leaves most of the types alone.
LEMMA TypesKept ==
    ASSUME FramesTypeOK, Happens, Settled,
           games' \in [Games -> WindowRecords], activeGame' \in Games \cup {NoGame},
           locked' \in BOOLEAN, colored' \subseteq Heads, adjusted' \subseteq Heads,
           unsupported' \subseteq Games, scaler' \in BOOLEAN, rendered' \subseteq Games,
           display' \in [drawn : BOOLEAN, announced : Games \cup {NoGame}, left : 0..Shown],
           damage' \in [Heads -> {"none", "part", "source", "full"}],
           asked' \in [Games -> {"no", "waiting", "over"}]
    PROVE  FramesTypeOK'
<1>1. happened' \in 0..MaxEvents
  BY FramesAssumption DEF FramesTypeOK, Happens
<1>2. pixels' \in [Heads -> [by : Games \cup {NoGame}, whole : BOOLEAN, text : Games \cup {NoGame}]]
  BY DEF FramesTypeOK, Settled
<1>3. /\ failed' \in BOOLEAN /\ osd' \in Osds /\ behind' \subseteq Heads
      /\ enlargedBy' \in [Heads -> Games \cup {NoGame}] /\ drawnOver' \in [Heads -> Games \cup {NoGame}]
  BY DEF FramesTypeOK, Settled
<1> QED BY <1>1, <1>2, <1>3 DEF FramesTypeOK, WindowRecords

LEMMA DamageTypes ==
    ASSUME FramesTypeOK
    PROVE  /\ Full \in [Heads -> {"none", "part", "source", "full"}]
           /\ \A o \in Heads : \A part : Damaged(o, part) \in [Heads -> {"none", "part", "source", "full"}]
BY DEF FramesTypeOK, Full, Damaged

\* What has every output painted again keeps the invariant.
LEMMA AllAgainKept ==
    ASSUME FramesInv, Happens, Settled, damage' = Full,
           games' \in [Games -> WindowRecords], activeGame' \in Games \cup {NoGame},
           locked' \in BOOLEAN, colored' \subseteq Heads, adjusted' \subseteq Heads,
           unsupported' \subseteq Games, scaler' \in BOOLEAN, rendered' \subseteq Games,
           display' \in [drawn : BOOLEAN, announced : Games \cup {NoGame}, left : 0..Shown],
           asked' \in [Games -> {"no", "waiting", "over"}]
    PROVE  FramesInv'
<1>1. FramesTypeOK /\ damage' \in [Heads -> {"none", "part", "source", "full"}]
  BY DamageTypes DEF FramesInv
<1>2. FramesTypeOK'
  BY <1>1, TypesKept, Zenon
<1>3. \A o \in Heads : OutputInv(o)'
  BY AllAgain DEF Settled
<1> QED BY <1>2, <1>3 DEF FramesInv

LEMMA OpenKeeps ==
    ASSUME FramesInv, NEW new \in Openings, Open(new)
    PROVE  FramesInv'
<1>1. FramesTypeOK
  BY DEF FramesInv
<1>2. new.game \in Games /\ new.on \in Heads /\ new.shape \in Shapes /\ new.small \in BOOLEAN
  BY FramesAssumption
<1>3. games' \in [Games -> WindowRecords] /\ activeGame' \in Games \cup {NoGame}
  BY <1>1, <1>2 DEF Open, FramesTypeOK, WindowRecords
<1>4. Release(Full)
  BY DEF Open
<1>5. /\ damage' = Full /\ scaler' \in BOOLEAN
      /\ display' \in [drawn : BOOLEAN, announced : Games \cup {NoGame}, left : 0..Shown]
  BY <1>1, <1>4, ReleaseDamages, Zenon
<1>6. /\ locked' \in BOOLEAN /\ colored' \subseteq Heads /\ adjusted' \subseteq Heads
      /\ unsupported' \subseteq Games /\ rendered' \subseteq Games
      /\ asked' \in [Games -> {"no", "waiting", "over"}]
  BY <1>1 DEF Open, FramesTypeOK
<1>7. Happens /\ Settled
  BY DEF Open
<1> QED BY <1>3, <1>5, <1>6, <1>7, AllAgainKept, Zenon

LEMMA RaiseKeeps ==
    ASSUME FramesInv, NEW w \in Games \cup {NoGame}, Raise(w)
    PROVE  FramesInv'
<1>1. FramesTypeOK
  BY DEF FramesInv
<1>2. Release(Full) /\ Happens /\ Settled
  BY DEF Raise
<1>3. /\ damage' = Full /\ scaler' \in BOOLEAN
      /\ display' \in [drawn : BOOLEAN, announced : Games \cup {NoGame}, left : 0..Shown]
  BY <1>1, <1>2, ReleaseDamages, Zenon
<1>4. /\ games' \in [Games -> WindowRecords] /\ activeGame' \in Games \cup {NoGame}
      /\ locked' \in BOOLEAN /\ colored' \subseteq Heads /\ adjusted' \subseteq Heads
      /\ unsupported' \subseteq Games /\ rendered' \subseteq Games
      /\ asked' \in [Games -> {"no", "waiting", "over"}]
  BY <1>1 DEF Raise, FramesTypeOK, WindowRecords
<1> QED BY <1>2, <1>3, <1>4, AllAgainKept, Zenon

LEMMA CloseKeeps ==
    ASSUME FramesInv, NEW w \in Games, CloseGame(w)
    PROVE  FramesInv'
<1>1. FramesTypeOK
  BY DEF FramesInv
<1>2. Release(Full) /\ Happens /\ Settled
  BY DEF CloseGame
<1>3. /\ damage' = Full /\ scaler' \in BOOLEAN
      /\ display' \in [drawn : BOOLEAN, announced : Games \cup {NoGame}, left : 0..Shown]
  BY <1>1, <1>2, ReleaseDamages, Zenon
<1>4. games' \in [Games -> WindowRecords]
  <2>1. games' = [games EXCEPT ![w].life = "gone"] /\ games \in [Games -> WindowRecords]
    BY <1>1 DEF CloseGame, FramesTypeOK, WindowRecords
  <2> QED BY <2>1 DEF WindowRecords
<1>5. /\ activeGame' \in Games \cup {NoGame}
      /\ locked' \in BOOLEAN /\ colored' \subseteq Heads /\ adjusted' \subseteq Heads
      /\ unsupported' \subseteq Games /\ rendered' \subseteq Games
      /\ asked' \in [Games -> {"no", "waiting", "over"}]
  BY <1>1 DEF CloseGame, FramesTypeOK
<1> QED BY <1>2, <1>3, <1>4, <1>5, AllAgainKept, Zenon

LEMMA LockKeeps ==
    ASSUME FramesInv, LockScreen
    PROVE  FramesInv'
<1>1. FramesTypeOK
  BY DEF FramesInv
<1>2. Release(Full) /\ Happens /\ Settled
  BY DEF LockScreen
<1>3. /\ damage' = Full /\ scaler' \in BOOLEAN
      /\ display' \in [drawn : BOOLEAN, announced : Games \cup {NoGame}, left : 0..Shown]
  BY <1>1, <1>2, ReleaseDamages, Zenon
<1>4. /\ games' \in [Games -> WindowRecords] /\ activeGame' \in Games \cup {NoGame}
      /\ colored' \subseteq Heads /\ adjusted' \subseteq Heads
      /\ unsupported' \subseteq Games /\ rendered' \subseteq Games
      /\ asked' \in [Games -> {"no", "waiting", "over"}]
  BY <1>1 DEF LockScreen, FramesTypeOK, WindowRecords
<1>5. locked' \in BOOLEAN
  BY <1>1, Zenon DEF LockScreen, FramesTypeOK
<1> QED BY <1>2, <1>3, <1>4, <1>5, AllAgainKept, Zenon

LEMMA MoveKeeps ==
    ASSUME FramesInv, NEW w \in Games, NEW o \in Heads, MoveGame(w, o)
    PROVE  FramesInv'
<1>1. FramesTypeOK
  BY DEF FramesInv
<1>2. games' \in [Games -> WindowRecords]
  BY <1>1 DEF MoveGame, FramesTypeOK, WindowRecords
<1>3. asked' \in [Games -> {"no", "waiting", "over"}]
  BY <1>1 DEF MoveGame, Rechecked, FramesTypeOK
<1>4. /\ activeGame' \in Games \cup {NoGame} /\ locked' \in BOOLEAN
      /\ colored' \subseteq Heads /\ adjusted' \subseteq Heads /\ unsupported' \subseteq Games
      /\ scaler' \in BOOLEAN /\ rendered' \subseteq Games
      /\ display' \in [drawn : BOOLEAN, announced : Games \cup {NoGame}, left : 0..Shown]
      /\ damage' = Full /\ Happens /\ Settled
  BY <1>1 DEF MoveGame, FramesTypeOK
<1> QED BY <1>2, <1>3, <1>4, AllAgainKept, Zenon

LEMMA OutputChangesKeeps ==
    ASSUME FramesInv, NEW o \in Heads, ChangeOutput(o) \/ AdjustPass(o)
    PROVE  FramesInv'
<1>1. FramesTypeOK
  BY DEF FramesInv
<1>2. /\ games' \in [Games -> WindowRecords] /\ activeGame' \in Games \cup {NoGame}
      /\ locked' \in BOOLEAN /\ scaler' \in BOOLEAN /\ rendered' \subseteq Games
      /\ display' \in [drawn : BOOLEAN, announced : Games \cup {NoGame}, left : 0..Shown]
      /\ asked' \in [Games -> {"no", "waiting", "over"}]
      /\ damage' = Full /\ Happens /\ Settled
  BY <1>1 DEF ChangeOutput, AdjustPass, FramesTypeOK, WindowRecords
<1>3. colored' \subseteq Heads /\ adjusted' \subseteq Heads /\ unsupported' \subseteq Games
  BY <1>1 DEF ChangeOutput, AdjustPass, FramesTypeOK
<1> QED BY <1>2, <1>3, AllAgainKept, Zenon

LEMMA SaveKeeps ==
    ASSUME FramesInv, NEW newOsd \in Osds, SaveSettings(newOsd)
    PROVE  FramesInv'
<1>1. FramesTypeOK
  BY DEF FramesInv
<1>2. display' \in [drawn : BOOLEAN, announced : Games \cup {NoGame}, left : 0..Shown]
  BY FramesAssumption DEF SaveSettings
<1>3. pixels' \in [Heads -> [by : Games \cup {NoGame}, whole : BOOLEAN, text : Games \cup {NoGame}]]
  BY <1>1 DEF SaveSettings, FramesTypeOK
<1>4. happened' \in 0..MaxEvents
  BY <1>1, FramesAssumption DEF SaveSettings, Happens, FramesTypeOK
<1>5. FramesTypeOK'
  BY <1>1, <1>2, <1>3, <1>4, DamageTypes DEF SaveSettings, FramesTypeOK
<1>6. \A o \in Heads : OutputInv(o)'
  BY AllAgain DEF SaveSettings
<1> QED BY <1>5, <1>6 DEF FramesInv

\* A part of an output that is drawn again leaves what the last frame left.
LEMMA PartAgain ==
    ASSUME FramesInv, NEW o \in Heads,
           UNCHANGED <<pixels, enlargedBy, behind, adjusted, colored, display, osd, locked, activeGame>>,
           \A w \in Games : games'[w].on = games[w].on,
           damage'[o] # "source",
           damage'[o] # "full" => damage[o] # "full",
           damage'[o] = "none" => damage[o] = "none",
           damage'[o] = "none" /\ LeftShown(o) /\ LeftText(o) => LeftShown(o)'
    PROVE  OutputInv(o)'
<1>1. OutputInv(o) /\ pixels[o].text \in Games \cup {NoGame}
  BY DEF FramesInv, FramesTypeOK
<1>2. PictureInv(o)'
  BY <1>1 DEF OutputInv, PictureInv
<1>3. LeftWhole(o)' <=> LeftWhole(o)
  BY DEF LeftWhole
<1>4. LeftText(o) => LeftText(o)'
  BY <1>1 DEF LeftText
<1>5. o \notin behind' => o \notin behind
  OBVIOUS
<1> QED BY <1>1, <1>2, <1>3, <1>4, <1>5 DEF OutputInv

\* The windows of an output are as eligible as they were when another's is drawn
\* or shaped anew.
LEMMA SameElsewhere ==
    ASSUME FramesTypeOK, NEW w \in Games, NEW o \in Heads, games[w].on # o,
           UNCHANGED <<activeGame, failed, locked, unsupported>>,
           \A v \in Games : games'[v].on = games[v].on,
           \A v \in Games \ {w} : games'[v] = games[v]
    PROVE  FindCandidate(o)' = FindCandidate(o)
<1>1. activeGame \in Games \cup {NoGame}
  BY DEF FramesTypeOK
<1>2. \A v \in Games : Uncovered(v)' <=> Uncovered(v)
  BY <1>1 DEF Uncovered
<1>3. \A v \in Games : games[v].on = o => (Eligible(v)' <=> Eligible(v))
  BY <1>2 DEF Eligible, Placed
<1>4. EligibleOn(o)' = EligibleOn(o)
  BY <1>3 DEF EligibleOn
<1> QED BY <1>4, SameCandidate

LEMMA DamagesIs ==
    ASSUME FramesInv, NEW w \in Games
    PROVE  \A o \in Heads : /\ Damages(w)[o] # "source"
                            /\ Damages(w)[o] # "full" => damage[o] # "full"
                            /\ Damages(w)[o] = "none" => damage[o] = "none" /\ games[w].on # o
<1>1. damage \in [Heads -> {"none", "part", "source", "full"}] /\ games[w].on \in Heads
  BY DEF FramesInv, FramesTypeOK
<1>2. \A o \in Heads : damage[o] # "source" /\ (pixels[o].by = w => enlargedBy[o] = w)
  BY FramesAssumption DEF FramesInv, OutputInv, PictureInv
<1> QED BY <1>1, <1>2 DEF Damages, Damaged

LEMMA CommitKeeps ==
    ASSUME FramesInv, NEW w \in Games, NEW small \in BOOLEAN, CommitBuffer(w, small)
    PROVE  FramesInv'
<1>1. FramesTypeOK
  BY DEF FramesInv
<1>2. /\ games' \in [Games -> WindowRecords]
      /\ \A v \in Games : games'[v].on = games[v].on /\ games'[v].shape = games[v].shape
      /\ \A v \in Games \ {w} : games'[v] = games[v]
  BY <1>1 DEF CommitBuffer, FramesTypeOK, WindowRecords
<1>3. damage' = Damages(w) /\ damage' \in [Heads -> {"none", "part", "source", "full"}]
  <2> DEFINE at == games[w].on
             part == IF \E other \in Heads : enlargedBy[other] = w
                     THEN IF games[w].shape = "full" THEN "full" ELSE "part"
                     ELSE IF pixels[at].by = w THEN "source" ELSE "part"
  <2>1. damage' = Damages(w) /\ Damages(w) = Damaged(at, part) /\ at \in Heads
    BY <1>1 DEF CommitBuffer, Damages, FramesTypeOK
  <2> HIDE DEF at, part
  <2> QED BY <1>1, <2>1, DamageTypes, Zenon
<1>4. /\ Happens /\ Settled
      /\ UNCHANGED <<activeGame, locked, colored, adjusted, unsupported, scaler, rendered, display, asked>>
  BY DEF CommitBuffer
<1>5. UNCHANGED <<osd, failed, enlargedBy, pixels, behind>>
  BY <1>4 DEF Settled
<1>6. FramesTypeOK'
  <2>1. /\ activeGame' \in Games \cup {NoGame} /\ locked' \in BOOLEAN
        /\ colored' \subseteq Heads /\ adjusted' \subseteq Heads /\ unsupported' \subseteq Games
        /\ scaler' \in BOOLEAN /\ rendered' \subseteq Games
        /\ display' \in [drawn : BOOLEAN, announced : Games \cup {NoGame}, left : 0..Shown]
        /\ asked' \in [Games -> {"no", "waiting", "over"}]
    BY <1>1, <1>4 DEF FramesTypeOK
  <2> QED BY <1>1, <1>2, <1>3, <1>4, <2>1, TypesKept, Zenon
<1>7. Explained' = Explained
  BY <1>1, <1>2, <1>4, SameExplained DEF FramesTypeOK
<1>8. ASSUME NEW o \in Heads, damage'[o] = "none", LeftShown(o)
      PROVE  LeftShown(o)'
  <2>1. games[w].on # o
    BY <1>3, <1>8, DamagesIs
  <2>2. FindCandidate(o)' = FindCandidate(o)
    BY <1>1, <1>2, <1>4, <1>5, <2>1, SameElsewhere
  <2> QED BY <1>5, <1>7, <1>8, <2>2 DEF LeftShown, Described
<1>9. ASSUME NEW o \in Heads
      PROVE  OutputInv(o)'
  <2>1. /\ damage'[o] # "source"
        /\ damage'[o] # "full" => damage[o] # "full"
        /\ damage'[o] = "none" => damage[o] = "none"
    BY <1>3, DamagesIs
  <2> QED BY <1>2, <1>4, <1>5, <1>8, <2>1, PartAgain
<1> QED BY <1>6, <1>9 DEF FramesInv

LEMMA ReshapeKeeps ==
    ASSUME FramesInv, NEW w \in Games, NEW shape \in Shapes, NEW signalled \in BOOLEAN,
           Reshape(w, shape, signalled)
    PROVE  FramesInv'
<1> DEFINE touched == IF "full" \in {shape, games[w].shape} THEN "full" ELSE "part"
           damaged == Damaged(games[w].on, touched)
<1>1. FramesTypeOK
  BY DEF FramesInv
<1>2. /\ games' \in [Games -> WindowRecords]
      /\ \A v \in Games : games'[v].on = games[v].on
      /\ \A v \in Games \ {w} : games'[v] = games[v]
  BY <1>1 DEF Reshape, FramesTypeOK, WindowRecords
<1>3. /\ Happens /\ Settled
      /\ UNCHANGED <<activeGame, locked, colored, adjusted, unsupported, rendered>>
      /\ asked' \in [Games -> {"no", "waiting", "over"}]
  BY <1>1 DEF Reshape, Rechecked, FramesTypeOK
<1>4. /\ damage' = Full \/ (damage' = damaged /\ display' = display)
      /\ display' \in [drawn : BOOLEAN, announced : Games \cup {NoGame}, left : 0..Shown]
      /\ scaler' \in BOOLEAN
  <2>1. CASE signalled
    <3>1. Release(damaged)
      BY <2>1 DEF Reshape
    <3> HIDE DEF damaged
    <3> QED BY <1>1, <3>1, ReleaseDamages, Zenon
  <2>2. CASE ~signalled
    BY <1>1, <2>2 DEF Reshape, FramesTypeOK
  <2> QED BY <2>1, <2>2
<1>5. /\ activeGame' \in Games \cup {NoGame} /\ locked' \in BOOLEAN
      /\ colored' \subseteq Heads /\ adjusted' \subseteq Heads /\ unsupported' \subseteq Games
      /\ rendered' \subseteq Games
  BY <1>1, <1>3 DEF FramesTypeOK
<1>6. CASE damage' = Full
  BY <1>2, <1>3, <1>4, <1>5, <1>6, AllAgainKept, Zenon
<1>7. CASE damage' = damaged /\ display' = display
  <2>1. damaged \in [Heads -> {"none", "part", "source", "full"}]
    <3>1. games[w].on \in Heads
      BY <1>1 DEF FramesTypeOK
    <3> HIDE DEF touched
    <3> QED BY <1>1, <3>1, DamageTypes, Zenon
  <2>2. FramesTypeOK'
    BY <1>1, <1>2, <1>3, <1>4, <1>5, <1>7, <2>1, TypesKept, Zenon
  <2>3. UNCHANGED <<osd, failed, enlargedBy, pixels, behind>>
    BY <1>3 DEF Settled
  <2>4. games[w].on \in Heads /\ damage \in [Heads -> {"none", "part", "source", "full"}]
        /\ \A o \in Heads : damage[o] # "source"
    BY <1>1 DEF FramesTypeOK, FramesInv, OutputInv, PictureInv
  <2>5. \A o \in Heads : /\ damaged[o] # "source"
                         /\ damaged[o] # "full" => damage[o] # "full"
                         /\ damaged[o] = "none" => damage[o] = "none" /\ games[w].on # o
    BY <2>4 DEF Damaged
  <2> HIDE DEF damaged
  <2>6. ASSUME NEW o \in Heads, damage'[o] = "none", LeftShown(o), LeftText(o)
        PROVE  LeftShown(o)'
    <3>1. games[w].on # o
      BY <1>7, <2>5, <2>6
    <3>2. FindCandidate(o)' = FindCandidate(o)
      BY <1>1, <1>2, <1>3, <2>3, <3>1, SameElsewhere
    <3>3. pixels[o].text # NoGame /\ FindCandidate(o) = NoGame => activeGame = pixels[o].text /\ activeGame # w
      BY <2>6, <3>1 DEF LeftShown, LeftText
    <3>4. activeGame # NoGame /\ activeGame # w => Explained' = Explained
      BY <1>1, <1>2, <1>3, SameExplained DEF FramesTypeOK
    <3> QED BY <2>3, <2>6, <3>2, <3>3, <3>4 DEF LeftShown, Described
  <2>7. ASSUME NEW o \in Heads
        PROVE  OutputInv(o)'
    BY <1>2, <1>3, <1>7, <2>3, <2>5, <2>6, PartAgain
  <2> QED BY <2>2, <2>7 DEF FramesInv
<1> QED BY <1>4, <1>6, <1>7

LEMMA ExpireKeeps ==
    ASSUME FramesInv, Expire
    PROVE  FramesInv'
<1>1. FramesTypeOK
  BY DEF FramesInv
<1>2. /\ display.left \in 0..Shown /\ display.left > 0
      /\ display' = [display EXCEPT !.left = @ - 1]
      /\ display \in [drawn : BOOLEAN, announced : Games \cup {NoGame}, left : 0..Shown]
  BY <1>1 DEF Expire, FramesTypeOK
<1>3. /\ display' \in [drawn : BOOLEAN, announced : Games \cup {NoGame}, left : 0..Shown]
      /\ display'.drawn = display.drawn /\ (display.left # 1 => display'.left > 0)
  BY <1>2, FramesAssumption
<1>4. /\ damage' = IF display.left = 1 THEN Full ELSE damage
      /\ Settled
      /\ UNCHANGED <<games, activeGame, locked, colored, adjusted, unsupported, scaler, rendered, asked, happened>>
  BY DEF Expire
<1>5. UNCHANGED <<osd, failed, enlargedBy, drawnOver, pixels, behind>>
  BY <1>4 DEF Settled
<1>6. FramesTypeOK'
  BY <1>1, <1>3, <1>4, <1>5, DamageTypes DEF FramesTypeOK
<1>7. ASSUME NEW o \in Heads
      PROVE  OutputInv(o)'
  <2>1. CASE display.left = 1
    BY <1>4, <1>5, <2>1, AllAgain
  <2>2. CASE display.left # 1
    <3>1. damage' = damage /\ OutputInv(o)
      BY <1>4, <2>2 DEF FramesInv
    <3>2. FindCandidate(o)' = FindCandidate(o) /\ Explained' = Explained
      BY <1>4, <1>5 DEF FindCandidate, EligibleOn, Eligible, Placed, Uncovered, Explained
    <3>3. (PictureInv(o)' <=> PictureInv(o)) /\ (LeftWhole(o)' <=> LeftWhole(o))
      BY <1>4, <1>5, <3>1 DEF PictureInv, LeftWhole
    <3>4. LeftText(o) => LeftText(o)'
      BY <1>3, <1>4, <1>5, <2>2 DEF LeftText
    <3>5. LeftShown(o) => LeftShown(o)'
      BY <1>5, <3>2 DEF LeftShown, Described
    <3> QED BY <1>5, <3>1, <3>3, <3>4, <3>5 DEF OutputInv
  <2> QED BY <2>1, <2>2
<1> QED BY <1>6, <1>7 DEF FramesInv

LEMMA PlainFrameKeeps ==
    ASSUME FramesInv, NEW o \in Heads, PlainFrame(o)
    PROVE  FramesInv'
<1>1. /\ FramesTypeOK /\ \A p \in Heads : OutputInv(p)
      /\ pixels \in [Heads -> [by : Games \cup {NoGame}, whole : BOOLEAN, text : Games \cup {NoGame}]]
      /\ damage \in [Heads -> {"none", "part", "source", "full"}]
  BY DEF FramesInv, FramesTypeOK
<1>2. /\ ~IsActive
      /\ damage' = [damage EXCEPT ![o] = "none"]
      /\ pixels' = [pixels EXCEPT ![o] = Painted(o, NoGame, damage[o] = "full")]
      /\ behind' = IF enlargedBy[o] # NoGame \/ pixels'[o].text # NoGame THEN behind \cup {o} ELSE behind
      /\ UNCHANGED <<games, activeGame, locked, colored, adjusted, osd, failed, unsupported, scaler,
                     enlargedBy, drawnOver, rendered, display, asked, happened>>
  BY DEF PlainFrame
<1>3. Painted(o, NoGame, damage[o] = "full") \in [by : Games \cup {NoGame}, whole : BOOLEAN, text : Games \cup {NoGame}]
  BY <1>1 DEF Painted
<1>4. FramesTypeOK'
  BY <1>1, <1>2, <1>3 DEF FramesTypeOK
<1>5. ASSUME NEW p \in Heads
      PROVE  FindCandidate(p)' = FindCandidate(p) /\ Explained' = Explained
  BY <1>2 DEF FindCandidate, EligibleOn, Eligible, Placed, Uncovered, Explained
<1>6. ASSUME NEW p \in Heads, p # o
      PROVE  OutputInv(p)'
  <2>1. pixels'[p] = pixels[p] /\ damage'[p] = damage[p] /\ (p \in behind' <=> p \in behind)
    BY <1>1, <1>2, <1>6
  <2>2. (PictureInv(p)' <=> PictureInv(p)) /\ (LeftWhole(p)' <=> LeftWhole(p))
    BY <1>2, <2>1 DEF PictureInv, LeftWhole
  <2>3. (LeftText(p)' <=> LeftText(p)) /\ (LeftShown(p)' <=> LeftShown(p))
    BY <1>2, <1>5, <2>1 DEF LeftText, LeftShown, Described
  <2> QED BY <1>1, <2>1, <2>2, <2>3 DEF OutputInv
<1>7. OutputInv(o)'
  <2>1. /\ pixels'[o] = Painted(o, NoGame, damage[o] = "full") /\ damage'[o] = "none"
        /\ pixels'[o].by = NoGame
    BY <1>1, <1>2 DEF Painted
  <2>2. PictureInv(o)'
    BY <2>1 DEF PictureInv
  <2>3. ASSUME o \notin behind'
        PROVE  /\ enlargedBy[o] = NoGame /\ pixels'[o].text = NoGame /\ pixels'[o].whole
    <3>1. enlargedBy[o] = NoGame /\ pixels'[o].text = NoGame /\ o \notin behind
      BY <1>2, <2>3
    <3>2. pixels[o].by = NoGame /\ damage[o] # "source" /\ (damage[o] # "full" => pixels[o].whole)
      BY <1>1, <3>1 DEF OutputInv, PictureInv, LeftWhole
    <3>3. damage[o] = "full" \/ (pixels[o].whole /\ pixels[o].by = NoGame /\ damage[o] # "source")
      BY <3>2
    <3>4. Painted(o, NoGame, damage[o] = "full").whole
      BY <3>3, Zenon DEF Painted
    <3> QED BY <2>1, <3>1, <3>4
  <2>4. o \notin behind' => LeftWhole(o)' /\ LeftText(o)'
    BY <1>2, <2>1, <2>3 DEF LeftWhole, LeftText
  <2>5. FindCandidate(o) = NoGame
    BY <1>2 DEF IsActive, SomeCandidate
  <2>6. o \notin behind' => LeftShown(o)'
    BY <1>2, <1>5, <2>3, <2>5 DEF LeftShown
  <2> QED BY <2>2, <2>4, <2>6 DEF OutputInv
<1> QED BY <1>4, <1>6, <1>7 DEF FramesInv

DisplayRecords == [drawn : BOOLEAN, announced : Games \cup {NoGame}, left : 0..Shown]
PictureRecords == [by : Games \cup {NoGame}, whole : BOOLEAN, text : Games \cup {NoGame}]

LEMMA ComposedType ==
    ASSUME FramesTypeOK, NEW w \in Games
    PROVE  /\ Composed(w) \in DisplayRecords
           /\ (osd = "always" \/ display.left > 0) => Composed(w).drawn
           /\ display.left > 0 => Composed(w).left > 0
           /\ Composed(w).drawn => osd = "always" \/ Composed(w).left > 0
           /\ Composed(w).announced = w
<1>1. display \in DisplayRecords /\ display.left \in 0..Shown /\ Shown \in Nat \ {0}
  BY FramesAssumption DEF FramesTypeOK, DisplayRecords
<1> DEFINE fresh == w # display.announced
           shown == osd = "always" \/ fresh \/ display.left > 0
           time == IF fresh THEN Shown ELSE display.left
<1>2. shown \in BOOLEAN /\ time \in 0..Shown
  BY <1>1
<1>3. Composed(w) = [drawn |-> shown, announced |-> w, left |-> time]
  BY DEF Composed
<1>4. /\ (osd = "always" \/ display.left > 0) => shown
      /\ display.left > 0 => time > 0
      /\ shown => osd = "always" \/ time > 0
  BY <1>1
<1> HIDE DEF fresh, shown, time
<1>5. Composed(w) \in DisplayRecords
  BY <1>2, <1>3 DEF DisplayRecords
<1>6. Composed(w).drawn = shown /\ Composed(w).left = time /\ Composed(w).announced = w
  BY <1>3
<1> QED BY <1>4, <1>5, <1>6

\* What a frame makes of the display and of the damage.
LEMMA DisplayPainted ==
    ASSUME FramesTypeOK, NEW o \in Heads, NEW after \in PictureRecords, NEW again \in BOOLEAN,
           UNCHANGED <<games, activeGame, locked>>, PaintDisplay(o, after, again)
    PROVE  LET w == Described(o)' IN
           /\ damage' = Full \/ (~again /\ damage' = [damage EXCEPT ![o] = "none"])
           /\ \/ display' = Hidden /\ (display.drawn => damage' = Full)
                 /\ pixels' = [pixels EXCEPT ![o] = after]
              \/ w # NoGame /\ games[w].on # o /\ display' = display
                 /\ pixels' = [pixels EXCEPT ![o] = after]
              \/ /\ w \in Games /\ games[w].on = o /\ ~locked /\ osd # "off"
                 /\ display' = Composed(w)
                 /\ pixels' = [pixels EXCEPT ![o] = [after EXCEPT !.text = IF Composed(w).drawn THEN w ELSE @]]
<1> DEFINE w == Described(o)'
           rest == IF again THEN Full ELSE [damage EXCEPT ![o] = "none"]
<1>1. w \in Games \cup {NoGame}
  BY CandidateIsGameLater DEF Described, Explained, FramesTypeOK
<1>2. CASE locked \/ w = NoGame \/ (games[w].on = o /\ osd = "off")
  <2>1. /\ display' = Hidden
        /\ damage' = IF display.drawn THEN Full ELSE rest
        /\ pixels' = [pixels EXCEPT ![o] = after]
    BY <1>2 DEF PaintDisplay
  <2> QED BY <2>1, Zenon
<1>3. CASE ~(locked \/ w = NoGame \/ (games[w].on = o /\ osd = "off")) /\ games[w].on # o
  <2>1. display' = display /\ damage' = rest /\ pixels' = [pixels EXCEPT ![o] = after]
    BY <1>3 DEF PaintDisplay
  <2> QED BY <1>3, <2>1, Zenon
<1>4. CASE ~(locked \/ w = NoGame \/ (games[w].on = o /\ osd = "off")) /\ games[w].on = o
  <2>1. /\ display' = Composed(w) /\ damage' = rest
        /\ pixels' = [pixels EXCEPT ![o] = [after EXCEPT !.text = IF Composed(w).drawn THEN w ELSE @]]
    BY <1>4 DEF PaintDisplay
  <2> QED BY <1>1, <1>4, <2>1, Zenon
<1> QED BY <1>2, <1>3, <1>4, Zenon

LEMMA FrameKeeps ==
    ASSUME FramesInv, NEW o \in Heads, Frame(o)
    PROVE  FramesInv'
<1> DEFINE drawn == FindCandidate(o)
           all == damage[o] = "full" \/ PaintedWhole(o, drawn)
<1>1. /\ FramesTypeOK /\ \A p \in Heads : OutputInv(p)
      /\ pixels \in [Heads -> PictureRecords]
      /\ damage \in [Heads -> {"none", "part", "source", "full"}]
      /\ enlargedBy \in [Heads -> Games \cup {NoGame}]
  BY DEF FramesInv, FramesTypeOK, PictureRecords
<1>2. drawn \in Games \cup {NoGame} /\ (drawn # NoGame => games[drawn].on = o)
  BY CandidateIsGame DEF EligibleOn
<1>3. /\ enlargedBy' = [enlargedBy EXCEPT ![o] = drawn]
      /\ drawnOver' \in [Heads -> Games \cup {NoGame}]
      /\ behind' = IF all THEN behind \ {o} ELSE behind
      /\ asked' \in [Games -> {"no", "waiting", "over"}]
      /\ UNCHANGED <<games, activeGame, locked, colored, adjusted, osd, happened>>
  <2>1. asked' \in [Games -> {"no", "waiting", "over"}]
    BY <1>1 DEF Frame, AskForBuffer, RequestAnswered, FramesTypeOK
  <2>2. drawnOver' \in [Heads -> Games \cup {NoGame}]
    BY <1>1, <1>2 DEF Frame, FramesTypeOK
  <2> QED BY <2>1, <2>2 DEF Frame
<1>4. PICK outcome \in Outcomes(o, drawn) :
          /\ DrawCandidate(o, drawn, outcome)
          /\ PaintDisplay(o, Painted(o, IF outcome = "enlarged" THEN drawn ELSE NoGame, all),
                          outcome \in {"colors", "failure"})
  BY DEF Frame
<1> DEFINE by == IF outcome = "enlarged" THEN drawn ELSE NoGame
           again == outcome \in {"colors", "failure"}
           after == Painted(o, by, all)
           w == Described(o)'
<1>5. by \in Games \cup {NoGame} /\ again \in BOOLEAN /\ all \in BOOLEAN
  BY <1>2 DEF PaintedWhole
<1>6. /\ after \in PictureRecords /\ after.by = by
      /\ all => after.text = NoGame
      /\ all \/ (pixels[o].whole /\ pixels[o].by = by /\ damage[o] # "source") => after.whole
      /\ ~all => after.text = pixels[o].text
  <2> DEFINE whole == all \/ (pixels[o].whole /\ pixels[o].by = by /\ damage[o] # "source")
             text == IF all THEN NoGame ELSE pixels[o].text
  <2>1. after = [by |-> by, whole |-> whole, text |-> text]
    BY DEF Painted
  <2>2. whole \in BOOLEAN /\ text \in Games \cup {NoGame}
    BY <1>1 DEF PictureRecords
  <2>3. (all => text = NoGame) /\ (~all => text = pixels[o].text)
    OBVIOUS
  <2> HIDE DEF by, all, text
  <2> HIDE DEF after
  <2>4. after.by = by /\ after.text = text
    BY <2>1
  <2>5. whole => after.whole
    BY <2>1, Zenon
  <2>6. after \in PictureRecords
    <3> HIDE DEF whole
    <3> QED BY <1>5, <2>1, <2>2 DEF PictureRecords
  <2> QED BY <2>3, <2>4, <2>5, <2>6, Zenon
<1>7. /\ damage' = Full \/ (~again /\ damage' = [damage EXCEPT ![o] = "none"])
      /\ \/ display' = Hidden /\ (display.drawn => damage' = Full)
            /\ pixels' = [pixels EXCEPT ![o] = after]
         \/ w # NoGame /\ games[w].on # o /\ display' = display
            /\ pixels' = [pixels EXCEPT ![o] = after]
         \/ /\ w \in Games /\ games[w].on = o /\ ~locked /\ osd # "off"
            /\ display' = Composed(w)
            /\ pixels' = [pixels EXCEPT ![o] = [after EXCEPT !.text = IF Composed(w).drawn THEN w ELSE @]]
  <2> HIDE DEF by, all, again
  <2>1. PaintDisplay(o, after, again)
    BY <1>4 DEF by, all, again
  <2> HIDE DEF after
  <2>2. after \in PictureRecords
    BY <1>6
  <2> QED BY <1>1, <1>3, <1>5, <2>1, <2>2, DisplayPainted
<1>8. /\ pixels' \in [Heads -> PictureRecords] /\ pixels'[o].by = by
      /\ after.whole => pixels'[o].whole
      /\ \A p \in Heads \ {o} : pixels'[p] = pixels[p]
  <2> HIDE DEF after, w, by
  <2>1. CASE pixels' = [pixels EXCEPT ![o] = after]
    BY <1>1, <1>6, <2>1
  <2>2. CASE /\ w \in Games
             /\ pixels' = [pixels EXCEPT ![o] = [after EXCEPT !.text = IF Composed(w).drawn THEN w ELSE @]]
    <3> DEFINE text == IF Composed(w).drawn THEN w ELSE after.text
    <3>1. text \in Games \cup {NoGame}
      BY <1>6, <2>2 DEF PictureRecords
    <3>2. pixels' = [pixels EXCEPT ![o] = [after EXCEPT !.text = text]]
      BY <2>2
    <3> HIDE DEF text
    <3>3. /\ [after EXCEPT !.text = text] \in PictureRecords
          /\ [after EXCEPT !.text = text].by = after.by /\ [after EXCEPT !.text = text].whole = after.whole
      BY <1>6, <3>1 DEF PictureRecords
    <3> QED BY <1>1, <1>6, <3>2, <3>3
  <2> QED BY <1>7, <2>1, <2>2
<1>9. display' \in DisplayRecords
  <2>1. Hidden \in DisplayRecords /\ display \in DisplayRecords
    BY <1>1 DEF FramesTypeOK, Hidden, DisplayRecords
  <2> HIDE DEF w, after, again
  <2> QED BY <1>1, <1>7, <2>1, ComposedType
<1>10. FramesTypeOK'
  <2>1. damage' \in [Heads -> {"none", "part", "source", "full"}]
    BY <1>1, <1>7, DamageTypes
  <2>2. failed' \in BOOLEAN /\ scaler' \in BOOLEAN
    BY <1>1, <1>4, Zenon DEF DrawCandidate, FramesTypeOK
  <2>3. unsupported' \subseteq Games /\ rendered' \subseteq Games
    <3>1. outcome \in {"colors", "enlarged"} => drawn \in Games
      BY <1>2, <1>4 DEF Outcomes
    <3> QED BY <1>1, <1>4, <3>1 DEF DrawCandidate, FramesTypeOK
  <2>4. enlargedBy' \in [Heads -> Games \cup {NoGame}] /\ behind' \subseteq Heads
    BY <1>1, <1>2, <1>3 DEF FramesTypeOK
  <2>5. pixels' \in [Heads -> PictureRecords] /\ display' \in DisplayRecords
    BY <1>8, <1>9
  <2>6. /\ games' = games /\ activeGame' = activeGame /\ locked' = locked /\ colored' = colored
        /\ adjusted' = adjusted /\ osd' = osd /\ happened' = happened
    BY <1>3
  <2> HIDE DEF drawn
  <2> QED BY <1>1, <1>3, <2>1, <2>2, <2>3, <2>4, <2>5, <2>6
          DEF FramesTypeOK, PictureRecords, DisplayRecords
<1>11. ASSUME ~again, NEW p \in Heads
       PROVE  FindCandidate(p)' = FindCandidate(p) /\ Explained' = Explained
  <2>1. outcome # "failure" /\ outcome # "colors"
    BY <1>11
  <2>2. failed' = failed
    BY <1>1, <1>4, <2>1, Zenon DEF DrawCandidate, FramesTypeOK
  <2>3. unsupported' = unsupported
    BY <1>4, <2>1 DEF DrawCandidate
  <2> QED BY <1>3, <2>2, <2>3 DEF FindCandidate, EligibleOn, Eligible, Placed, Uncovered, Explained
<1>12. ~again /\ w \in Games => w = Described(o)
  BY <1>11 DEF Described
<1>13. ASSUME NEW p \in Heads, p # o
       PROVE  OutputInv(p)'
  <2>1. /\ pixels'[p] = pixels[p] /\ enlargedBy'[p] = enlargedBy[p] /\ (p \in behind' <=> p \in behind)
        /\ damage'[p] = "full" \/ (~again /\ damage'[p] = damage[p])
    BY <1>1, <1>3, <1>7, <1>8, <1>13 DEF Full
  <2>2. OutputInv(p)
    BY <1>1
  <2>3. PictureInv(p)'
    BY <2>1, <2>2 DEF OutputInv, PictureInv
  <2>4. LeftWhole(p) => LeftWhole(p)'
    BY <1>3, <2>1 DEF LeftWhole
  <2>5. damage'[p] # "full" /\ LeftText(p) => LeftText(p)'
    <3> SUFFICES ASSUME damage'[p] # "full", LeftText(p), pixels[p].text # NoGame
                 PROVE  LeftText(p)'
      BY <2>1 DEF LeftText
    <3>1. display.drawn /\ (osd = "always" \/ (osd = "timed" /\ display.left > 0))
      BY DEF LeftText
    <3>2. display' = display \/ (w \in Games /\ display' = Composed(w))
      <4> HIDE DEF w, after, again
      <4> QED BY <1>7, <2>1, <3>1 DEF Full
    <3>3. display'.drawn /\ (osd = "always" \/ (osd = "timed" /\ display'.left > 0))
      <4> HIDE DEF w
      <4> QED BY <1>1, <3>1, <3>2, ComposedType
    <3> QED BY <1>3, <2>1, <3>3 DEF LeftText
  <2>6. damage'[p] = "none" /\ LeftShown(p) => LeftShown(p)'
    BY <1>11, <2>1 DEF LeftShown, Described
  <2> QED BY <2>1, <2>2, <2>3, <2>4, <2>5, <2>6 DEF OutputInv
<1>14. OutputInv(o)'
  <2>1. /\ enlargedBy'[o] = drawn /\ pixels'[o].by = by
        /\ damage'[o] = "full" \/ (~again /\ damage'[o] = "none")
    BY <1>1, <1>3, <1>7, <1>8 DEF Full
  <2>2. PictureInv(o)'
    BY <2>1 DEF PictureInv
  <2>3. ASSUME o \notin behind', damage'[o] # "full"
        PROVE  LeftWhole(o)' /\ LeftText(o)' /\ LeftShown(o)'
    <3>1. ~again /\ damage'[o] = "none" /\ FindCandidate(o)' = drawn
      BY <1>11, <2>1, <2>3
    <3>2. outcome \in {"none", "pass", "enlarged"}
      BY <1>4, <3>1 DEF Outcomes
    <3>3. /\ outcome = "none" <=> drawn = NoGame
          /\ outcome = "enlarged" => o \notin adjusted \cup colored
          /\ outcome = "pass" => o \in adjusted
      BY <1>4, <3>2 DEF Outcomes
    <3>4. ASSUME ~all
          PROVE  /\ enlargedBy[o] = drawn /\ damage[o] # "full" /\ o \notin behind
                 /\ LeftWhole(o) /\ LeftText(o)
      <4>1. enlargedBy[o] = drawn /\ damage[o] # "full" /\ o \notin behind
        BY <1>3, <2>3, <3>4 DEF PaintedWhole
      <4> QED BY <1>1, <4>1 DEF OutputInv
    <3>5. ASSUME ~all
          PROVE  pixels[o].whole /\ pixels[o].by = by /\ damage[o] # "source"
      <4>1. pixels[o].whole /\ damage[o] # "source" /\ (pixels[o].by # NoGame => pixels[o].by = enlargedBy[o])
        BY <1>1, <3>4, <3>5 DEF LeftWhole, OutputInv, PictureInv
      <4>2. CASE outcome = "enlarged"
        BY <3>3, <3>4, <3>5, <4>1, <4>2 DEF LeftWhole
      <4>3. CASE outcome # "enlarged"
        BY <3>2, <3>3, <3>4, <3>5, <4>1, <4>3 DEF LeftWhole
      <4> QED BY <4>2, <4>3
    <3>6. LeftWhole(o)'
      <4>1. pixels'[o].whole
        <5> HIDE DEF all, after, by
        <5> QED BY <1>6, <1>8, <3>5
      <4> QED BY <1>3, <2>1, <3>2, <3>3, <4>1 DEF LeftWhole
    <3>7. ASSUME pixels'[o].text # NoGame
          PROVE  LeftText(o)' /\ pixels'[o].text = Described(o)'
      <4>1. ASSUME pixels'[o].text = after.text
            PROVE  ~all /\ after.text = pixels[o].text /\ pixels[o].text # NoGame /\ LeftText(o)
        <5> HIDE DEF all, after
        <5> QED BY <1>6, <3>4, <3>7, <4>1
      <4>2. CASE pixels'[o].text # after.text
        <5>1. /\ w \in Games /\ games[w].on = o /\ ~locked /\ osd # "off" /\ display' = Composed(w)
              /\ Composed(w).drawn /\ pixels'[o].text = w
          <6> HIDE DEF w, after
          <6> QED BY <1>1, <1>6, <1>7, <4>2 DEF PictureRecords
        <5>2. /\ display'.drawn /\ (osd = "always" \/ (osd = "timed" /\ display'.left > 0))
          <6> HIDE DEF w
          <6> QED BY <1>1, <5>1, ComposedType DEF FramesTypeOK, Osds
        <5>3. w = (IF drawn # NoGame THEN drawn ELSE activeGame)
          BY <1>3, <3>1, <5>1, FramesAssumption DEF Described, Explained
        <5> HIDE DEF w, drawn
        <5> QED BY <1>3, <2>1, <5>1, <5>2, <5>3 DEF LeftText, w
      <4>3. CASE pixels'[o].text = after.text
        <5>1. /\ pixels'[o].text = pixels[o].text /\ pixels[o].text # NoGame
              /\ display.drawn /\ ~locked /\ (osd = "always" \/ (osd = "timed" /\ display.left > 0))
              /\ pixels[o].text = (IF drawn # NoGame THEN drawn ELSE activeGame)
              /\ games[pixels[o].text].on = o
          BY <3>4, <4>1, <4>3 DEF LeftText
        <5>2. damage' # Full
          BY <2>3 DEF Full
        <5>3. w = pixels[o].text /\ display' = Composed(w)
          <6>1. w # NoGame
            <7> HIDE DEF w, after, again
            <7>1. display' # Hidden \/ ~(pixels' = [pixels EXCEPT ![o] = after]) \/ display.drawn
              BY <5>1
            <7> QED BY <1>7, <5>1, <5>2, FramesAssumption
          <6>2. w = (IF drawn # NoGame THEN drawn ELSE activeGame)
            BY <1>3, <3>1, <6>1 DEF Described, Explained
          <6>3. w = pixels[o].text
            BY <5>1, <6>2
          <6> HIDE DEF w, after, again
          <6> QED BY <1>7, <5>1, <5>2, <6>1, <6>3
        <5>4. w \in Games
          <6> HIDE DEF w
          <6> QED BY <1>1, <5>1, <5>3 DEF PictureRecords
        <5>5. display'.drawn /\ (osd = "always" \/ (osd = "timed" /\ display'.left > 0))
          <6> HIDE DEF w
          <6> QED BY <1>1, <5>1, <5>3, <5>4, ComposedType
        <5> HIDE DEF w, drawn
        <5> QED BY <1>3, <2>1, <5>1, <5>3, <5>5 DEF LeftText, w
      <4> QED BY <4>2, <4>3
    <3>8. LeftText(o)'
      BY <3>7 DEF LeftText
    <3> QED BY <2>1, <3>1, <3>6, <3>7, <3>8 DEF LeftShown
  <2> QED BY <2>2, <2>3 DEF OutputInv
<1> QED BY <1>10, <1>13, <1>14 DEF FramesInv

LEMMA FramesSteps == FramesInv /\ [FramesNext]_frameVars => FramesInv'
<1> SUFFICES ASSUME FramesInv, [FramesNext]_frameVars PROVE FramesInv'
  OBVIOUS
<1>1. CASE \E o \in Heads : Frame(o) \/ PlainFrame(o) \/ ChangeOutput(o) \/ AdjustPass(o)
  BY <1>1, FrameKeeps, PlainFrameKeeps, OutputChangesKeeps
<1>2. CASE \E new \in Openings : Open(new)
  BY <1>2, OpenKeeps
<1>3. CASE \E w \in Games, small \in BOOLEAN : CommitBuffer(w, small)
  BY <1>3, CommitKeeps
<1>4. CASE \E w \in Games, shape \in Shapes, signalled \in BOOLEAN : Reshape(w, shape, signalled)
  BY <1>4, ReshapeKeeps
<1>5. CASE \E w \in Games \cup {NoGame} : Raise(w)
  BY <1>5, RaiseKeeps
<1>6. CASE \E w \in Games : CloseGame(w)
  BY <1>6, CloseKeeps
<1>7. CASE \E w \in Games, o \in Heads : MoveGame(w, o)
  BY <1>7, MoveKeeps
<1>8. CASE \E newOsd \in Osds : SaveSettings(newOsd)
  BY <1>8, SaveKeeps
<1>9. CASE LockScreen \/ Expire
  BY <1>9, LockKeeps, ExpireKeeps
<1>10. CASE UNCHANGED frameVars
  <2>1. FramesTypeOK' /\ Explained' = Explained
    BY <1>10 DEF frameVars, FramesInv, FramesTypeOK, Explained
  <2>2. ASSUME NEW o \in Heads
        PROVE  OutputInv(o)'
    <3>1. FindCandidate(o)' = FindCandidate(o)
      BY <1>10 DEF frameVars, FindCandidate, EligibleOn, Eligible, Placed, Uncovered
    <3>2. /\ PictureInv(o)' <=> PictureInv(o)
          /\ LeftWhole(o)' <=> LeftWhole(o)
          /\ LeftText(o)' <=> LeftText(o)
          /\ LeftShown(o)' <=> LeftShown(o)
      BY <1>10, <2>1, <3>1 DEF frameVars, PictureInv, LeftWhole, LeftText, LeftShown, Described
    <3> QED BY <1>10, <3>2 DEF frameVars, FramesInv, OutputInv
  <2> QED BY <2>1, <2>2 DEF FramesInv
<1> QED BY <1>1, <1>2, <1>3, <1>4, <1>5, <1>6, <1>7, <1>8, <1>9, <1>10 DEF FramesNext

\* Whatever opens, moves, changes or closes, on any outputs and however often, between
\* the frames of an effect that is active now and then: what is not to be painted
\* again is one picture of the window that is enlarged, and text about what is
\* described, but where KWin painted without the effect (behind).
\* (preparePaintArea(), upscale_over.cpp:43-65; isActive(), upscale.cpp:282-306)
THEOREM FramesLeaveNothing == FramesSpec => []ScreenStaysTrue
<1>1. FramesInv => ScreenStaysTrue
  <2> SUFFICES ASSUME FramesInv, NEW o \in Heads \ behind, damage[o] = "none"
               PROVE  /\ pixels[o].whole
                      /\ pixels[o].text # NoGame =>
                             pixels[o].text = Described(o) /\ ~locked /\ DisplayActiveFor(pixels[o].text)
    BY DEF ScreenStaysTrue
  <2>1. LeftWhole(o) /\ LeftText(o) /\ LeftShown(o)
    BY DEF FramesInv, OutputInv
  <2> QED BY <2>1 DEF LeftWhole, LeftText, LeftShown, DisplayActiveFor, Announcing
<1> QED BY <1>1, FramesStart, FramesSteps, PTL DEF FramesSpec
=============================================================================
