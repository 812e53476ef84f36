------------------------------ MODULE HeldMaps ------------------------------
(***************************************************************************)
(* The mapping of an X11 game's window, held for a moment so that the      *)
(* fullscreen request that follows it is applied with it                   *)
(* (plugins/upscale/x11resolution_startup.cpp).  A held mapping is let go  *)
(* by that request, by the window's withdrawal, by a timer of its own, by  *)
(* the settings, or goes with its window.                                  *)
(*                                                                         *)
(* KWin handles the events of a window in the order its client caused them *)
(* unless the effect keeps one back; meant is what KWin would have made of *)
(* them by itself.                                                         *)
(***************************************************************************)
EXTENDS Integers, Sequences, SequencesExt

CONSTANTS
    Ids,     \* windows, by the identifier the server may use again
    MaxSent, \* bound: requests clients make
    MaxSaves \* bound: settings saved

ASSUME HeldAssumption == MaxSent \in Nat /\ MaxSaves \in Nat

VARIABLES
    arriving,    \* events the server has sent KWin, in order
    pendingMaps, \* m_pendingMaps: the held mapping, its messages and token
    timers,      \* the timers of holds: window and token
    nextMap,     \* m_nextMap
    managed,     \* what KWin made of the events that reached it
    meant,
    sent, saved

heldVars == <<arriving, pendingMaps, timers, nextMap, managed, meant, sent, saved>>

\* "full" asks for fullscreen, "other" for anything else by a client message;
\* "mapFull" is the mapping of a window whose state property names fullscreen.
Requests == {"map", "mapFull", "full", "other", "unmap", "destroy"}

Unmanaged == [shown |-> FALSE, full |-> FALSE, told |-> 0]
NoHold == [map |-> "none", messages |-> <<>>, token |-> 0]

HeldTypeOK ==
    /\ arriving \in [Ids -> Seq(Requests)]
    /\ \A w \in Ids : pendingMaps[w] \in [map : {"none", "map", "mapFull"},
                                           messages : Seq({"full", "other"}), token : Nat]
    /\ timers \subseteq Ids \X (1..nextMap)
    /\ managed \in [Ids -> [shown : BOOLEAN, full : BOOLEAN, told : 0..MaxSent]]
    /\ sent \in 0..MaxSent /\ saved \in 0..MaxSaves

HeldInit ==
    /\ arriving = [w \in Ids |-> <<>>]
    /\ pendingMaps = [w \in Ids |-> NoHold]
    /\ timers = {} /\ nextMap = 0
    /\ managed = [w \in Ids |-> Unmanaged] /\ meant = [w \in Ids |-> Unmanaged]
    /\ sent = 0 /\ saved = 0

-----------------------------------------------------------------------------
Held(w) == pendingMaps[w] # NoHold

\* What KWin makes of one event: a message reaches a window it manages, a
\* withdrawn or destroyed window is as one it never saw.
Handled(window, event) ==
    CASE event \in {"unmap", "destroy"} -> Unmanaged
      [] event \in {"map", "mapFull"} /\ ~window.shown ->
             [shown |-> TRUE, full |-> event = "mapFull", told |-> 0]
      [] event = "full" /\ window.shown -> [window EXCEPT !.full = TRUE]
      [] event = "other" /\ window.shown -> [window EXCEPT !.told = @ + 1]
      [] OTHER -> window

Replayed(window, events) ==
    LET after[i \in 0..Len(events)] ==
            IF i = 0 THEN window ELSE Handled(after[i - 1], events[i])
    IN  after[Len(events)]

\* mapPending(): the mapping, then the messages kept behind it.
Released(w) == Replayed(Handled(managed[w], pendingMaps[w].map), pendingMaps[w].messages)

MapPending(w, last) ==
    /\ managed' = [managed EXCEPT ![w] = Replayed(Released(w), last)]
    /\ pendingMaps' = [pendingMaps EXCEPT ![w] = NoHold]

Passes(w, event) ==
    /\ managed' = [managed EXCEPT ![w] = Handled(@, event)]
    /\ UNCHANGED pendingMaps

\* holdMap(): a window KWin does not manage yet, of a program asked to render
\* smaller, which is so or not whenever it maps.
HoldMap(w, event) ==
    IF managed[w].shown THEN Passes(w, event) /\ UNCHANGED <<timers, nextMap>>
    ELSE IF Held(w) THEN UNCHANGED <<managed, pendingMaps, timers, nextMap>>
    ELSE \/ Passes(w, event) /\ UNCHANGED <<timers, nextMap>>
         \/ /\ nextMap' = nextMap + 1
            /\ timers' = timers \cup {<<w, nextMap'>>}
            /\ IF event = "mapFull"
               THEN Passes(w, event)
               ELSE /\ pendingMaps' = [pendingMaps EXCEPT ![w] =
                           [map |-> event, messages |-> <<>>, token |-> nextMap']]
                    /\ UNCHANGED managed

\* Seeded fault: a withdrawal overtakes the mapping that is held.
Overtaken(w, event) ==
    CASE event \in {"map", "mapFull"} -> HoldMap(w, event)
      [] event = "destroy" ->
            /\ pendingMaps' = [pendingMaps EXCEPT ![w] = NoHold]
            /\ managed' = [managed EXCEPT ![w] = Unmanaged]
            /\ UNCHANGED <<timers, nextMap>>
      [] event = "full" /\ Held(w) -> MapPending(w, <<event>>) /\ UNCHANGED <<timers, nextMap>>
      [] event = "other" /\ Held(w) ->
            /\ pendingMaps' = [pendingMaps EXCEPT ![w].messages = Append(@, event)]
            /\ UNCHANGED <<managed, timers, nextMap>>
      [] OTHER -> Passes(w, event) /\ UNCHANGED <<timers, nextMap>>

\* startupEvent()
StartupEvent(w, event) ==
    CASE event \in {"map", "mapFull"} -> HoldMap(w, event)
      [] event = "destroy" ->
            /\ pendingMaps' = [pendingMaps EXCEPT ![w] = NoHold]
            /\ managed' = [managed EXCEPT ![w] = Unmanaged]
            /\ UNCHANGED <<timers, nextMap>>
      [] event \in {"unmap", "full"} /\ Held(w) ->
            MapPending(w, <<event>>) /\ UNCHANGED <<timers, nextMap>>
      [] event = "other" /\ Held(w) ->
            /\ pendingMaps' = [pendingMaps EXCEPT ![w].messages = Append(@, event)]
            /\ UNCHANGED <<managed, timers, nextMap>>
      [] OTHER -> Passes(w, event) /\ UNCHANGED <<timers, nextMap>>

-----------------------------------------------------------------------------
\* The client acts on its window.
ClientRequest(w, event) ==
    /\ sent < MaxSent
    /\ sent' = sent + 1
    /\ arriving' = [arriving EXCEPT ![w] = Append(@, event)]
    /\ meant' = [meant EXCEPT ![w] = Handled(@, event)]
    /\ UNCHANGED <<pendingMaps, timers, nextMap, managed, saved>>

HandleEvent(w) ==
    /\ arriving[w] # <<>>
    /\ StartupEvent(w, Head(arriving[w]))
    /\ arriving' = [arriving EXCEPT ![w] = Tail(@)]
    /\ UNCHANGED <<meant, sent, saved>>

\* The window was held for its time; a timer of an earlier hold does nothing.
Timer(w, token) ==
    /\ <<w, token>> \in timers
    /\ timers' = timers \ {<<w, token>>}
    /\ IF Held(w) /\ pendingMaps[w].token = token THEN MapPending(w, <<>>)
       ELSE UNCHANGED <<managed, pendingMaps>>
    /\ UNCHANGED <<arriving, nextMap, meant, sent, saved>>

\* flushMaps(), when the settings are saved or the screens change.
FlushMaps ==
    /\ saved < MaxSaves /\ saved' = saved + 1
    /\ managed' = [w \in Ids |-> IF Held(w) THEN Released(w) ELSE managed[w]]
    /\ pendingMaps' = [w \in Ids |-> NoHold]
    /\ UNCHANGED <<arriving, timers, nextMap, meant, sent>>

HeldNext ==
    \/ \E w \in Ids, event \in Requests : ClientRequest(w, event)
    \/ \E w \in Ids : HandleEvent(w)
    \/ \E w \in Ids, token \in 1..nextMap : Timer(w, token)
    \/ FlushMaps

HeldSpec == HeldInit /\ [][HeldNext]_heldVars
-----------------------------------------------------------------------------
\* Holding a mapping changes when KWin sees it, never what comes of it: once
\* the events of a window arrived it is shown, withdrawn, fullscreen and told
\* exactly as if nothing had been held, or is kept back while a timer of this
\* very hold still runs, whatever its identifier was held for before.
\* (startupEvent(), mapPending() and holdMap(), x11resolution_startup.cpp:126-248)
HoldIsInvisible ==
    \A w \in Ids : arriving[w] = <<>> =>
        IF Held(w) THEN <<w, pendingMaps[w].token>> \in timers
        ELSE managed[w] = meant[w]
=============================================================================
