---------------------- MODULE OutputAdvertisementProofs ----------------------
(***************************************************************************)
(* For any programs, screens and wishes, and any number of objects: what a *)
(* program was told of its screens is announced, so that it is taken back. *)
(***************************************************************************)
EXTENDS OutputAdvertisement, SequenceTheorems, WellFoundedInduction, TLAPS

Events == {"position", "size", "name", "done"}
Output == [screen : Screens \cup {Gone}, mode : 1..Real, scaled : BOOLEAN]

AdTypes ==
    /\ plugged \subseteq Screens /\ monitor \in [Screens -> Monitors]
    /\ connected \subseteq Programs /\ wish \in Wish /\ running \in BOOLEAN /\ idle \in BOOLEAN
    /\ outputs \in [Programs -> Seq(Output)] /\ xdgs \in [Programs -> Seq(Object)]
    /\ sending \in Seq(Programs \X Nat \X Events)
    /\ announced \subseteq (Screens \cup {Gone}) \X Programs
    /\ logical \in [Programs -> [Screens -> 0..Real]]
    /\ older \subseteq Programs \X Screens

\* An event is on its way to an object there is.
SendsOnObjects == \A k \in 1..Len(sending) : sending[k][2] \in DOMAIN xdgs[sending[k][1]]

\* An object is of a screen that is there, or inert; and a program that has an
\* xdg_output of a screen has the wl_output it was created from.
OfPlugged ==
    \A p \in Programs :
        /\ \A i \in DOMAIN outputs[p] : outputs[p][i].screen \in plugged \cup {Gone}
        /\ \A i \in DOMAIN xdgs[p] :
              /\ xdgs[p][i].screen \in plugged \cup {Gone}
              /\ xdgs[p][i].screen # Gone =>
                    \E j \in DOMAIN outputs[p] : outputs[p][j].screen = xdgs[p][i].screen

OutputsReal ==
    \A p \in Programs : \A s \in plugged : <<s, p>> \notin announced =>
        \A i \in DOMAIN outputs[p] : outputs[p][i].screen = s =>
            outputs[p][i].mode = Real /\ ~outputs[p][i].scaled

\* An xdg_output that was told nothing says what KWin said; one that was told
\* something has it announced, or was told it of an older monitor.
Honest(x) == x.record # "told" => x.applied \in {Untold, Real} /\ x.sent \in {Untold, Real}
LogicalReal ==
    \A p \in Programs : \A i \in DOMAIN xdgs[p] : xdgs[p][i].screen \in plugged =>
        /\ Honest(xdgs[p][i])
        /\ xdgs[p][i].record = "told" => \/ <<xdgs[p][i].screen, p>> \in announced
                                        \/ <<p, xdgs[p][i].screen>> \in older

\* What becomes of an object that is heard or answered.
Keeps(old, new, p) ==
    /\ new.screen = old.screen /\ (Honest(old) => Honest(new))
    /\ new.record = "told" => old.record = "told" \/ logical[p][old.screen] # Untold

\* A program that has an object of a screen it was told a logical size of is one
\* the screen is announced to, unless it was told of an older monitor.
KnownByObject ==
    \A p \in Programs : \A i \in DOMAIN outputs[p] :
        outputs[p][i].screen \in plugged /\ logical[p][outputs[p][i].screen] # Untold =>
            \/ <<outputs[p][i].screen, p>> \in announced
            \/ <<p, outputs[p][i].screen>> \in older

\* A logical size is one the settings still tell, for they are not read again
\* before it is forgotten; only the monitor may have become too small.
Tells(p, s) ==
    /\ running /\ DecideAtBind(p) # "Off"
    /\ <<p, s>> \in older \/ AdvertisementFor(s, DecideAtBind(p)) # Untold
    /\ SendAdvertisement(p, DecideAtBind(p)) /\ ~ScaleTold(DecideAtBind(p))
ToldByWish ==
    \A p \in Programs, s \in Screens : logical[p][s] # Untold =>
        Tells(p, s) /\ \E a \in announced : a[2] = p

\* What was told of an older monitor is taken back with another announcement.
OlderTold == \A o \in older : \E a \in announced : a[2] = o[1]

AdInv ==
    /\ AdTypes /\ SendsOnObjects /\ OfPlugged /\ OutputsReal /\ LogicalReal /\ KnownByObject
    /\ ToldByWish /\ OlderTold

LEMMA AdStarts == AdInit => AdInv
<1> SUFFICES ASSUME AdInit PROVE AdInv
  OBVIOUS
<1>1. AdTypes
  <2>1. wish \in Wish
    BY AdvertisementAssumption DEF AdInit
  <2>2. outputs \in [Programs -> Seq(Output)] /\ xdgs \in [Programs -> Seq(Object)]
    BY DEF AdInit
  <2>3. sending \in Seq(Programs \X Nat \X Events)
    BY DEF AdInit
  <2>4. logical \in [Programs -> [Screens -> 0..Real]]
    BY DEF AdInit, Nothing, Untold, Real
  <2> QED
    BY <2>1, <2>2, <2>3, <2>4 DEF AdInit, AdTypes
<1>2. SendsOnObjects
  BY DEF AdInit, SendsOnObjects
<1>3. \A p \in Programs : outputs[p] = <<>> /\ xdgs[p] = <<>>
  BY DEF AdInit
<1>4. OfPlugged /\ OutputsReal /\ LogicalReal /\ KnownByObject
  BY <1>3 DEF OfPlugged, OutputsReal, LogicalReal, KnownByObject
<1>5. ToldByWish /\ OlderTold
  BY DEF AdInit, ToldByWish, OlderTold, Nothing
<1> QED
  BY <1>1, <1>2, <1>4, <1>5 DEF AdInv

\* A sequence put in the place of a program's is a function of the programs.
LEMMA OneSequence ==
    ASSUME NEW S, NEW f \in [Programs -> Seq(S)], NEW p \in Programs, NEW e \in S
    PROVE  /\ [f EXCEPT ![p] = Append(@, e)] \in [Programs -> Seq(S)]
           /\ [f EXCEPT ![p] = <<>>] \in [Programs -> Seq(S)]
           /\ \A q \in Programs : q # p => [f EXCEPT ![p] = Append(@, e)][q] = f[q]
           /\ Append(f[p], e) = [f EXCEPT ![p] = Append(@, e)][p]
           /\ Len(Append(f[p], e)) = Len(f[p]) + 1
           /\ Append(f[p], e)[Len(f[p]) + 1] = e
           /\ \A i \in 1..Len(f[p]) : Append(f[p], e)[i] = f[p][i]
OBVIOUS

LEMMA BindKeeps ==
    ASSUME AdInv, NEW p \in Programs, NEW s \in Screens, Bind(p, s)
    PROVE  AdInv'
<1> DEFINE method == DecideAtBind(p)
           size == AdvertisementFor(s, method)
           told == running /\ method # "Off" /\ size # Untold /\ SendAdvertisement(p, method)
           new == outputs'[p][Len(outputs[p]) + 1]
<1>1. /\ s \in plugged
      /\ UNCHANGED <<plugged, monitor, connected, wish, running, xdgs, sending, idle, adSaves>>
  BY DEF Bind, screenVars
<1>2. \E e \in Output : outputs' = [outputs EXCEPT ![p] = Append(@, e)] /\ e.screen = s
                        /\ (~told => e.mode = Real /\ ~e.scaled)
  <2>1. size \in 0..Real /\ (size # Untold => size \in 1..Real)
    BY DEF AdInv, AdTypes, Wish, AdvertisementFor, Untold, Real
  <2>2. ScaleTold(method) \in BOOLEAN
    BY DEF ScaleTold
  <2>3. CASE told
    <3> DEFINE e == [screen |-> s, mode |-> IF method = "AdvertisedScale" THEN Real ELSE size,
                     scaled |-> ScaleTold(method)]
    <3>1. outputs' = [outputs EXCEPT ![p] = Append(@, e)]
      BY <2>3 DEF Bind
    <3>2. e \in Output
      BY <2>1, <2>2, <2>3 DEF Output, Real
    <3> QED
      BY <2>3, <3>1, <3>2
  <2>4. CASE ~told
    <3> DEFINE e == [screen |-> s, mode |-> Real, scaled |-> FALSE]
    <3>1. outputs' = [outputs EXCEPT ![p] = Append(@, e)]
      BY <2>4 DEF Bind
    <3>2. e \in Output
      BY DEF Output, Real
    <3> QED
      BY <3>1, <3>2
  <2> QED
    BY <2>3, <2>4
<1>3. PICK e \in Output : outputs' = [outputs EXCEPT ![p] = Append(@, e)] /\ e.screen = s
                          /\ (~told => e.mode = Real /\ ~e.scaled)
  BY <1>2
<1>4. /\ told => /\ <<s, p>> \in announced' /\ announced' = announced \cup {<<s, p>>}
                 /\ older' = older \ {<<p, s>>}
      /\ ~told => UNCHANGED <<announced, logical, older>>
      /\ UNCHANGED logical \/ (told /\ ~ScaleTold(method) /\ logical' = [logical EXCEPT ![p][s] = size])
  BY DEF Bind
<1>5. announced \subseteq announced'
  BY <1>4
<1>6. AdTypes'
  <2>1. outputs' \in [Programs -> Seq(Output)]
    BY <1>3, OneSequence DEF AdInv, AdTypes
  <2>2. size \in 0..Real
    BY DEF AdInv, AdTypes, Wish, AdvertisementFor, Untold, Real
  <2>3. logical' \in [Programs -> [Screens -> 0..Real]]
    <3>1. logical \in [Programs -> [Screens -> 0..Real]]
      BY DEF AdInv, AdTypes
    <3>2. [logical EXCEPT ![p][s] = size] \in [Programs -> [Screens -> 0..Real]]
      BY <2>2, <3>1
    <3> QED
      BY <1>4, <3>1, <3>2
  <2>4. announced' \subseteq (Screens \cup {Gone}) \X Programs
    BY <1>4 DEF AdInv, AdTypes
  <2>5. older' \subseteq Programs \X Screens
    BY <1>4 DEF AdInv, AdTypes
  <2> QED
    BY <1>1, <2>1, <2>3, <2>4, <2>5 DEF AdInv, AdTypes
<1>7. /\ \A q \in Programs : q # p => outputs'[q] = outputs[q]
      /\ DOMAIN outputs[p] = 1..Len(outputs[p]) /\ DOMAIN outputs'[p] = 1..(Len(outputs[p]) + 1)
      /\ Len(outputs[p]) \in Nat
      /\ outputs'[p][Len(outputs[p]) + 1] = e
      /\ \A i \in 1..Len(outputs[p]) : outputs'[p][i] = outputs[p][i]
  <2>1. outputs \in [Programs -> Seq(Output)] /\ outputs[p] \in Seq(Output)
    BY DEF AdInv, AdTypes
  <2>2. outputs'[p] = Append(outputs[p], e)
    BY <1>3, <2>1
  <2>3. \A q \in Programs : q # p => outputs'[q] = outputs[q]
    BY <1>3, <2>1
  <2>4. Len(outputs[p]) \in Nat /\ DOMAIN outputs[p] = 1..Len(outputs[p])
    BY <2>1
  <2>5. /\ DOMAIN Append(outputs[p], e) = 1..(Len(outputs[p]) + 1)
        /\ Append(outputs[p], e)[Len(outputs[p]) + 1] = e
        /\ \A i \in 1..Len(outputs[p]) : Append(outputs[p], e)[i] = outputs[p][i]
    BY <2>1, <2>4
  <2> QED
    BY <2>2, <2>3, <2>4, <2>5
<1>8. \A q \in Programs : \A i \in DOMAIN outputs'[q] :
          \/ i \in DOMAIN outputs[q] /\ outputs'[q][i] = outputs[q][i]
          \/ q = p /\ outputs'[q][i] = e
  BY <1>7
<1>9. SendsOnObjects'
  BY <1>1 DEF AdInv, SendsOnObjects
<1>10. OfPlugged'
  <2>1. \A q \in Programs : \A i \in DOMAIN outputs[q] :
            i \in DOMAIN outputs'[q] /\ outputs'[q][i] = outputs[q][i]
    BY <1>7
  <2> QED
    BY <1>1, <1>3, <1>8, <2>1 DEF AdInv, OfPlugged
<1>11. OutputsReal'
  BY <1>1, <1>3, <1>4, <1>5, <1>8 DEF AdInv, OutputsReal
<1>a. /\ older' \subseteq older
      /\ \A q \in Programs, t \in Screens :
            <<q, t>> \in older => <<q, t>> \in older' \/ <<t, q>> \in announced'
  BY <1>4
<1>12. LogicalReal'
  <2> SUFFICES ASSUME NEW q \in Programs, NEW i \in DOMAIN xdgs[q], xdgs[q][i].screen \in plugged
               PROVE  /\ Honest(xdgs[q][i])
                      /\ xdgs[q][i].record = "told" => \/ <<xdgs[q][i].screen, q>> \in announced'
                                                      \/ <<q, xdgs[q][i].screen>> \in older'
    BY <1>1 DEF LogicalReal, Honest
  <2>1. xdgs[q][i].screen \in Screens
    BY DEF AdInv, AdTypes
  <2> QED
    BY <1>5, <1>a, <2>1 DEF AdInv, LogicalReal
<1>13. ~told => logical[p][s] = Untold \/ <<p, s>> \in older'
  BY <1>4 DEF AdInv, ToldByWish, Tells
<1>14. KnownByObject'
  <2> SUFFICES ASSUME NEW q \in Programs, NEW i \in DOMAIN outputs'[q],
                      outputs'[q][i].screen \in plugged', logical'[q][outputs'[q][i].screen] # Untold
               PROVE  \/ <<outputs'[q][i].screen, q>> \in announced'
                      \/ <<q, outputs'[q][i].screen>> \in older'
    BY DEF KnownByObject
  <2>1. CASE q = p /\ outputs'[q][i].screen = s
    <3>1. CASE told
      BY <1>4, <2>1, <3>1
    <3>2. CASE ~told
      BY <1>4, <1>13, <2>1, <3>2
    <3> QED
      BY <3>1, <3>2
  <2>2. CASE ~(q = p /\ outputs'[q][i].screen = s)
    <3>1. i \in DOMAIN outputs[q] /\ outputs'[q][i] = outputs[q][i]
      BY <1>3, <1>8, <2>2
    <3>2. outputs[q][i].screen \in Screens
      BY <1>1, <3>1 DEF AdInv, AdTypes
    <3>3. logical'[q][outputs[q][i].screen] = logical[q][outputs[q][i].screen]
      BY <1>4, <2>2, <3>1, <3>2 DEF AdInv, AdTypes
    <3>4. <<outputs[q][i].screen, q>> \in announced \/ <<q, outputs[q][i].screen>> \in older
      BY <1>1, <3>1, <3>3 DEF AdInv, KnownByObject
    <3> QED
      BY <1>5, <1>a, <3>1, <3>2, <3>4
  <2> QED
    BY <2>1, <2>2
<1>15. ToldByWish'
  <2> SUFFICES ASSUME NEW q \in Programs, NEW t \in Screens, logical'[q][t] # Untold
               PROVE  Tells(q, t)' /\ \E a \in announced' : a[2] = q
    BY DEF ToldByWish
  <2>1. /\ DecideAtBind(q)' = DecideAtBind(q) /\ SendAdvertisement(q, DecideAtBind(q))' = SendAdvertisement(q, DecideAtBind(q))
        /\ AdvertisementFor(t, DecideAtBind(q))' = AdvertisementFor(t, DecideAtBind(q))
    BY <1>1 DEF DecideAtBind, AdvertisementFor, SendAdvertisement, ScaleTold
  <2>a. <<q, t>> \in older => <<q, t>> \in older' \/ (q = p /\ t = s /\ told)
    BY <1>4
  <2>2. CASE logical[q][t] # Untold
    <3>1. Tells(q, t) /\ \E a \in announced : a[2] = q
      BY <2>2 DEF AdInv, ToldByWish
    <3> QED
      BY <1>1, <1>5, <2>1, <2>a, <3>1 DEF Tells
  <2>3. CASE logical[q][t] = Untold
    <3>1. told /\ ~ScaleTold(method) /\ q = p /\ t = s
      BY <1>4, <2>3 DEF AdInv, AdTypes
    <3>2. Tells(q, t)
      BY <3>1 DEF Tells
    <3> QED
      BY <1>1, <1>4, <2>1, <3>1, <3>2 DEF Tells
  <2> QED
    BY <2>2, <2>3
<1>16. OlderTold'
  BY <1>5, <1>a DEF AdInv, OlderTold
<1> QED
  BY <1>6, <1>9, <1>10, <1>11, <1>12, <1>14, <1>15, <1>16 DEF AdInv

\* The steps that only change xdg_outputs, one at a time or all at once: none is
\* told what is not announced.
LEMMA ObjectsKeep ==
    ASSUME AdInv,
           UNCHANGED <<plugged, monitor, connected, wish, running, outputs, announced, logical, older>>,
           idle' \in BOOLEAN, sending' \in Seq(Programs \X Nat \X Events),
           xdgs' \in [Programs -> Seq(Object)],
           SendsOnObjects',
           \A p \in Programs : \A i \in DOMAIN xdgs'[p] :
              \/ i \in DOMAIN xdgs[p] /\ Keeps(xdgs[p][i], xdgs'[p][i], p)
              \/ /\ Honest(xdgs'[p][i]) /\ xdgs'[p][i].record # "told"
                 /\ \E j \in DOMAIN outputs[p] : outputs[p][j].screen = xdgs'[p][i].screen
              \/ xdgs'[p][i].screen = Gone
    PROVE  AdInv'
<1>1. AdTypes'
  BY DEF AdInv, AdTypes
<1>2. OfPlugged'
  <2> SUFFICES ASSUME NEW p \in Programs, NEW i \in DOMAIN xdgs'[p]
               PROVE  /\ xdgs'[p][i].screen \in plugged \cup {Gone}
                      /\ xdgs'[p][i].screen # Gone =>
                            \E j \in DOMAIN outputs[p] : outputs[p][j].screen = xdgs'[p][i].screen
    BY DEF AdInv, OfPlugged
  <2>1. CASE i \in DOMAIN xdgs[p] /\ xdgs'[p][i].screen = xdgs[p][i].screen
    BY <2>1, SMTT(30) DEF AdInv, OfPlugged
  <2>2. CASE \E j \in DOMAIN outputs[p] : outputs[p][j].screen = xdgs'[p][i].screen
    BY <2>2 DEF AdInv, OfPlugged
  <2>3. CASE xdgs'[p][i].screen = Gone
    BY <2>3
  <2> QED
    BY <2>1, <2>2, <2>3 DEF Keeps
<1>3. OutputsReal' /\ KnownByObject'
  BY DEF AdInv, OutputsReal, KnownByObject
<1>4. LogicalReal'
  <2> SUFFICES ASSUME NEW p \in Programs, NEW i \in DOMAIN xdgs'[p], xdgs'[p][i].screen \in plugged
               PROVE  /\ Honest(xdgs'[p][i])
                      /\ xdgs'[p][i].record = "told" => \/ <<xdgs'[p][i].screen, p>> \in announced
                                                       \/ <<p, xdgs'[p][i].screen>> \in older
    BY DEF LogicalReal, Honest
  <2>1. CASE i \in DOMAIN xdgs[p] /\ Keeps(xdgs[p][i], xdgs'[p][i], p)
    <3>1. xdgs'[p][i].screen = xdgs[p][i].screen
      BY <2>1 DEF Keeps
    <3>2. /\ Honest(xdgs[p][i])
          /\ xdgs[p][i].record = "told" => \/ <<xdgs[p][i].screen, p>> \in announced
                                          \/ <<p, xdgs[p][i].screen>> \in older
      BY <2>1, <3>1 DEF AdInv, LogicalReal
    <3>3. xdgs[p][i].screen # Gone
      BY <3>1, AdvertisementAssumption DEF AdInv, AdTypes
    <3>4. PICK j \in DOMAIN outputs[p] : outputs[p][j].screen = xdgs[p][i].screen
      BY <2>1, <3>3 DEF AdInv, OfPlugged
    <3>5. logical[p][xdgs[p][i].screen] # Untold => \/ <<xdgs[p][i].screen, p>> \in announced
                                                    \/ <<p, xdgs[p][i].screen>> \in older
      BY <3>1, <3>4 DEF AdInv, KnownByObject
    <3> QED
      BY <2>1, <3>1, <3>2, <3>5 DEF Keeps
  <2>2. xdgs'[p][i].screen # Gone
    BY AdvertisementAssumption DEF AdInv, AdTypes
  <2> QED
    BY <2>1, <2>2
<1>5. ToldByWish' /\ OlderTold'
  BY DEF AdInv, ToldByWish, OlderTold, Tells, DecideAtBind, AdvertisementFor, SendAdvertisement, ScaleTold
<1> QED
  BY <1>1, <1>2, <1>3, <1>4, <1>5 DEF AdInv

\* answer() tells an object that waits what its program was told.
LEMMA AnswerTells ==
    ASSUME NEW x \in Object, NEW p \in Programs, NEW done \in BOOLEAN, x.record = "waiting",
           logical \in [Programs -> [Screens -> 0..Real]], plugged \subseteq Screens
    PROVE  Answered(x, p, done) \in Object /\ Keeps(x, Answered(x, p, done), p)
<1>1. CASE x.positioned /\ x.screen \in plugged /\ logical[p][x.screen] # Untold
  <2>1. logical[p][x.screen] \in 0..Real
    BY <1>1
  <2> QED
    BY <1>1, <2>1 DEF Answered, Object, Honest, Keeps
<1>2. CASE ~(x.positioned /\ x.screen \in plugged /\ logical[p][x.screen] # Untold)
  BY <1>2 DEF Answered, Object, Honest, Keeps
<1> QED
  BY <1>1, <1>2

LEMMA EventsKnown == \A p \in Programs : EventsOf(p) \in Seq(Events)
<1> TAKE p \in Programs
<1> DEFINE first == <<"position", "size">>
           named == IF ProgramOf[p].xdg = 1 THEN <<>> ELSE <<"name">>
           last == <<"done">>
<1>1. first \in Seq(Events) /\ named \in Seq(Events) /\ last \in Seq(Events)
  <2>1. first \in Seq(Events)
    BY DEF Events
  <2>2. <<>> \in Seq(Events) /\ <<"name">> \in Seq(Events)
    BY DEF Events
  <2>3. last \in Seq(Events)
    BY DEF Events
  <2> QED
    BY <2>1, <2>2, <2>3
<1>2. EventsOf(p) = first \o named \o last
  BY DEF EventsOf
<1> HIDE DEF first, named, last
<1>3. first \o named \in Seq(Events)
  BY <1>1, ConcatProperties
<1> QED
  BY <1>1, <1>2, <1>3, ConcatProperties

LEMMA CreateKeeps ==
    ASSUME AdInv, NEW p \in Programs, NEW i \in DOMAIN outputs[p], CreateXdgOutput(p, i)
    PROVE  AdInv'
<1> DEFINE n == Len(xdgs[p])
           new == [screen |-> outputs[p][i].screen, sent |-> Untold, applied |-> Untold,
                   record |-> IF logical[p] # Nothing THEN "waiting" ELSE "none",
                   positioned |-> FALSE, sized |-> FALSE]
<1>1. xdgs \in [Programs -> Seq(Object)] /\ xdgs[p] \in Seq(Object) /\ n \in Nat
      /\ DOMAIN xdgs[p] = 1..n
  BY DEF AdInv, AdTypes
<1>2. outputs[p][i].screen \in plugged /\ new \in Object /\ Honest(new)
      /\ new.record # "told" /\ new.screen = outputs[p][i].screen
  <2>1. outputs[p][i].screen \in plugged /\ outputs[p][i].screen \in Screens
    BY DEF CreateXdgOutput, AdInv, AdTypes
  <2>2. Untold \in 0..Real
    BY DEF Untold, Real
  <2>3. new \in Object
    BY <2>1, <2>2 DEF Object
  <2> QED
    BY <2>1, <2>3 DEF Honest
<1>3. xdgs' = [xdgs EXCEPT ![p] = Append(@, new)]
  BY DEF CreateXdgOutput
<1> HIDE DEF new
<1>4. /\ xdgs' \in [Programs -> Seq(Object)]
      /\ \A q \in Programs : q # p => xdgs'[q] = xdgs[q]
      /\ xdgs'[p] = Append(xdgs[p], new)
  BY <1>1, <1>2, <1>3
<1>5. /\ DOMAIN Append(xdgs[p], new) = 1..(n + 1) /\ Len(Append(xdgs[p], new)) = n + 1
      /\ Append(xdgs[p], new)[n + 1] = new
      /\ \A k \in 1..n : Append(xdgs[p], new)[k] = xdgs[p][k]
  BY <1>1, <1>2
<1>6. /\ sending' \in Seq(Programs \X Nat \X Events)
      /\ SendsOnObjects'
  <2>1. EventsOf(p) \in Seq(Events)
    BY EventsKnown
  <2>2. sending' = [k \in 1..Len(EventsOf(p)) |-> <<p, n + 1, EventsOf(p)[k]>>]
    BY <1>4, <1>5, <2>1 DEF CreateXdgOutput
  <2>3. sending' \in Seq(Programs \X Nat \X Events) /\ Len(sending') = Len(EventsOf(p))
    BY <1>1, <2>1, <2>2
  <2> QED
    BY <1>1, <1>4, <1>5, <2>2, <2>3 DEF SendsOnObjects
<1>7. UNCHANGED <<plugged, monitor, connected, wish, running, outputs, announced, logical, older>> /\ idle' \in BOOLEAN
  BY DEF CreateXdgOutput, screenVars, AdInv, AdTypes
<1>8. \A q \in Programs : \A k \in DOMAIN xdgs'[q] :
         \/ k \in DOMAIN xdgs[q] /\ xdgs'[q][k] = xdgs[q][k]
         \/ q = p /\ xdgs'[q][k] = new
  BY <1>1, <1>4, <1>5
<1>9. \A q \in Programs : \A k \in DOMAIN xdgs[q] : Keeps(xdgs[q][k], xdgs[q][k], q)
  BY DEF Keeps
<1> QED
  BY <1>2, <1>4, <1>6, <1>7, <1>8, <1>9, ObjectsKeep

LEMMA DestroyObjectKeeps ==
    ASSUME AdInv, NEW p \in Programs, NEW i \in DOMAIN xdgs[p], DestroyXdgOutput(p, i)
    PROVE  AdInv'
<1> DEFINE x == xdgs[p][i]
           gone == [x EXCEPT !.screen = Gone, !.record = "none"]
<1>1. x \in Object /\ xdgs \in [Programs -> Seq(Object)] /\ xdgs[p] \in Seq(Object)
  BY DEF AdInv, AdTypes
<1>2. /\ xdgs' = [xdgs EXCEPT ![p] = [xdgs[p] EXCEPT ![i] = gone]]
      /\ sending = <<>> /\ sending' = sending /\ idle' = idle
      /\ UNCHANGED <<plugged, monitor, connected, wish, running, outputs, announced, logical, older>>
  <2>1. xdgs' = [xdgs EXCEPT ![p][i].screen = Gone, ![p][i].record = "none"]
    BY DEF DestroyXdgOutput
  <2> QED
    BY <1>1, <2>1 DEF DestroyXdgOutput, screenVars, Object
<1>3. gone \in Object /\ gone.screen = Gone /\ gone.record # "told"
  BY <1>1 DEF Object
<1> HIDE DEF gone, x
<1>4. /\ xdgs' \in [Programs -> Seq(Object)]
      /\ \A q \in Programs : DOMAIN xdgs'[q] = DOMAIN xdgs[q]
      /\ \A q \in Programs : \A k \in DOMAIN xdgs[q] :
            xdgs'[q][k] = IF q = p /\ k = i THEN gone ELSE xdgs[q][k]
  <2>1. [xdgs[p] EXCEPT ![i] = gone] \in Seq(Object)
        /\ DOMAIN [xdgs[p] EXCEPT ![i] = gone] = DOMAIN xdgs[p]
        /\ \A k \in DOMAIN xdgs[p] : [xdgs[p] EXCEPT ![i] = gone][k] = IF k = i THEN gone ELSE xdgs[p][k]
    BY <1>1, <1>3
  <2> QED
    BY <1>1, <1>2, <2>1
<1>5. sending' \in Seq(Programs \X Nat \X Events) /\ SendsOnObjects' /\ idle' \in BOOLEAN
  BY <1>2 DEF AdInv, AdTypes, SendsOnObjects
<1>6. \A q \in Programs : \A k \in DOMAIN xdgs[q] : Keeps(xdgs[q][k], xdgs[q][k], q)
  BY DEF Keeps
<1> QED
  BY <1>2, <1>3, <1>4, <1>5, <1>6, ObjectsKeep

LEMMA SendKeeps == ASSUME AdInv, SendEvent PROVE AdInv'
<1> DEFINE p == Head(sending)[1]
           i == Head(sending)[2]
           event == Head(sending)[3]
           x == xdgs[p][i]
           heard == IF idle THEN Logged(x, p, event) ELSE x
           sent == CASE event = "size" -> [heard EXCEPT !.sent = Real]
                     [] event = "done" -> [heard EXCEPT !.applied = heard.sent]
                     [] OTHER -> heard
<1>1. sending \in Seq(Programs \X Nat \X Events) /\ sending # <<>>
  BY DEF SendEvent, AdInv, AdTypes
<1>2. p \in Programs /\ i \in DOMAIN xdgs[p]
  <2>1. Head(sending) = sending[1] /\ 1 \in 1..Len(sending) /\ Head(sending) \in Programs \X Nat \X Events
    BY <1>1
  <2> QED
    BY <2>1 DEF AdInv, SendsOnObjects
<1>3. /\ xdgs' = [xdgs EXCEPT ![p][i] = sent] /\ sending' = Tail(sending)
      /\ UNCHANGED <<plugged, monitor, connected, wish, running, outputs, announced, logical, older, idle>>
  BY DEF SendEvent, screenVars
<1>4. x \in Object /\ xdgs \in [Programs -> Seq(Object)] /\ xdgs[p] \in Seq(Object)
  BY <1>2 DEF AdInv, AdTypes
<1>5. heard \in Object /\ Keeps(x, heard, p)
  <2>1. x.record = "waiting" => Answered(x, p, FALSE) \in Object /\ Keeps(x, Answered(x, p, FALSE), p)
    BY <1>2, <1>4, AnswerTells DEF AdInv, AdTypes
  <2>2. /\ [x EXCEPT !.positioned = TRUE] \in Object /\ [x EXCEPT !.sized = TRUE] \in Object
        /\ Keeps(x, [x EXCEPT !.positioned = TRUE], p) /\ Keeps(x, [x EXCEPT !.sized = TRUE], p)
        /\ Keeps(x, x, p)
    BY <1>4 DEF Object, Honest, Keeps
  <2> HIDE DEF x
  <2>3. \/ heard \in {x, [x EXCEPT !.positioned = TRUE], [x EXCEPT !.sized = TRUE]}
        \/ x.record = "waiting" /\ heard = Answered(x, p, FALSE)
    BY DEF Logged
  <2> QED
    BY <1>4, <2>1, <2>2, <2>3
<1> HIDE DEF heard
<1>6. sent \in Object /\ Keeps(x, sent, p)
  <2> DEFINE sized == [heard EXCEPT !.sent = Real]
             applied == [heard EXCEPT !.applied = heard.sent]
  <2>1. sized \in Object /\ applied \in Object
    BY <1>5 DEF Object, Real
  <2>2. /\ sized.screen = heard.screen /\ sized.record = heard.record
        /\ sized.sent = Real /\ sized.applied = heard.applied
        /\ applied.screen = heard.screen /\ applied.record = heard.record
        /\ applied.sent = heard.sent /\ applied.applied = heard.sent
    BY <1>5 DEF Object
  <2>3. sent \in {heard, sized, applied}
    OBVIOUS
  <2> HIDE DEF sized, applied, x
  <2>4. Keeps(x, sized, p) /\ Keeps(x, applied, p)
    BY <1>5, <2>2 DEF Keeps, Honest
  <2> HIDE DEF sent
  <2> QED
    BY <1>5, <2>1, <2>3, <2>4
<1> HIDE DEF sent, x
<1>7. /\ xdgs' \in [Programs -> Seq(Object)]
      /\ \A q \in Programs : DOMAIN xdgs'[q] = DOMAIN xdgs[q]
      /\ \A q \in Programs : \A k \in DOMAIN xdgs[q] :
            xdgs'[q][k] = IF q = p /\ k = i THEN sent ELSE xdgs[q][k]
  <2>1. [xdgs[p] EXCEPT ![i] = sent] \in Seq(Object)
        /\ DOMAIN [xdgs[p] EXCEPT ![i] = sent] = DOMAIN xdgs[p]
        /\ \A k \in DOMAIN xdgs[p] : [xdgs[p] EXCEPT ![i] = sent][k] = IF k = i THEN sent ELSE xdgs[p][k]
    BY <1>2, <1>4, <1>6
  <2>2. xdgs' = [xdgs EXCEPT ![p] = [xdgs[p] EXCEPT ![i] = sent]]
    BY <1>2, <1>3, <1>4
  <2> QED
    BY <1>2, <1>4, <2>1, <2>2
<1>8. sending' \in Seq(Programs \X Nat \X Events)
      /\ \A k \in 1..Len(sending') : k + 1 \in 1..Len(sending) /\ sending'[k] = sending[k + 1]
  BY <1>1, <1>3
<1>9. SendsOnObjects'
  <2> SUFFICES ASSUME NEW k \in 1..Len(sending') PROVE sending'[k][2] \in DOMAIN xdgs'[sending'[k][1]]
    BY DEF SendsOnObjects
  <2>1. k + 1 \in 1..Len(sending) /\ sending'[k] = sending[k + 1]
    BY <1>8
  <2>2. sending[k + 1] \in Programs \X Nat \X Events
    BY <1>1, <2>1
  <2>3. sending[k + 1][2] \in DOMAIN xdgs[sending[k + 1][1]]
    BY <2>1 DEF AdInv, SendsOnObjects
  <2> QED
    BY <1>7, <2>1, <2>2, <2>3
<1>10. idle' \in BOOLEAN
  BY <1>3 DEF AdInv, AdTypes
<1>11. \A q \in Programs : \A k \in DOMAIN xdgs'[q] :
          k \in DOMAIN xdgs[q] /\ Keeps(xdgs[q][k], xdgs'[q][k], q)
  <2>1. \A q \in Programs : \A k \in DOMAIN xdgs[q] : Keeps(xdgs[q][k], xdgs[q][k], q)
    BY DEF Keeps
  <2> QED
    BY <1>6, <1>7, <2>1 DEF x
<1> QED
  BY <1>3, <1>7, <1>8, <1>9, <1>10, <1>11, ObjectsKeep

LEMMA IdleKeeps == ASSUME AdInv, Idle PROVE AdInv'
<1>1. /\ sending' = sending /\ idle' \in BOOLEAN
      /\ UNCHANGED <<plugged, monitor, connected, wish, running, outputs, announced, logical, older>>
      /\ \A p \in Programs : xdgs'[p] = [i \in DOMAIN xdgs[p] |->
             IF xdgs[p][i].record = "waiting" THEN Answered(xdgs[p][i], p, TRUE) ELSE xdgs[p][i]]
      /\ xdgs' = [p \in Programs |-> xdgs'[p]]
  BY DEF Idle, screenVars
<1>2. \A p \in Programs : \A i \in DOMAIN xdgs[p] :
         /\ xdgs[p][i] \in Object
         /\ xdgs'[p][i] \in Object /\ Keeps(xdgs[p][i], xdgs'[p][i], p)
  <2> SUFFICES ASSUME NEW p \in Programs, NEW i \in DOMAIN xdgs[p]
               PROVE  /\ xdgs[p][i] \in Object
                      /\ xdgs'[p][i] \in Object /\ Keeps(xdgs[p][i], xdgs'[p][i], p)
    OBVIOUS
  <2>1. xdgs[p][i] \in Object
    BY DEF AdInv, AdTypes
  <2>2. /\ xdgs[p][i].record = "waiting" =>
              Answered(xdgs[p][i], p, TRUE) \in Object /\ Keeps(xdgs[p][i], Answered(xdgs[p][i], p, TRUE), p)
        /\ Keeps(xdgs[p][i], xdgs[p][i], p)
    BY <2>1, AnswerTells DEF AdInv, AdTypes, Keeps
  <2>3. xdgs'[p][i] = IF xdgs[p][i].record = "waiting" THEN Answered(xdgs[p][i], p, TRUE) ELSE xdgs[p][i]
    BY <1>1, ZenonT(30)
  <2> QED
    BY <2>1, <2>2, <2>3
<1>3. \A p \in Programs : DOMAIN xdgs'[p] = DOMAIN xdgs[p] /\ xdgs'[p] \in Seq(Object)
  <2> TAKE p \in Programs
  <2>1. xdgs[p] \in Seq(Object) /\ DOMAIN xdgs'[p] = DOMAIN xdgs[p]
    BY <1>1 DEF AdInv, AdTypes
  <2> DEFINE n == Len(xdgs[p])
             seen == [i \in 1..n |-> IF xdgs[p][i].record = "waiting" THEN Answered(xdgs[p][i], p, TRUE)
                                     ELSE xdgs[p][i]]
  <2>2. n \in Nat /\ DOMAIN xdgs[p] = 1..n
    BY <2>1
  <2>3. xdgs'[p] = seen
    BY <1>1, <2>2
  <2>4. \A i \in 1..n : seen[i] \in Object
    BY <1>2, <2>2, <2>3
  <2> HIDE DEF n
  <2>5. seen \in [1..n -> Object]
    <3> HIDE DEF Object, Answered
    <3> QED
      BY <2>4
  <2> HIDE DEF seen
  <2>6. seen \in Seq(Object)
    BY <2>2, <2>5, SeqDef
  <2> QED
    BY <2>1, <2>3, <2>6
<1>4. xdgs' \in [Programs -> Seq(Object)]
  BY <1>1, <1>3
<1>5. SendsOnObjects' /\ sending' \in Seq(Programs \X Nat \X Events)
  <2>1. \A k \in 1..Len(sending) : sending[k][1] \in Programs
    BY DEF AdInv, AdTypes
  <2> QED
    BY <1>1, <1>3, <2>1 DEF AdInv, AdTypes, SendsOnObjects
<1> QED
  BY <1>1, <1>2, <1>3, <1>4, <1>5, ObjectsKeep

\* What restore() leaves: every object that was told says what KWin said, and
\* nothing is remembered of what was told.
LEMMA RestoreGivesBack ==
    ASSUME AdInv, Restore, UNCHANGED <<plugged, monitor, connected, sending>>,
           wish' \in Wish, running' \in BOOLEAN
    PROVE  AdInv'
<1> DEFINE o(p, i) == IF <<outputs[p][i].screen, p>> \in announced /\ outputs[p][i].screen \in plugged
                      THEN [outputs[p][i] EXCEPT !.mode = Real, !.scaled = FALSE] ELSE outputs[p][i]
           x(p, i) == IF xdgs[p][i].record = "told" /\ xdgs[p][i].screen \in plugged
                      THEN [xdgs[p][i] EXCEPT !.record = "none", !.sent = Real, !.applied = Real]
                      ELSE [xdgs[p][i] EXCEPT !.record = "none"]
<1>1. /\ outputs' = [p \in Programs |-> [i \in DOMAIN outputs[p] |-> o(p, i)]]
      /\ xdgs' = [p \in Programs |-> [i \in DOMAIN xdgs[p] |-> x(p, i)]]
      /\ announced' = {} /\ logical' = [p \in Programs |-> Nothing] /\ idle' = FALSE /\ older' = {}
  BY DEF Restore
<1>a. \A e \in Output : LET real == [e EXCEPT !.mode = Real, !.scaled = FALSE] IN
         real \in Output /\ real.screen = e.screen /\ real.mode = Real /\ ~real.scaled
  <2> TAKE e \in Output
  <2>1. e.screen \in Screens \cup {Gone} /\ Real \in 1..Real
    BY DEF Output, Real
  <2> QED
    BY <2>1 DEF Output
<1>b. \A e \in Object : LET real == [e EXCEPT !.record = "none", !.sent = Real, !.applied = Real]
                             none == [e EXCEPT !.record = "none"] IN
         /\ real \in Object /\ real.screen = e.screen /\ real.record # "told" /\ Honest(real)
         /\ none \in Object /\ none.screen = e.screen /\ none.record # "told"
         /\ e.record # "told" /\ Honest(e) => Honest(none)
  <2> TAKE e \in Object
  <2>1. e.screen \in Screens \cup {Gone} /\ Real \in 0..Real
    BY DEF Object, Real
  <2> QED
    BY <2>1 DEF Object, Honest
<1>2. \A p \in Programs : \A i \in DOMAIN outputs[p] :
         /\ outputs[p][i] \in Output /\ o(p, i) \in Output /\ o(p, i).screen = outputs[p][i].screen
         /\ o(p, i).screen \in plugged => o(p, i).mode = Real /\ ~o(p, i).scaled
  <2> SUFFICES ASSUME NEW p \in Programs, NEW i \in DOMAIN outputs[p]
               PROVE  /\ outputs[p][i] \in Output /\ o(p, i) \in Output /\ o(p, i).screen = outputs[p][i].screen
                      /\ o(p, i).screen \in plugged => o(p, i).mode = Real /\ ~o(p, i).scaled
    OBVIOUS
  <2>1. outputs[p][i] \in Output
    BY DEF AdInv, AdTypes
  <2>2. CASE <<outputs[p][i].screen, p>> \in announced /\ outputs[p][i].screen \in plugged
    BY <1>a, <2>1, <2>2
  <2>3. CASE ~(<<outputs[p][i].screen, p>> \in announced /\ outputs[p][i].screen \in plugged)
    BY <2>1, <2>3 DEF AdInv, OutputsReal
  <2> QED
    BY <2>2, <2>3
<1>3. \A p \in Programs : \A i \in DOMAIN xdgs[p] :
         /\ x(p, i) \in Object /\ x(p, i).screen = xdgs[p][i].screen /\ x(p, i).record # "told"
         /\ x(p, i).screen \in plugged => Honest(x(p, i))
  <2> SUFFICES ASSUME NEW p \in Programs, NEW i \in DOMAIN xdgs[p]
               PROVE  /\ x(p, i) \in Object /\ x(p, i).screen = xdgs[p][i].screen /\ x(p, i).record # "told"
                      /\ x(p, i).screen \in plugged => Honest(x(p, i))
    OBVIOUS
  <2>1. xdgs[p][i] \in Object
    BY DEF AdInv, AdTypes
  <2>2. CASE xdgs[p][i].record = "told" /\ xdgs[p][i].screen \in plugged
    BY <1>b, <2>1, <2>2
  <2>3. CASE xdgs[p][i].record # "told" /\ xdgs[p][i].screen \in plugged
    <3>1. Honest(xdgs[p][i])
      BY <2>3 DEF AdInv, LogicalReal
    <3> QED
      BY <1>b, <2>1, <2>3, <3>1
  <2>4. CASE xdgs[p][i].screen \notin plugged
    BY <1>b, <2>1, <2>4
  <2> QED
    BY <2>2, <2>3, <2>4
<1>4. \A p \in Programs :
         /\ DOMAIN outputs'[p] = DOMAIN outputs[p] /\ DOMAIN xdgs'[p] = DOMAIN xdgs[p]
         /\ \A i \in DOMAIN outputs[p] : outputs'[p][i] = o(p, i)
         /\ \A i \in DOMAIN xdgs[p] : xdgs'[p][i] = x(p, i)
  BY <1>1
<1> HIDE DEF o, x
<1>5. AdTypes'
  <2>1. \A p \in Programs : outputs'[p] \in Seq(Output) /\ xdgs'[p] \in Seq(Object)
    <3> TAKE p \in Programs
    <3>1. PICK n \in Nat : DOMAIN outputs[p] = 1..n
      BY DEF AdInv, AdTypes
    <3>2. PICK m \in Nat : DOMAIN xdgs[p] = 1..m
      BY DEF AdInv, AdTypes
    <3>3. outputs'[p] = [i \in 1..n |-> o(p, i)] /\ xdgs'[p] = [i \in 1..m |-> x(p, i)]
      BY <1>1, <3>1, <3>2
    <3>4. outputs'[p] \in [1..n -> Output] /\ xdgs'[p] \in [1..m -> Object]
      BY <1>2, <1>3, <3>1, <3>2, <3>3
    <3> QED
      BY <3>4, SeqDef
  <2>2. outputs' \in [Programs -> Seq(Output)] /\ xdgs' \in [Programs -> Seq(Object)]
    BY <1>1, <2>1
  <2>3. logical' \in [Programs -> [Screens -> 0..Real]]
    BY <1>1 DEF Nothing, Untold, Real
  <2> QED
    BY <1>1, <2>2, <2>3 DEF AdInv, AdTypes
<1>6. SendsOnObjects'
  <2>1. \A k \in 1..Len(sending) : sending[k][1] \in Programs
    BY DEF AdInv, AdTypes
  <2> QED
    BY <1>4, <2>1 DEF AdInv, SendsOnObjects
<1>7. OfPlugged'
  BY <1>2, <1>3, <1>4 DEF AdInv, OfPlugged
<1>8. OutputsReal'
  BY <1>2, <1>4 DEF OutputsReal
<1>9. LogicalReal'
  BY <1>1, <1>3, <1>4 DEF LogicalReal
<1>10. \A p \in Programs, s \in Screens : logical'[p][s] = Untold
  BY <1>1 DEF Nothing
<1>11. KnownByObject'
  BY <1>10 DEF KnownByObject, AdInv, AdTypes
<1>12. ToldByWish' /\ OlderTold'
  BY <1>1, <1>10 DEF ToldByWish, OlderTold
<1> QED
  BY <1>5, <1>6, <1>7, <1>8, <1>9, <1>11, <1>12 DEF AdInv

LEMMA SaveKeeps == ASSUME AdInv, NEW asked \in Wishes, Save(asked) PROVE AdInv'
<1>1. wish' \in Wish /\ UNCHANGED <<plugged, monitor, connected, running, sending>>
  BY AdvertisementAssumption DEF Save, screenVars
<1>2. CASE announced # {}
  <2>1. Restore /\ running' \in BOOLEAN
    BY <1>1, <1>2 DEF Save, AdInv, AdTypes
  <2> QED
    BY <1>1, <2>1, RestoreGivesBack
<1>3. CASE announced = {}
  <2>1. UNCHANGED <<outputs, xdgs, announced, logical, older, idle>>
    BY <1>3 DEF Save
  <2>2. AdTypes'
    BY <1>1, <2>1 DEF AdInv, AdTypes
  <2>3. SendsOnObjects' /\ OfPlugged' /\ OutputsReal'
    BY <1>1, <2>1 DEF AdInv, SendsOnObjects, OfPlugged, OutputsReal
  <2>4. LogicalReal' /\ KnownByObject'
    BY <1>1, <2>1 DEF AdInv, LogicalReal, KnownByObject
  <2>5. ToldByWish' /\ OlderTold'
    BY <1>3, <2>1 DEF AdInv, ToldByWish, OlderTold
  <2> QED
    BY <2>2, <2>3, <2>4, <2>5 DEF AdInv
<1> QED
  BY <1>2, <1>3

LEMMA EndKeeps == ASSUME AdInv, End PROVE AdInv'
<1>1. Restore /\ UNCHANGED <<plugged, monitor, connected, sending>> /\ wish' \in Wish /\ running' \in BOOLEAN
  BY DEF End, screenVars, AdInv, AdTypes
<1> QED
  BY <1>1, RestoreGivesBack

LEMMA DisconnectKeeps == ASSUME AdInv, NEW p \in Programs, Disconnect(p) PROVE AdInv'
<1>1. /\ sending = <<>> /\ UNCHANGED <<plugged, monitor, wish, running, sending, idle>> /\ connected' \subseteq connected
      /\ outputs' = [outputs EXCEPT ![p] = <<>>] /\ xdgs' = [xdgs EXCEPT ![p] = <<>>]
      /\ announced' = {a \in announced : a[2] # p} /\ older' = {o \in older : o[1] # p}
      /\ logical' = [logical EXCEPT ![p] = Nothing]
  BY DEF Disconnect, screenVars
<1>2. Nothing \in [Screens -> 0..Real] /\ \A s \in Screens : Nothing[s] = Untold
  BY DEF Nothing, Untold, Real
<1>3. /\ outputs'[p] = <<>> /\ xdgs'[p] = <<>> /\ logical'[p] = Nothing
      /\ \A q \in Programs : q # p => outputs'[q] = outputs[q] /\ xdgs'[q] = xdgs[q] /\ logical'[q] = logical[q]
  BY <1>1 DEF AdInv, AdTypes
<1>4. \A q \in Programs, s \in Screens \cup {Gone} : q # p =>
          (<<s, q>> \in announced <=> <<s, q>> \in announced') /\ (<<q, s>> \in older <=> <<q, s>> \in older')
  BY <1>1
<1>5. AdTypes'
  <2>1. outputs' \in [Programs -> Seq(Output)] /\ xdgs' \in [Programs -> Seq(Object)]
    BY <1>1 DEF AdInv, AdTypes
  <2>2. logical' \in [Programs -> [Screens -> 0..Real]]
    BY <1>1, <1>2 DEF AdInv, AdTypes
  <2> QED
    BY <1>1, <2>1, <2>2 DEF AdInv, AdTypes
<1>6. SendsOnObjects'
  BY <1>1 DEF SendsOnObjects
<1>7. OfPlugged'
  BY <1>1, <1>3 DEF AdInv, OfPlugged
<1>8. OutputsReal' /\ LogicalReal'
  BY <1>1, <1>3, <1>4 DEF AdInv, AdTypes, OutputsReal, LogicalReal
<1>9. KnownByObject'
  BY <1>1, <1>3, <1>4 DEF AdInv, AdTypes, KnownByObject
<1>10. ToldByWish'
  <2> SUFFICES ASSUME NEW q \in Programs, NEW s \in Screens, logical'[q][s] # Untold
               PROVE  Tells(q, s)' /\ \E a \in announced' : a[2] = q
    BY DEF ToldByWish
  <2>1. q # p /\ Tells(q, s) /\ \E a \in announced : a[2] = q
    BY <1>2, <1>3 DEF AdInv, ToldByWish
  <2>2. Tells(q, s)'
    BY <1>1, <1>4, <2>1 DEF Tells, DecideAtBind, AdvertisementFor, SendAdvertisement, ScaleTold
  <2> QED
    BY <1>1, <2>1, <2>2
<1>11. OlderTold'
  BY <1>1 DEF AdInv, OlderTold
<1> QED
  BY <1>5, <1>6, <1>7, <1>8, <1>9, <1>10, <1>11 DEF AdInv

\* What changes at a connector makes what was told of it older, nothing else.
LEMMA OlderGrows ==
    ASSUME AdInv, NEW s \in Screens
    PROVE  /\ ToldBefore(s) \subseteq Programs \X Screens /\ older \subseteq ToldBefore(s)
           /\ \A o \in ToldBefore(s) : \E a \in announced : a[2] = o[1]
           /\ \A p \in Programs, t \in Screens : t # s => (<<p, t>> \in ToldBefore(s) <=> <<p, t>> \in older)
           /\ \A p \in Programs : logical[p][s] # Untold \/ <<s, p>> \in announced => <<p, s>> \in ToldBefore(s)
<1> DEFINE these == {q \in Programs : <<s, q>> \in announced \/ logical[q][s] # Untold}
<1>1. ToldBefore(s) = older \cup {<<p, s>> : p \in these}
  BY DEF ToldBefore
<1>2. ASSUME NEW q \in these PROVE \E a \in announced : a[2] = q
  BY <1>2 DEF AdInv, ToldByWish
<1>3. ASSUME NEW o \in ToldBefore(s) PROVE \E a \in announced : a[2] = o[1]
  <2>1. CASE o \in older
    BY <2>1 DEF AdInv, OlderTold
  <2>2. CASE \E q \in these : o = <<q, s>>
    BY <1>2, <2>2
  <2> QED
    BY <1>1, <1>3, <2>1, <2>2
<1>4. \A p \in Programs, t \in Screens : <<p, t>> \in ToldBefore(s) <=> <<p, t>> \in older \/ (t = s /\ p \in these)
  BY <1>1
<1>5. ToldBefore(s) \subseteq Programs \X Screens /\ older \subseteq ToldBefore(s)
  <2>1. \A q \in these : q \in Programs
    OBVIOUS
  <2> HIDE DEF these
  <2>2. {<<p, s>> : p \in these} \subseteq Programs \X Screens
    BY <2>1
  <2> QED
    BY <1>1, <2>2 DEF AdInv, AdTypes
<1>6. \A p \in Programs : logical[p][s] # Untold \/ <<s, p>> \in announced => p \in these
  OBVIOUS
<1> HIDE DEF these
<1>7. \A p \in Programs : logical[p][s] # Untold \/ <<s, p>> \in announced => <<p, s>> \in ToldBefore(s)
  BY <1>4, <1>6
<1>8. \A p \in Programs, t \in Screens : t # s => (<<p, t>> \in ToldBefore(s) <=> <<p, t>> \in older)
  BY <1>4
<1> QED
  BY <1>3, <1>5, <1>7, <1>8

\* The settings still tell what is on record when a monitor changed.
LEMMA ToldStays ==
    ASSUME AdInv, NEW s \in Screens,
           UNCHANGED <<wish, running, logical, announced>>,
           \A t \in Screens : t # s => monitor'[t] = monitor[t],
           older \subseteq older',
           \A p \in Programs : logical[p][s] # Untold => <<p, s>> \in older'
    PROVE  ToldByWish'
<1> SUFFICES ASSUME NEW p \in Programs, NEW t \in Screens, logical[p][t] # Untold
             PROVE  Tells(p, t)' /\ \E a \in announced : a[2] = p
  BY DEF ToldByWish
<1>1. Tells(p, t) /\ \E a \in announced : a[2] = p
  BY DEF AdInv, ToldByWish
<1>2. DecideAtBind(p)' = DecideAtBind(p) /\ SendAdvertisement(p, DecideAtBind(p))' = SendAdvertisement(p, DecideAtBind(p))
  BY DEF DecideAtBind, SendAdvertisement, ScaleTold
<1>3. CASE t = s
  BY <1>1, <1>2, <1>3 DEF Tells
<1>4. CASE t # s
  <2>1. AdvertisementFor(t, DecideAtBind(p))' = AdvertisementFor(t, DecideAtBind(p))
    BY <1>2, <1>4 DEF AdvertisementFor
  <2> QED
    BY <1>1, <1>2, <2>1 DEF Tells
<1> QED
  BY <1>3, <1>4

LEMMA PlugKeeps ==
    ASSUME AdInv, NEW s \in Screens, NEW now \in Monitors, Plug(s, now)
    PROVE  AdInv'
<1>1. /\ s \notin plugged /\ plugged' = plugged \cup {s} /\ older' = ToldBefore(s)
      /\ monitor' \in [Screens -> Monitors]
      /\ \A t \in Screens : t # s => monitor'[t] = monitor[t]
      /\ UNCHANGED <<connected, wish, running, outputs, xdgs, sending, announced, logical, idle>>
  <2>1. monitor \in [Screens -> Monitors] /\ monitor' = [monitor EXCEPT ![s] = now]
    BY DEF Plug, AdInv, AdTypes
  <2>2. monitor' \in [Screens -> Monitors] /\ \A t \in Screens : t # s => monitor'[t] = monitor[t]
    BY <2>1
  <2> QED
    BY <2>2 DEF Plug
<1>2. s # Gone
  BY AdvertisementAssumption
<1>3. AdTypes' /\ SendsOnObjects' /\ OlderTold'
  <2>1. older' \subseteq Programs \X Screens /\ OlderTold'
    BY <1>1, OlderGrows DEF OlderTold
  <2>2. plugged' \subseteq Screens
    BY <1>1 DEF AdInv, AdTypes
  <2> QED
    BY <1>1, <2>1, <2>2 DEF AdInv, AdTypes, SendsOnObjects
<1>4. OfPlugged'
  BY <1>1 DEF AdInv, OfPlugged
<1>5. OutputsReal'
  BY <1>1, <1>2 DEF AdInv, OfPlugged, OutputsReal
<1>a. /\ older \subseteq older'
      /\ \A p \in Programs, t \in Screens : t # s => (<<p, t>> \in older' <=> <<p, t>> \in older)
      /\ \A p \in Programs : logical[p][s] # Untold => <<p, s>> \in older'
  BY <1>1, OlderGrows
<1>6. LogicalReal' /\ KnownByObject'
  <2>1. /\ \A p \in Programs : \A i \in DOMAIN outputs[p] : outputs[p][i].screen # s
        /\ \A p \in Programs : \A i \in DOMAIN xdgs[p] : xdgs[p][i].screen # s
    BY <1>1, <1>2 DEF AdInv, OfPlugged
  <2>2. LogicalReal'
    BY <1>1, <1>a, <2>1 DEF AdInv, LogicalReal, Honest
  <2> QED
    BY <1>1, <1>a, <2>1, <2>2 DEF AdInv, KnownByObject
<1>7. ToldByWish'
  BY <1>1, <1>a, ToldStays
<1> QED
  BY <1>3, <1>4, <1>5, <1>6, <1>7 DEF AdInv

LEMMA SetUpKeeps ==
    ASSUME AdInv, NEW s \in Screens, NEW now \in Monitors, NEW changed \in SUBSET {"mode", "scale"},
           SetUp(s, now, changed)
    PROVE  AdInv'
<1> DEFINE described(e) == [screen |-> e.screen, mode |-> IF "mode" \in changed THEN Real ELSE e.mode,
                            scaled |-> e.scaled /\ "scale" \notin changed]
           o(e) == IF e.screen = s THEN described(e) ELSE e
           x(e) == IF e.screen = s THEN [e EXCEPT !.sent = Real, !.applied = Real] ELSE e
<1>1. /\ sending = <<>> /\ older' = ToldBefore(s)
      /\ monitor' \in [Screens -> Monitors]
      /\ \A t \in Screens : t # s => monitor'[t] = monitor[t]
      /\ outputs' = [p \in Programs |-> [i \in DOMAIN outputs[p] |-> o(outputs[p][i])]]
      /\ xdgs' = [p \in Programs |-> [i \in DOMAIN xdgs[p] |-> x(xdgs[p][i])]]
      /\ UNCHANGED <<plugged, connected, wish, running, sending, announced, logical, idle>>
  <2>1. outputs' = [p \in Programs |-> [i \in DOMAIN outputs[p] |-> o(outputs[p][i])]]
    BY Zenon DEF SetUp
  <2>2. xdgs' = [p \in Programs |-> [i \in DOMAIN xdgs[p] |-> x(xdgs[p][i])]]
    BY Zenon DEF SetUp
  <2>3. monitor \in [Screens -> Monitors] /\ monitor' = [monitor EXCEPT ![s] = now]
    BY DEF SetUp, AdInv, AdTypes
  <2>4. monitor' \in [Screens -> Monitors] /\ \A t \in Screens : t # s => monitor'[t] = monitor[t]
    BY <2>3
  <2>5. /\ sending = <<>> /\ older' = ToldBefore(s)
        /\ UNCHANGED <<plugged, connected, wish, running, sending, announced, logical, idle>>
    BY DEF SetUp
  <2> HIDE DEF o, x
  <2> QED
    BY <2>1, <2>2, <2>4, <2>5
<1>a. older \subseteq older' /\ \A p \in Programs : logical[p][s] # Untold => <<p, s>> \in older'
  BY <1>1, OlderGrows
<1>2. \A e \in Output : /\ o(e) \in Output /\ o(e).screen = e.screen
                        /\ (e.mode = Real /\ ~e.scaled => o(e).mode = Real /\ ~o(e).scaled)
                        /\ (e.screen # s => o(e) = e)
  <2> TAKE e \in Output
  <2>1. /\ e.screen \in Screens \cup {Gone} /\ e.mode \in 1..Real /\ e.scaled \in BOOLEAN /\ Real \in 1..Real
    BY DEF Output, Real
  <2> QED
    BY <2>1 DEF Output
<1>3. \A e \in Object : /\ x(e) \in Object /\ x(e).screen = e.screen /\ x(e).record = e.record
                        /\ (Honest(e) => Honest(x(e)))
  <2> TAKE e \in Object
  <2>1. Real \in 0..Real
    BY DEF Real
  <2>2. /\ [e EXCEPT !.sent = Real, !.applied = Real] \in Object
        /\ [e EXCEPT !.sent = Real, !.applied = Real].screen = e.screen
        /\ [e EXCEPT !.sent = Real, !.applied = Real].record = e.record
        /\ [e EXCEPT !.sent = Real, !.applied = Real].sent = Real
        /\ [e EXCEPT !.sent = Real, !.applied = Real].applied = Real
    BY <2>1 DEF Object
  <2> QED
    BY <2>2 DEF Honest
<1> HIDE DEF o, x
<1>4. \A p \in Programs :
         /\ DOMAIN outputs'[p] = DOMAIN outputs[p] /\ DOMAIN xdgs'[p] = DOMAIN xdgs[p]
         /\ \A i \in DOMAIN outputs[p] : outputs[p][i] \in Output /\ outputs'[p][i] = o(outputs[p][i])
         /\ \A i \in DOMAIN xdgs[p] : xdgs[p][i] \in Object /\ xdgs'[p][i] = x(xdgs[p][i])
  BY <1>1 DEF AdInv, AdTypes
<1>5. AdTypes'
  <2>1. \A p \in Programs : outputs'[p] \in Seq(Output) /\ xdgs'[p] \in Seq(Object)
    <3> TAKE p \in Programs
    <3>1. PICK n \in Nat : DOMAIN outputs[p] = 1..n
      BY DEF AdInv, AdTypes
    <3>2. PICK m \in Nat : DOMAIN xdgs[p] = 1..m
      BY DEF AdInv, AdTypes
    <3>3. outputs'[p] = [i \in 1..n |-> o(outputs[p][i])] /\ xdgs'[p] = [i \in 1..m |-> x(xdgs[p][i])]
      BY <1>1, <3>1, <3>2
    <3>4. outputs'[p] \in [1..n -> Output] /\ xdgs'[p] \in [1..m -> Object]
      BY <1>2, <1>3, <1>4, <3>1, <3>2, <3>3
    <3> QED
      BY <3>4, SeqDef
  <2>2. outputs' \in [Programs -> Seq(Output)] /\ xdgs' \in [Programs -> Seq(Object)]
    BY <1>1, <2>1
  <2>3. older' \subseteq Programs \X Screens
    BY <1>1, OlderGrows
  <2> QED
    BY <1>1, <2>2, <2>3 DEF AdInv, AdTypes
<1>6. SendsOnObjects' /\ OlderTold'
  <2>1. OlderTold'
    BY <1>1, OlderGrows DEF OlderTold
  <2> QED
    BY <1>1, <2>1 DEF SendsOnObjects
<1>7. /\ \A p \in Programs : \A i \in DOMAIN outputs[p] : outputs'[p][i].screen = outputs[p][i].screen
      /\ \A p \in Programs : \A i \in DOMAIN xdgs[p] :
            xdgs'[p][i].screen = xdgs[p][i].screen /\ xdgs'[p][i].record = xdgs[p][i].record
  BY <1>2, <1>3, <1>4
<1>b. plugged' = plugged /\ announced' = announced /\ logical' = logical
  BY <1>1
<1>c. \A p \in Programs : DOMAIN outputs'[p] = DOMAIN outputs[p] /\ DOMAIN xdgs'[p] = DOMAIN xdgs[p]
  BY <1>4
<1>8. OfPlugged'
  BY <1>b, <1>c, <1>7 DEF AdInv, OfPlugged
<1>9. OutputsReal'
  <2> SUFFICES ASSUME NEW p \in Programs, NEW t \in plugged, <<t, p>> \notin announced,
                      NEW i \in DOMAIN outputs[p], outputs'[p][i].screen = t
               PROVE  outputs'[p][i].mode = Real /\ ~outputs'[p][i].scaled
    BY <1>b, <1>c DEF OutputsReal
  <2>1. outputs[p][i].mode = Real /\ ~outputs[p][i].scaled
    BY <1>7 DEF AdInv, OutputsReal
  <2> QED
    BY <1>2, <1>4, <2>1
<1>10. LogicalReal'
  <2> SUFFICES ASSUME NEW p \in Programs, NEW i \in DOMAIN xdgs[p], xdgs'[p][i].screen \in plugged'
               PROVE  /\ Honest(xdgs'[p][i])
                      /\ xdgs'[p][i].record = "told" => \/ <<xdgs'[p][i].screen, p>> \in announced'
                                                        \/ <<p, xdgs'[p][i].screen>> \in older'
    BY <1>c DEF LogicalReal, Honest
  <2>1. /\ Honest(xdgs[p][i])
        /\ xdgs[p][i].record = "told" => \/ <<xdgs[p][i].screen, p>> \in announced
                                         \/ <<p, xdgs[p][i].screen>> \in older
    BY <1>b, <1>7 DEF AdInv, LogicalReal
  <2>2. older \subseteq older'
    BY <1>1, OlderGrows
  <2>3. xdgs'[p][i].screen = xdgs[p][i].screen /\ xdgs'[p][i].record = xdgs[p][i].record
    BY <1>7
  <2>4. Honest(xdgs'[p][i])
    BY <1>3, <1>4, <2>1
  <2> QED
    BY <1>b, <2>1, <2>2, <2>3, <2>4
<1>11. KnownByObject'
  <2>1. older \subseteq older'
    BY <1>1, OlderGrows
  <2> QED
    BY <1>b, <1>c, <1>7, <2>1 DEF AdInv, KnownByObject
<1>12. ToldByWish'
  BY <1>1, <1>a, ToldStays
<1> QED
  BY <1>5, <1>6, <1>8, <1>9, <1>10, <1>11, <1>12 DEF AdInv

LEMMA DestroyKeeps == ASSUME AdInv, NEW s \in Screens, Destroy(s) PROVE AdInv'
<1>1. UNCHANGED <<plugged, monitor, connected, wish, running, outputs, xdgs, sending, announced, logical,
                  older, idle>>
  BY DEF Destroy
<1>2. /\ AdTypes' /\ SendsOnObjects' /\ OfPlugged' /\ OutputsReal'
      /\ LogicalReal' /\ KnownByObject' /\ OlderTold'
  BY <1>1 DEF AdInv, AdTypes, SendsOnObjects, OfPlugged, OutputsReal, LogicalReal, KnownByObject, OlderTold
<1>3. ToldByWish'
  BY <1>1 DEF AdInv, ToldByWish, Tells, DecideAtBind, AdvertisementFor, SendAdvertisement, ScaleTold
<1> QED
  BY <1>2, <1>3 DEF AdInv

LEMMA UnplugKeeps == ASSUME AdInv, NEW s \in Screens, Unplug(s) PROVE AdInv'
<1> DEFINE inert(e) == IF e.screen = s THEN [e EXCEPT !.screen = Gone] ELSE e
<1>1. /\ s \in plugged /\ plugged' = plugged \ {s} /\ sending = <<>>
      /\ outputs' = [p \in Programs |-> [i \in DOMAIN outputs[p] |-> inert(outputs[p][i])]]
      /\ xdgs' = [p \in Programs |-> [i \in DOMAIN xdgs[p] |-> inert(xdgs[p][i])]]
      /\ announced' = {IF a[1] = s THEN <<Gone, a[2]>> ELSE a : a \in announced}
      /\ UNCHANGED <<monitor, connected, wish, running, sending, logical, older, idle>>
  BY DEF Unplug
<1>2. s # Gone
  BY AdvertisementAssumption
<1>3. \A e \in Output : inert(e) \in Output /\ inert(e).mode = e.mode /\ inert(e).scaled = e.scaled
  BY DEF Output
<1>4. \A e \in Object : inert(e) \in Object /\ inert(e).record = e.record /\ (Honest(e) => Honest(inert(e)))
  BY DEF Object, Honest
<1>5. \A e : e \in Output \/ e \in Object => inert(e).screen = IF e.screen = s THEN Gone ELSE e.screen
  BY DEF Output, Object
<1>6. \A p \in Programs :
         /\ DOMAIN outputs'[p] = DOMAIN outputs[p] /\ DOMAIN xdgs'[p] = DOMAIN xdgs[p]
         /\ \A i \in DOMAIN outputs[p] : outputs[p][i] \in Output /\ outputs'[p][i] = inert(outputs[p][i])
         /\ \A i \in DOMAIN xdgs[p] : xdgs[p][i] \in Object /\ xdgs'[p][i] = inert(xdgs[p][i])
  BY <1>1 DEF AdInv, AdTypes
<1>7. \A p \in Programs, t \in Screens : t # s => (<<t, p>> \in announced <=> <<t, p>> \in announced')
  <2> SUFFICES ASSUME NEW p \in Programs, NEW t \in Screens, t # s
               PROVE  <<t, p>> \in announced <=> <<t, p>> \in announced'
    OBVIOUS
  <2>1. ASSUME <<t, p>> \in announced PROVE <<t, p>> \in announced'
    BY <1>1, <2>1
  <2>2. ASSUME <<t, p>> \in announced' PROVE <<t, p>> \in announced
    <3>1. PICK a \in announced : <<t, p>> = IF a[1] = s THEN <<Gone, a[2]>> ELSE a
      BY <1>1, <2>2
    <3>2. t # Gone
      BY AdvertisementAssumption
    <3> QED
      BY <3>1, <3>2
  <2> QED
    BY <2>1, <2>2
<1> HIDE DEF inert
<1>8. AdTypes'
  <2>1. \A p \in Programs : outputs'[p] \in Seq(Output) /\ xdgs'[p] \in Seq(Object)
    <3> TAKE p \in Programs
    <3>1. PICK n \in Nat : DOMAIN outputs[p] = 1..n
      BY DEF AdInv, AdTypes
    <3>2. PICK m \in Nat : DOMAIN xdgs[p] = 1..m
      BY DEF AdInv, AdTypes
    <3>3. outputs'[p] = [i \in 1..n |-> inert(outputs[p][i])] /\ xdgs'[p] = [i \in 1..m |-> inert(xdgs[p][i])]
      BY <1>1, <3>1, <3>2
    <3>4. outputs'[p] \in [1..n -> Output] /\ xdgs'[p] \in [1..m -> Object]
      BY <1>3, <1>4, <1>6, <3>1, <3>2, <3>3
    <3> QED
      BY <3>4, SeqDef
  <2>2. outputs' \in [Programs -> Seq(Output)] /\ xdgs' \in [Programs -> Seq(Object)]
    BY <1>1, <2>1
  <2>3. announced' \subseteq (Screens \cup {Gone}) \X Programs
    BY <1>1 DEF AdInv, AdTypes
  <2> QED
    BY <1>1, <2>2, <2>3 DEF AdInv, AdTypes
<1>9. SendsOnObjects'
  BY <1>1 DEF SendsOnObjects
<1>10. OfPlugged'
  <2> SUFFICES ASSUME NEW p \in Programs
               PROVE  /\ \A i \in DOMAIN outputs[p] : outputs'[p][i].screen \in plugged' \cup {Gone}
                      /\ \A i \in DOMAIN xdgs[p] :
                            /\ xdgs'[p][i].screen \in plugged' \cup {Gone}
                            /\ xdgs'[p][i].screen # Gone =>
                                  \E j \in DOMAIN outputs[p] : outputs'[p][j].screen = xdgs'[p][i].screen
    BY <1>6 DEF OfPlugged
  <2>1. \A i \in DOMAIN outputs[p] :
           outputs'[p][i].screen = IF outputs[p][i].screen = s THEN Gone ELSE outputs[p][i].screen
    BY <1>5, <1>6
  <2>2. \A i \in DOMAIN xdgs[p] :
           xdgs'[p][i].screen = IF xdgs[p][i].screen = s THEN Gone ELSE xdgs[p][i].screen
    BY <1>5, <1>6
  <2>3. \A i \in DOMAIN outputs[p] : outputs'[p][i].screen \in plugged' \cup {Gone}
    BY <1>1, <2>1 DEF AdInv, OfPlugged
  <2> SUFFICES ASSUME NEW i \in DOMAIN xdgs[p]
               PROVE  /\ xdgs'[p][i].screen \in plugged' \cup {Gone}
                      /\ xdgs'[p][i].screen # Gone =>
                            \E j \in DOMAIN outputs[p] : outputs'[p][j].screen = xdgs'[p][i].screen
    BY <2>3
  <2>4. CASE xdgs[p][i].screen \in {s, Gone}
    BY <2>2, <2>4
  <2>5. CASE xdgs[p][i].screen \notin {s, Gone}
    <3>1. xdgs'[p][i].screen = xdgs[p][i].screen /\ xdgs[p][i].screen \in plugged
      BY <2>2, <2>5 DEF AdInv, OfPlugged
    <3>2. PICK j \in DOMAIN outputs[p] : outputs[p][j].screen = xdgs[p][i].screen
      BY <2>5 DEF AdInv, OfPlugged
    <3>3. outputs'[p][j].screen = xdgs'[p][i].screen
      BY <2>1, <2>5, <3>1, <3>2
    <3> QED
      BY <1>1, <2>5, <3>1, <3>3
  <2> QED
    BY <2>4, <2>5
<1>11. OutputsReal'
  <2> SUFFICES ASSUME NEW p \in Programs, NEW t \in plugged', <<t, p>> \notin announced',
                      NEW i \in DOMAIN outputs[p], outputs'[p][i].screen = t
               PROVE  outputs'[p][i].mode = Real /\ ~outputs'[p][i].scaled
    BY <1>6 DEF OutputsReal
  <2>1. t \in Screens /\ t # s /\ t # Gone /\ t \in plugged
    BY <1>1, AdvertisementAssumption DEF AdInv, AdTypes
  <2>2. <<t, p>> \notin announced
    BY <1>7, <2>1
  <2>3. outputs[p][i].screen = t
    BY <1>5, <1>6, <2>1
  <2>4. outputs[p][i].mode = Real /\ ~outputs[p][i].scaled
    BY <2>1, <2>2, <2>3 DEF AdInv, OutputsReal
  <2> QED
    BY <1>3, <1>6, <2>4
<1>12. LogicalReal'
  <2> SUFFICES ASSUME NEW p \in Programs, NEW i \in DOMAIN xdgs[p], xdgs'[p][i].screen \in plugged'
               PROVE  /\ Honest(xdgs'[p][i])
                      /\ xdgs'[p][i].record = "told" => \/ <<xdgs'[p][i].screen, p>> \in announced'
                                                       \/ <<p, xdgs'[p][i].screen>> \in older
    BY <1>1, <1>6 DEF LogicalReal, Honest
  <2>1. xdgs'[p][i].screen \in Screens /\ xdgs'[p][i].screen # s /\ xdgs'[p][i].screen # Gone
    BY <1>1, AdvertisementAssumption DEF AdInv, AdTypes
  <2>2. xdgs[p][i].screen = xdgs'[p][i].screen /\ xdgs[p][i].screen \in plugged
    BY <1>1, <1>5, <1>6, <2>1
  <2>3. /\ Honest(xdgs[p][i])
        /\ xdgs[p][i].record = "told" => \/ <<xdgs[p][i].screen, p>> \in announced
                                        \/ <<p, xdgs[p][i].screen>> \in older
    BY <2>2 DEF AdInv, LogicalReal
  <2> QED
    BY <1>4, <1>6, <1>7, <2>1, <2>2, <2>3
<1>13. KnownByObject'
  <2> SUFFICES ASSUME NEW p \in Programs, NEW i \in DOMAIN outputs[p], outputs'[p][i].screen \in plugged',
                      logical[p][outputs'[p][i].screen] # Untold
               PROVE  \/ <<outputs'[p][i].screen, p>> \in announced'
                      \/ <<p, outputs'[p][i].screen>> \in older
    BY <1>1, <1>6 DEF KnownByObject
  <2>1. outputs'[p][i].screen \in Screens /\ outputs'[p][i].screen # s /\ outputs'[p][i].screen # Gone
    BY <1>1, AdvertisementAssumption DEF AdInv, AdTypes
  <2>2. outputs[p][i].screen = outputs'[p][i].screen /\ outputs[p][i].screen \in plugged
    BY <1>1, <1>5, <1>6, <2>1
  <2> QED
    BY <1>7, <2>1, <2>2 DEF AdInv, KnownByObject
<1>14. ToldByWish' /\ OlderTold'
  <2>1. ASSUME NEW p, \E a \in announced : a[2] = p
        PROVE  \E a \in announced' : a[2] = p
    <3>1. PICK a \in announced : a[2] = p
      BY <2>1
    <3>2. (IF a[1] = s THEN <<Gone, a[2]>> ELSE a) \in announced'
      BY <1>1
    <3>3. (IF a[1] = s THEN <<Gone, a[2]>> ELSE a)[2] = p
      BY <3>1
    <3> QED
      BY <3>2, <3>3
  <2>2. OlderTold'
    BY <1>1, <2>1 DEF AdInv, OlderTold
  <2>3. ASSUME NEW p \in Programs, NEW t \in Screens, Tells(p, t) PROVE Tells(p, t)'
    BY <1>1, <2>3 DEF Tells, DecideAtBind, AdvertisementFor, SendAdvertisement, ScaleTold
  <2>4. ToldByWish'
    BY <1>1, <2>1, <2>3 DEF AdInv, ToldByWish
  <2> QED
    BY <2>2, <2>4
<1> QED
  BY <1>8, <1>9, <1>10, <1>11, <1>12, <1>13, <1>14 DEF AdInv

LEMMA AdStep == AdInv /\ [AdNext]_adVars => AdInv'
<1> SUFFICES ASSUME AdInv, [AdNext]_adVars PROVE AdInv'
  OBVIOUS
<1>1. CASE \E p \in Programs, s \in Screens : Bind(p, s)
  BY <1>1, BindKeeps
<1>2. CASE \E p \in Programs : \E i \in 1..MaxObjects[p] : CreateXdgOutput(p, i)
  <2>1. PICK p \in Programs : \E i \in 1..MaxObjects[p] : CreateXdgOutput(p, i)
    BY <1>2
  <2>2. PICK i \in 1..MaxObjects[p] : CreateXdgOutput(p, i)
    BY <2>1
  <2>3. i \in DOMAIN outputs[p]
    BY <2>2 DEF CreateXdgOutput
  <2> QED
    BY <2>2, <2>3, CreateKeeps
<1>3. CASE SendEvent \/ Idle \/ End
  BY <1>3, SendKeeps, IdleKeeps, EndKeeps
<1>4. CASE \E asked \in Wishes : Save(asked)
  BY <1>4, SaveKeeps
<1>5. CASE \E p \in Programs : Disconnect(p)
  BY <1>5, DisconnectKeeps
<1>6. CASE \E p \in Programs : \E i \in 1..MaxObjects[p] : DestroyXdgOutput(p, i)
  <2>1. PICK p \in Programs : \E i \in 1..MaxObjects[p] : DestroyXdgOutput(p, i)
    BY <1>6
  <2>2. PICK i \in 1..MaxObjects[p] : DestroyXdgOutput(p, i)
    BY <2>1
  <2>3. i \in DOMAIN xdgs[p]
    BY <2>2 DEF DestroyXdgOutput
  <2> QED
    BY <2>2, <2>3, DestroyObjectKeeps
<1>7. CASE \E s \in Screens : Unplug(s) \/ Destroy(s)
  BY <1>7, UnplugKeeps, DestroyKeeps
<1>8. CASE \E s \in Screens, now \in Monitors : Plug(s, now)
  BY <1>8, PlugKeeps
<1>9. CASE \E s \in Screens, now \in Monitors, changed \in SUBSET {"mode", "scale"} : SetUp(s, now, changed)
  BY <1>9, SetUpKeeps
<1>10. CASE UNCHANGED adVars
  <2>1. UNCHANGED <<plugged, monitor, connected, wish, running, outputs, xdgs, sending, announced, logical,
                    older, idle>>
    BY <1>10 DEF adVars, screenVars
  <2>2. AdTypes' /\ SendsOnObjects' /\ OfPlugged' /\ OutputsReal' /\ OlderTold'
    BY <2>1 DEF AdInv, AdTypes, SendsOnObjects, OfPlugged, OutputsReal, OlderTold
  <2>3. LogicalReal' /\ KnownByObject' /\ ToldByWish'
    BY <2>1 DEF AdInv, LogicalReal, KnownByObject, ToldByWish, Tells, DecideAtBind,
                AdvertisementFor, SendAdvertisement, ScaleTold
  <2> QED
    BY <2>2, <2>3 DEF AdInv
<1> QED
  BY <1>1, <1>2, <1>3, <1>4, <1>5, <1>6, <1>7, <1>8, <1>9, <1>10 DEF AdNext

\* For any programs, screens and monitors, and any settings saved, screens
\* plugged, unplugged, set up anew and objects created in any order: no program is
\* left with a mode or a size KWin did not tell it, unless an announcement on
\* record takes it back: the screen's own, or another of the program for a size told
\* of an older monitor (restore(), modeoverride.cpp:290-334, logicalsize.cpp:82-113).
THEOREM WhatIsToldIsOnRecord == AdSpec => []NothingStaysTold
<1>1. AdInv => NothingStaysTold
  <2> SUFFICES ASSUME AdInv, NEW p \in connected, NEW s \in plugged, <<s, p>> \notin announced
               PROVE  /\ \A i \in DOMAIN outputs[p] : outputs[p][i].screen = s =>
                             outputs[p][i].mode = Real /\ ~outputs[p][i].scaled
                      /\ \A i \in DOMAIN xdgs[p] : xdgs[p][i].screen = s =>
                             \/ xdgs[p][i].applied \in {Untold, Real}
                             \/ <<p, s>> \in older /\ \E a \in announced : a[2] = p
    BY DEF NothingStaysTold
  <2>1. p \in Programs
    BY DEF AdInv, AdTypes
  <2>2. <<p, s>> \in older => \E a \in announced : a[2] = p
    BY DEF AdInv, OlderTold
  <2> QED
    BY <2>1, <2>2 DEF AdInv, OutputsReal, LogicalReal, Honest
<1> QED
  BY <1>1, AdStarts, AdStep, PTL DEF AdSpec

-----------------------------------------------------------------------------
(* The logical size a program applies belongs with its mode.               *)

\* What a screen's new xdg_outputs come to say.
Due(p, s) == IF logical[p][s] = Untold THEN Real ELSE logical[p][s]

\* The record holds what the settings tell, and it is what was told last, unless
\* that was of an older monitor.
OnRecord ==
    \A p \in Programs, s \in Screens : logical[p][s] # Untold => logical[p][s] = wish.size
NewestTold ==
    \A p \in Programs, s \in plugged :
        (\E i \in DOMAIN outputs[p] : outputs[p][i].screen = s) /\ <<p, s>> \notin older
            => Belongs(p, s) = Due(p, s)

\* How far KWin's events on a new object got when the one at a place is next: the
\* object was heard of all before it.
Heard(x, p, place) ==
    /\ x.screen \in plugged
    /\ place > 2 /\ x.record # "told" => x.sent = Real
    /\ place > 3 => x.sent = Due(p, x.screen)
    /\ x.record = "waiting" => /\ idle /\ place < 4
                               /\ place > 1 => x.positioned
                               /\ place > 2 => x.sized
    /\ place < 4 => x.record # "told"
    /\ x.record = "none" => logical[p][x.screen] = Untold

\* The events on their way are the rest of one object's, and no other waits.
OneObject(p, i, place) ==
    /\ Len(sending) = Len(EventsOf(p)) + 1 - place
    /\ \A k \in 1..Len(sending) : sending[k] = <<p, i, EventsOf(p)[place + k - 1]>>
    /\ Heard(xdgs[p][i], p, place)
    /\ \A q \in Programs : \A l \in DOMAIN xdgs[q] :
           xdgs[q][l].record = "waiting" => q = p /\ l = i
NoneWaits == \A q \in Programs : \A l \in DOMAIN xdgs[q] : xdgs[q][l].record # "waiting"
OneAtATime ==
    IF sending = <<>> THEN NoneWaits
    ELSE \E p \in Programs : \E i \in DOMAIN xdgs[p] : \E place \in 1..Len(EventsOf(p)) : OneObject(p, i, place)

TogetherInv == OnRecord /\ NewestTold /\ OneAtATime

Below == {pair \in Nat \X Nat : pair[1] < pair[2]}

LEMMA LeastNumber ==
    ASSUME NEW T \in SUBSET Nat, T # {}
    PROVE  \E least \in T : \A n \in T : least <= n
<1>1. IsWellFoundedOn(Below, Nat)
  BY NatLessThanWellFounded, Zenon DEF OpToRel, Below
<1>2. \E least \in T : \A n \in T : <<n, least>> \notin Below
  BY <1>1, WFMin
<1>3. PICK least \in T : \A n \in T : <<n, least>> \notin Below
  BY <1>2
<1>4. ASSUME NEW n \in T
      PROVE  least <= n
  <2>1. n \in Nat /\ least \in Nat /\ (n < least => <<n, least>> \in Below)
    BY DEF Below
  <2> QED BY <1>3, <2>1
<1> QED BY <1>4

\* A set of places in a sequence has a last one.
LEMMA LastPlace ==
    ASSUME NEW n \in Nat, NEW T \in SUBSET (1..n), T # {}
    PROVE  Max(T) \in T /\ \A i \in T : i <= Max(T)
<1> DEFINE back == {n - i : i \in T}
<1>1. back \in SUBSET Nat /\ back # {}
  <2>1. \A i \in T : i \in 1..n /\ n - i \in Nat
    OBVIOUS
  <2> QED BY <2>1
<1>2. PICK least \in back : \A k \in back : least <= k
  BY <1>1, LeastNumber
<1>3. PICK last \in T : least = n - last
  BY <1>2
<1>4. \A i \in T : last >= i
  <2> TAKE i \in T
  <2>1. n - i \in back /\ i \in Int /\ last \in Int
    OBVIOUS
  <2>2. n - last <= n - i
    BY <1>2, <1>3, <2>1
  <2> QED BY <2>1, <2>2
<1>5. Max(T) \in T /\ \A i \in T : Max(T) >= i
  BY <1>4 DEF Max
<1>6. \A i \in T : i \in Int
  OBVIOUS
<1> QED BY <1>5, <1>6

\* What is said of the newest object of a screen is said of one that is there.
LEMMA NewestThere ==
    ASSUME NEW objects \in Seq(Output), NEW s, \E i \in DOMAIN objects : objects[i].screen = s
    PROVE  \E i \in DOMAIN objects : objects[i].screen = s /\ Newest(objects, s) = objects[i]
<1> DEFINE T == {i \in DOMAIN objects : objects[i].screen = s}
<1>1. Len(objects) \in Nat /\ T \in SUBSET (1..Len(objects)) /\ T # {}
  OBVIOUS
<1> HIDE DEF T
<1>2. Max(T) \in T
  BY <1>1, LastPlace
<1> QED BY <1>2 DEF T, Newest

LEMMA NewestAppended ==
    ASSUME NEW objects \in Seq(Output), NEW e \in Output, NEW s,
           e.screen = s \/ \E i \in DOMAIN objects : objects[i].screen = s
    PROVE  Newest(Append(objects, e), s) = IF e.screen = s THEN e ELSE Newest(objects, s)
<1> DEFINE longer == Append(objects, e)
           n == Len(objects)
           T == {i \in DOMAIN objects : objects[i].screen = s}
           U == {i \in DOMAIN longer : longer[i].screen = s}
<1>1. n \in Nat /\ DOMAIN objects = 1..n /\ DOMAIN longer = 1..(n + 1)
      /\ longer[n + 1] = e /\ \A i \in 1..n : longer[i] = objects[i]
  OBVIOUS
<1> HIDE DEF n, longer
<1>2. U \in SUBSET (1..(n + 1)) /\ T \in SUBSET (1..n) /\ n + 1 \in Nat
      /\ U = IF e.screen = s THEN T \cup {n + 1} ELSE T
  BY <1>1
<1>3. Newest(longer, s) = longer[Max(U)] /\ Newest(objects, s) = objects[Max(T)]
  BY DEF Newest
<1>4. e.screen = s \/ T # {}
  OBVIOUS
<1> HIDE DEF U, T
<1>5. CASE e.screen = s
  <2>1. n + 1 \in U
    BY <1>2, <1>5
  <2>2. Max(U) \in U /\ n + 1 <= Max(U)
    BY <1>2, <2>1, LastPlace
  <2>3. ASSUME NEW last, last \in U, n + 1 <= last PROVE last = n + 1
    <3>1. last \in 1..(n + 1)
      BY <1>2, <2>3
    <3> QED BY <1>2, <2>3, <3>1
  <2>4. Max(U) = n + 1
    BY <2>2, <2>3
  <2> QED BY <1>1, <1>3, <1>5, <2>4 DEF longer
<1>6. CASE e.screen # s
  <2>1. U = T /\ Max(T) \in T
    BY <1>1, <1>2, <1>4, <1>6, LastPlace DEF n
  <2> QED BY <1>1, <1>2, <1>3, <1>6, <2>1 DEF longer
<1> QED BY <1>5, <1>6

LEMMA NewestSame ==
    ASSUME NEW objects \in Seq(Output), NEW others \in Seq(Output), NEW s,
           DOMAIN others = DOMAIN objects,
           \A i \in DOMAIN objects :
               objects[i].screen = s \/ others[i].screen = s => others[i] = objects[i],
           \E i \in DOMAIN objects : objects[i].screen = s
    PROVE  Newest(others, s) = Newest(objects, s)
<1> DEFINE T == {i \in DOMAIN objects : objects[i].screen = s}
<1>1. T = {i \in DOMAIN others : others[i].screen = s}
  OBVIOUS
<1>2. Len(objects) \in Nat /\ T \in SUBSET (1..Len(objects)) /\ T # {}
  OBVIOUS
<1>3. Newest(others, s) = others[Max(T)] /\ Newest(objects, s) = objects[Max(T)]
  BY <1>1 DEF Newest
<1> HIDE DEF T
<1>4. Max(T) \in T
  BY <1>2, LastPlace
<1> QED BY <1>3, <1>4 DEF T

LEMMA TogetherStarts == AdInit => TogetherInv
<1> SUFFICES ASSUME AdInit PROVE TogetherInv
  OBVIOUS
<1>1. \A p \in Programs : outputs[p] = <<>> /\ xdgs[p] = <<>> /\ \A s \in Screens : logical[p][s] = Untold
  BY DEF AdInit, Nothing
<1>2. sending = <<>>
  BY DEF AdInit
<1> QED BY <1>1, <1>2 DEF TogetherInv, OnRecord, NewestTold, OneAtATime, NoneWaits

LEMMA BindTogether ==
    ASSUME AdInv, TogetherInv, NEW p \in Programs, NEW s \in Screens, Bind(p, s)
    PROVE  TogetherInv'
<1> DEFINE method == DecideAtBind(p)
           size == AdvertisementFor(s, method)
           told == running /\ method # "Off" /\ size # Untold /\ SendAdvertisement(p, method)
           e == IF told THEN [screen |-> s, mode |-> IF method = "AdvertisedScale" THEN Real ELSE size,
                              scaled |-> ScaleTold(method)]
                ELSE [screen |-> s, mode |-> Real, scaled |-> FALSE]
<1>1. /\ s \in plugged /\ sending = <<>>
      /\ UNCHANGED <<plugged, wish, xdgs, sending>>
      /\ outputs' = [outputs EXCEPT ![p] = Append(@, e)]
      /\ logical' = IF told /\ ~ScaleTold(method) THEN [logical EXCEPT ![p][s] = size] ELSE logical
      /\ older' = IF told THEN older \ {<<p, s>>} ELSE older
  BY DEF Bind, screenVars
<1>2. size \in 0..Real /\ (size # Untold => size = wish.size /\ size \in 1..Real)
  BY DEF AdInv, AdTypes, Wish, AdvertisementFor, Untold, Real
<1>3. e \in Output /\ e.screen = s
  <2>1. ScaleTold(method) \in BOOLEAN /\ Real \in 1..Real
    BY DEF ScaleTold, Real
  <2> QED BY <1>2, <2>1 DEF Output
<1>4. \A q \in Programs, t \in Screens :
         logical'[q][t] = IF told /\ ~ScaleTold(method) /\ q = p /\ t = s THEN size ELSE logical[q][t]
  <2>1. logical \in [Programs -> [Screens -> 0..Real]]
    BY DEF AdInv, AdTypes
  <2> HIDE DEF told, size, method
  <2> QED BY <1>1, <2>1
<1>5. OnRecord'
  BY <1>1, <1>2, <1>4 DEF TogetherInv, OnRecord
<1>6. <<p, s>> \in older' \/ (IF e.scaled THEN Real ELSE e.mode) = Due(p, s)'
  <2>1. CASE told /\ ScaleTold(method)
    <3>1. logical'[p][s] = logical[p][s] /\ e.scaled
      BY <1>4, <2>1
    <3>2. logical[p][s] = Untold
      BY <2>1 DEF AdInv, ToldByWish, Tells
    <3> QED BY <3>1, <3>2 DEF Due
  <2>2. CASE told /\ ~ScaleTold(method)
    <3>1. logical'[p][s] = size /\ size # Untold
      BY <1>4, <2>2
    <3>2. e.mode = size /\ ~e.scaled
      BY <2>2 DEF ScaleTold
    <3> QED BY <3>1, <3>2 DEF Due
  <2>3. CASE ~told
    <3>1. logical'[p][s] = logical[p][s] /\ e.mode = Real
      BY <1>4, <2>3
    <3>2. logical[p][s] = Untold \/ <<p, s>> \in older
      BY <2>3 DEF AdInv, ToldByWish, Tells
    <3> QED BY <1>1, <2>3, <3>1, <3>2 DEF Due
  <2> QED BY <2>1, <2>2, <2>3
<1> HIDE DEF e, told, size, method
<1>7. NewestTold'
  <2> SUFFICES ASSUME NEW q \in Programs, NEW t \in plugged, NEW i \in DOMAIN outputs'[q],
                      outputs'[q][i].screen = t, <<q, t>> \notin older'
               PROVE  Belongs(q, t)' = Due(q, t)'
    BY <1>1 DEF NewestTold
  <2>1. outputs \in [Programs -> Seq(Output)] /\ t \in Screens
    BY DEF AdInv, AdTypes
  <2>a. q # p \/ t # s => <<q, t>> \notin older
    BY <1>1
  <2>2. CASE q # p
    <3>1. outputs'[q] = outputs[q] /\ logical'[q][t] = logical[q][t]
      BY <1>1, <1>4, <2>1, <2>2
    <3> QED BY <2>2, <2>a, <3>1 DEF TogetherInv, NewestTold, Belongs, Due
  <2>3. CASE q = p
    <3>1. outputs'[p] = Append(outputs[p], e) /\ outputs[p] \in Seq(Output)
      BY <1>1, <2>1
    <3>2. CASE t = s
      <4>1. Newest(outputs'[p], s) = e
        BY <1>3, <3>1, NewestAppended
      <4> QED BY <1>6, <2>3, <3>2, <4>1 DEF Belongs
    <3>3. CASE t # s
      <4>1. \E k \in DOMAIN outputs[p] : outputs[p][k].screen = t
        BY <1>3, <2>3, <3>1, <3>3
      <4>2. Newest(outputs'[p], t) = Newest(outputs[p], t)
        BY <1>3, <3>1, <3>3, <4>1, NewestAppended
      <4>3. logical'[p][t] = logical[p][t]
        BY <1>4, <2>1, <3>3
      <4> QED BY <2>3, <2>a, <3>3, <4>1, <4>2, <4>3 DEF TogetherInv, NewestTold, Belongs, Due
    <3> QED BY <3>2, <3>3
  <2> QED BY <2>2, <2>3
<1>8. OneAtATime'
  BY <1>1 DEF TogetherInv, OneAtATime, NoneWaits
<1> QED BY <1>5, <1>7, <1>8 DEF TogetherInv

LEMMA EventPlaces ==
    ASSUME NEW p \in Programs
    PROVE  /\ EventsOf(p) \in Seq(Events) /\ Len(EventsOf(p)) \in {3, 4}
           /\ EventsOf(p)[1] = "position" /\ EventsOf(p)[2] = "size"
           /\ Len(EventsOf(p)) = 3 => EventsOf(p)[3] = "done"
           /\ Len(EventsOf(p)) = 4 => EventsOf(p)[3] = "name" /\ EventsOf(p)[4] = "done"
<1> DEFINE first == <<"position", "size">>
           named == IF ProgramOf[p].xdg = 1 THEN <<>> ELSE <<"name">>
           last == <<"done">>
<1>1. /\ first \in Seq(Events) /\ Len(first) = 2 /\ first[1] = "position" /\ first[2] = "size"
      /\ last \in Seq(Events) /\ Len(last) = 1 /\ last[1] = "done"
  BY DEF Events
<1>2. /\ named \in Seq(Events) /\ Len(named) \in {0, 1} /\ (Len(named) = 1 => named[1] = "name")
  <2>1. <<>> \in Seq(Events) /\ Len(<<>>) = 0
    OBVIOUS
  <2>2. <<"name">> \in Seq(Events) /\ Len(<<"name">>) = 1 /\ <<"name">>[1] = "name"
    BY DEF Events
  <2> QED BY <2>1, <2>2
<1>3. EventsOf(p) = (first \o named) \o last
  BY DEF EventsOf
<1> HIDE DEF first, named, last
<1>4. /\ first \o named \in Seq(Events) /\ Len(first \o named) = 2 + Len(named)
      /\ (first \o named)[1] = "position" /\ (first \o named)[2] = "size"
      /\ Len(named) = 1 => (first \o named)[3] = "name"
  <2>1. /\ first \o named \in Seq(Events) /\ Len(first \o named) = Len(first) + Len(named)
        /\ \A i \in 1..(Len(first) + Len(named)) :
              (first \o named)[i] = IF i <= Len(first) THEN first[i] ELSE named[i - Len(first)]
    BY <1>1, <1>2, ConcatProperties
  <2>2. /\ 1 \in 1..(2 + Len(named)) /\ 2 \in 1..(2 + Len(named))
        /\ Len(named) = 1 => 3 \in 1..(2 + Len(named))
    BY <1>2
  <2> QED BY <1>1, <1>2, <2>1, <2>2
<1>5. /\ (first \o named) \o last \in Seq(Events)
      /\ Len((first \o named) \o last) = Len(first \o named) + 1
      /\ \A i \in 1..Len(first \o named) : ((first \o named) \o last)[i] = (first \o named)[i]
      /\ ((first \o named) \o last)[Len(first \o named) + 1] = "done"
  <2> DEFINE front == first \o named
  <2>1. front \in Seq(Events)
    BY <1>4
  <2> HIDE DEF front
  <2>2. /\ front \o last \in Seq(Events) /\ Len(front \o last) = Len(front) + 1
        /\ \A i \in 1..Len(front) : (front \o last)[i] = front[i]
        /\ (front \o last)[Len(front) + 1] = "done"
    <3>1. /\ front \o last \in Seq(Events) /\ Len(front \o last) = Len(front) + Len(last)
          /\ \A i \in 1..(Len(front) + Len(last)) :
                (front \o last)[i] = IF i <= Len(front) THEN front[i] ELSE last[i - Len(front)]
      BY <1>1, <2>1, ConcatProperties
    <3>2. Len(front) \in Nat
      BY <2>1
    <3> QED BY <1>1, <3>1, <3>2
  <2> QED BY <2>2 DEF front
<1>6. CASE Len(named) = 0
  <2>1. Len(first \o named) = 2 /\ 1 \in 1..2 /\ 2 \in 1..2
    BY <1>4, <1>6
  <2> QED BY <1>3, <1>4, <1>5, <2>1
<1>7. CASE Len(named) = 1
  <2>1. Len(first \o named) = 3 /\ 1 \in 1..3 /\ 2 \in 1..3 /\ 3 \in 1..3
    BY <1>4, <1>7
  <2> QED BY <1>3, <1>4, <1>5, <1>7, <2>1
<1> QED BY <1>2, <1>6, <1>7

\* The steps that leave the wl_outputs alone keep what the record says of them.
LEMMA RecordStays ==
    ASSUME TogetherInv, UNCHANGED <<plugged, wish, outputs, logical, older>>
    PROVE  OnRecord' /\ NewestTold' /\ \A p, s : Due(p, s)' = Due(p, s)
BY DEF TogetherInv, OnRecord, NewestTold, Belongs, Due

LEMMA CreateTogether ==
    ASSUME AdInv, TogetherInv, NEW p \in Programs, NEW i \in DOMAIN outputs[p], CreateXdgOutput(p, i)
    PROVE  TogetherInv'
<1>b. PICK n : n = Len(xdgs[p])
  OBVIOUS
<1> DEFINE fresh == [screen |-> outputs[p][i].screen, sent |-> Untold, applied |-> Untold,
                     record |-> IF logical[p] # Nothing THEN "waiting" ELSE "none",
                     positioned |-> FALSE, sized |-> FALSE]
<1>a. PICK new : new = fresh
  OBVIOUS
<1>1. xdgs \in [Programs -> Seq(Object)] /\ xdgs[p] \in Seq(Object) /\ n \in Nat
      /\ DOMAIN xdgs[p] = 1..n /\ outputs[p][i].screen \in plugged /\ outputs[p][i].screen \in Screens
  BY <1>b DEF AdInv, AdTypes, CreateXdgOutput
<1>2. /\ xdgs' = [xdgs EXCEPT ![p] = Append(@, new)]
      /\ UNCHANGED <<plugged, wish, outputs, logical, older>>
      /\ sending = <<>>
      /\ idle' = (idle \/ logical[p] # Nothing)
      /\ sending' = [k \in DOMAIN EventsOf(p) |-> <<p, Len(xdgs'[p]), EventsOf(p)[k]>>]
  BY <1>a DEF CreateXdgOutput, screenVars
<1>3. /\ new.screen = outputs[p][i].screen
      /\ new.record = IF logical[p] # Nothing THEN "waiting" ELSE "none"
      /\ ~new.positioned /\ ~new.sized
  BY <1>a
<1> HIDE DEF fresh
<1>4. /\ \A q \in Programs : q # p => xdgs'[q] = xdgs[q]
      /\ xdgs'[p] = Append(xdgs[p], new)
  BY <1>1, <1>2
<1>5. /\ DOMAIN Append(xdgs[p], new) = 1..(n + 1) /\ Len(Append(xdgs[p], new)) = n + 1
      /\ Append(xdgs[p], new)[n + 1] = new
      /\ \A k \in 1..n : Append(xdgs[p], new)[k] = xdgs[p][k]
  BY <1>1, <1>b
<1>6. /\ EventsOf(p) \in Seq(Events) /\ Len(EventsOf(p)) \in {3, 4}
  BY EventPlaces
<1>7. /\ Len(sending') = Len(EventsOf(p)) /\ sending' # <<>>
      /\ \A k \in 1..Len(sending') : sending'[k] = <<p, n + 1, EventsOf(p)[k]>>
  <2>1. sending' = [k \in 1..Len(EventsOf(p)) |-> <<p, n + 1, EventsOf(p)[k]>>]
    BY <1>2, <1>4, <1>5, <1>6
  <2>a. \A m \in {3, 4} : m \in Nat /\ m # 0
    OBVIOUS
  <2>2. Len(EventsOf(p)) \in Nat /\ Len(EventsOf(p)) # 0
    BY <1>6, <2>a
  <2>3. \A m \in Nat : \A f : f = [k \in 1..m |-> <<p, n + 1, EventsOf(p)[k]>>] =>
            Len(f) = m /\ (m # 0 => f # <<>>)
    OBVIOUS
  <2>4. Len(sending') = Len(EventsOf(p)) /\ sending' # <<>>
    BY <2>1, <2>2, <2>3
  <2> QED BY <2>1, <2>4
<1>8. NoneWaits
  BY <1>2 DEF TogetherInv, OneAtATime
<1>9. OneObject(p, n + 1, 1)'
  <2>1. logical[p] = Nothing => logical[p][new.screen] = Untold
    BY <1>1, <1>3 DEF Nothing
  <2>a. logical[p] # Nothing => idle'
    BY <1>2
  <2>b. UNCHANGED <<plugged, logical>> /\ new.record # "told"
    BY <1>2, <1>3
  <2>2. Heard(new, p, 1)'
    BY <1>1, <1>3, <2>1, <2>a, <2>b DEF Heard
  <2>c. xdgs'[p][n + 1] = new
    BY <1>4, <1>5
  <2>3. Heard(xdgs[p][n + 1], p, 1)'
    BY <2>2, <2>c DEF Heard
  <2>4. \A k \in 1..Len(sending') : sending'[k] = <<p, n + 1, EventsOf(p)[1 + k - 1]>>
    <3>1. \A k \in Nat : 1 + k - 1 = k
      OBVIOUS
    <3> QED BY <1>7, <3>1
  <2>5. Len(sending') = Len(EventsOf(p)) + 1 - 1
    BY <1>6, <1>7
  <2>6. \A q \in Programs : \A l \in DOMAIN xdgs'[q] :
           xdgs'[q][l].record = "waiting" => q = p /\ l = n + 1
    <3> SUFFICES ASSUME NEW q \in Programs, NEW l \in DOMAIN xdgs'[q], xdgs'[q][l].record = "waiting"
                 PROVE  q = p /\ l = n + 1
      OBVIOUS
    <3>1. ~(l \in DOMAIN xdgs[q] /\ xdgs'[q][l] = xdgs[q][l])
      BY <1>8 DEF NoneWaits
    <3>2. q = p
      BY <1>4, <3>1
    <3>3. l \in 1..(n + 1) /\ l \notin 1..n
      BY <1>1, <1>4, <1>5, <3>1, <3>2
    <3> QED BY <1>1, <3>2, <3>3
  <2> QED BY <2>3, <2>4, <2>5, <2>6 DEF OneObject, EventsOf
<1>10. OneAtATime'
  <2>1. n + 1 \in DOMAIN xdgs'[p] /\ 1 \in 1..Len(EventsOf(p))
    <3>1. n + 1 \in 1..(n + 1) /\ \A m \in {3, 4} : 1 \in 1..m
      BY <1>1
    <3> QED BY <1>4, <1>5, <1>6, <3>1
  <2> QED BY <1>7, <1>9, <2>1 DEF OneAtATime, EventsOf
<1> QED BY <1>2, <1>10, RecordStays DEF TogetherInv

\* One event is sent: the object hears it, and the last one applies what is due.
SentOn(p, i, place, x) ==
    /\ OneObject(p, i, place)
    /\ Heard(x, p, place + 1)' \/ (place = Len(EventsOf(p)) /\ x.record # "waiting")
    /\ place = Len(EventsOf(p)) => x.applied = Due(p, x.screen)
    /\ place # Len(EventsOf(p)) => x.applied = xdgs[p][i].applied
    /\ x.screen = xdgs[p][i].screen /\ x.screen \in plugged
    /\ xdgs' = [xdgs EXCEPT ![p][i] = x]

LEMMA EventHeard ==
    ASSUME AdInv, TogetherInv, SendEvent
    PROVE  \E p \in Programs : \E i \in DOMAIN xdgs[p] :
              \E place \in 1..Len(EventsOf(p)) : \E x \in Object : SentOn(p, i, place, x)
<1>1. sending \in Seq(Programs \X Nat \X Events) /\ sending # <<>>
  BY DEF SendEvent, AdInv, AdTypes
<1>2. PICK p \in Programs : \E i \in DOMAIN xdgs[p] : \E place \in 1..Len(EventsOf(p)) : OneObject(p, i, place)
  BY <1>1 DEF TogetherInv, OneAtATime
<1>3. PICK i \in DOMAIN xdgs[p] : \E place \in 1..Len(EventsOf(p)) : OneObject(p, i, place)
  BY <1>2
<1>4. PICK place \in 1..Len(EventsOf(p)) : OneObject(p, i, place)
  BY <1>3
<1>5. /\ Len(EventsOf(p)) \in {3, 4} /\ place \in 1..4
      /\ EventsOf(p)[1] = "position" /\ EventsOf(p)[2] = "size"
      /\ Len(EventsOf(p)) = 3 => EventsOf(p)[3] = "done"
      /\ Len(EventsOf(p)) = 4 => EventsOf(p)[3] = "name" /\ EventsOf(p)[4] = "done"
  <2>1. place \in 1..Len(EventsOf(p))
    OBVIOUS
  <2>2. Len(EventsOf(p)) \in {3, 4}
    BY EventPlaces
  <2>3. \A m \in {3, 4} : place \in 1..m => place \in 1..4
    OBVIOUS
  <2>4. place \in 1..4
    BY <2>1, <2>2, <2>3
  <2> QED BY <2>4, EventPlaces
<1>6. Head(sending) = <<p, i, EventsOf(p)[place]>>
  <2>1. Head(sending) = sending[1] /\ 1 \in 1..Len(sending) /\ place + 1 - 1 = place
    BY <1>1, <1>5
  <2> QED BY <1>4, <2>1 DEF OneObject
<1> DEFINE event == EventsOf(p)[place]
           x == xdgs[p][i]
           heard == IF idle THEN Logged(x, p, event) ELSE x
           result == CASE event = "size" -> [heard EXCEPT !.sent = Real]
                     [] event = "done" -> [heard EXCEPT !.applied = heard.sent]
                     [] OTHER -> heard
<1>b. PICK sent : sent = result
  OBVIOUS
<1>7. xdgs' = [xdgs EXCEPT ![p][i] = sent] /\ UNCHANGED <<plugged, outputs, logical, idle>>
  <2>1. Head(sending)[1] = p /\ Head(sending)[2] = i /\ Head(sending)[3] = event
    BY <1>6
  <2> QED BY <1>b, <2>1 DEF SendEvent, screenVars
<1>8. x \in Object /\ Heard(x, p, place) /\ plugged \subseteq Screens /\ logical \in [Programs -> [Screens -> 0..Real]]
  BY <1>4, SMTT(30) DEF AdInv, AdTypes, OneObject
<1> HIDE DEF x
<1>9. /\ heard \in Object /\ heard.screen = x.screen /\ heard.applied = x.applied
      /\ place = 1 => heard.sent = x.sent /\ heard.record = x.record
                      /\ (x.record = "waiting" => heard.positioned)
      /\ place = 2 => heard.record = x.record
                      /\ (x.record = "waiting" => heard.positioned /\ heard.sized)
      /\ place > 2 => heard.record # "waiting" /\ heard.sent = Due(p, x.screen)
                      /\ (heard.record = "none" => logical[p][x.screen] = Untold)
  <2>1. CASE x.record # "waiting"
    <3>1. heard = x
      BY <2>1 DEF Logged
    <3>2. x.record \in {"waiting", "told", "none"}
      BY <1>8 DEF Object
    <3> HIDE DEF heard
    <3> QED BY <1>5, <1>8, <2>1, <3>1, <3>2 DEF Heard, Due
  <2>2. CASE x.record = "waiting"
    <3>1. idle /\ place < 4 /\ (place > 1 => x.positioned) /\ (place > 2 => x.sized) /\ x.screen \in plugged
          /\ (place > 2 => x.sent = Real)
      BY <1>8, <2>2 DEF Heard
    <3>2. CASE place = 1
      <4>1. heard = [x EXCEPT !.positioned = TRUE]
        BY <1>5, <2>2, <3>1, <3>2 DEF Logged
      <4>2. /\ [x EXCEPT !.positioned = TRUE] \in Object
            /\ [x EXCEPT !.positioned = TRUE].screen = x.screen
            /\ [x EXCEPT !.positioned = TRUE].applied = x.applied
            /\ [x EXCEPT !.positioned = TRUE].sent = x.sent
            /\ [x EXCEPT !.positioned = TRUE].record = x.record
            /\ [x EXCEPT !.positioned = TRUE].positioned
        BY <1>8 DEF Object
      <4> HIDE DEF heard
      <4> QED BY <3>2, <4>1, <4>2
    <3>3. CASE place = 2
      <4>1. heard = [x EXCEPT !.sized = TRUE]
        BY <1>5, <2>2, <3>1, <3>3 DEF Logged
      <4>2. /\ [x EXCEPT !.sized = TRUE] \in Object
            /\ [x EXCEPT !.sized = TRUE].screen = x.screen
            /\ [x EXCEPT !.sized = TRUE].applied = x.applied
            /\ [x EXCEPT !.sized = TRUE].record = x.record
            /\ [x EXCEPT !.sized = TRUE].positioned = x.positioned
            /\ [x EXCEPT !.sized = TRUE].sized
        BY <1>8 DEF Object
      <4> HIDE DEF heard
      <4> QED BY <3>1, <3>3, <4>1, <4>2
    <3>4. CASE place = 3
      <4>0. event \notin {"position", "size"}
        <5>1. event = EventsOf(p)[3]
          BY <3>4
        <5> QED BY <1>5, <5>1
      <4>1. heard = Answered(x, p, FALSE)
        <5>1. idle /\ x.sized
          BY <3>1, <3>4
        <5>2. heard = Logged(x, p, event)
          BY <5>1
        <5> HIDE DEF event, heard
        <5> QED BY <2>2, <4>0, <5>1, <5>2 DEF Logged
      <4> HIDE DEF heard
      <4>2. heard \in Object
        BY <1>8, <2>2, <4>1, AnswerTells
      <4>3. CASE logical[p][x.screen] # Untold
        <5>1. heard = [x EXCEPT !.record = "told", !.sent = logical[p][x.screen], !.applied = x.applied]
          BY <1>8, <3>1, <3>4, <4>1, <4>3 DEF Answered, Object
        <5> QED BY <1>8, <3>4, <4>2, <4>3, <5>1 DEF Object, Due
      <4>4. CASE logical[p][x.screen] = Untold
        <5>1. heard = [x EXCEPT !.record = "none"]
          BY <4>1, <4>4 DEF Answered
        <5> QED BY <1>8, <3>1, <3>4, <4>2, <4>4, <5>1 DEF Object, Due
      <4> QED BY <4>3, <4>4
    <3> QED BY <1>5, <3>1, <3>2, <3>3, <3>4
  <2> QED BY <2>1, <2>2
<1> HIDE DEF heard
<1>10. x.record = "told" => place = 4
  BY <1>5, <1>8 DEF Heard
<1>11. x.record = "none" => logical[p][x.screen] = Untold
  BY <1>8 DEF Heard
<1>12. x.screen \in plugged /\ (x.record = "waiting" => idle)
  BY <1>8 DEF Heard
<1>13. heard.record \in {"waiting", "told", "none"} /\ x.record \in {"waiting", "told", "none"}
  BY <1>8, <1>9 DEF Object
<1>14. CASE place = 1
  <2>1. sent = heard
    <3>1. event = "position"
      BY <1>5, <1>14
    <3> QED BY <1>b, <3>1
  <2>2. Heard(sent, p, place + 1)'
    BY <1>7, <1>9, <1>10, <1>11, <1>12, <1>14, <2>1 DEF Heard
  <2> QED BY <1>4, <1>5, <1>6, <1>7, <1>9, <1>12, <1>14, <2>1, <2>2 DEF x, SentOn, SentOn
<1>15. CASE place = 2
  <2>1. sent = [heard EXCEPT !.sent = Real]
    <3>1. event = "size"
      BY <1>5, <1>15
    <3> QED BY <1>b, <3>1
  <2>2. /\ sent \in Object /\ sent.screen = heard.screen /\ sent.applied = heard.applied /\ sent.sent = Real
        /\ sent.record = heard.record /\ sent.positioned = heard.positioned /\ sent.sized = heard.sized
    <3>1. Real \in 0..Real /\ heard \in Object
      BY <1>9 DEF Real
    <3> HIDE DEF event
    <3> QED BY <2>1, <3>1 DEF Object
  <2>3. Heard(sent, p, place + 1)'
    BY <1>7, <1>9, <1>10, <1>11, <1>12, <1>15, <2>2 DEF Heard
  <2> QED BY <1>4, <1>5, <1>6, <1>7, <1>9, <1>12, <1>15, <2>2, <2>3 DEF x, SentOn
<1>16. CASE place > 2 /\ place # Len(EventsOf(p))
  <2>1. sent = heard /\ place = 3
    <3>a. \A m \in {3, 4} : place \in 1..m /\ place > 2 /\ place # m => place = 3 /\ m = 4
      OBVIOUS
    <3>1. place = 3 /\ Len(EventsOf(p)) = 4
      BY <1>5, <1>16, <3>a
    <3>2. event = "name"
      BY <1>5, <3>1
    <3> QED BY <1>b, <3>1, <3>2
  <2>2. Heard(sent, p, place + 1)'
    BY <1>7, <1>9, <1>12, <1>13, <2>1 DEF Heard, Due
  <2> QED BY <1>4, <1>6, <1>7, <1>9, <1>12, <1>16, <2>1, <2>2 DEF x, SentOn, SentOn
<1>17. CASE place > 2 /\ place = Len(EventsOf(p))
  <2>1. sent = [heard EXCEPT !.applied = heard.sent]
    <3>1. event = "done"
      BY <1>5, <1>17
    <3> QED BY <1>b, <3>1
  <2>2. /\ sent \in Object /\ sent.screen = heard.screen /\ sent.applied = heard.sent
        /\ sent.record = heard.record
    BY <1>9, <2>1 DEF Object
  <2> QED BY <1>4, <1>6, <1>7, <1>9, <1>12, <1>17, <2>2 DEF x, SentOn
<1> QED BY <1>5, <1>14, <1>15, <1>16, <1>17

LEMMA SendTogether ==
    ASSUME AdInv, TogetherInv, SendEvent
    PROVE  /\ TogetherInv'
           /\ \A p \in Programs : \A i \in DOMAIN xdgs[p] :
                 xdgs'[p][i].applied # xdgs[p][i].applied =>
                     xdgs'[p][i].applied = Due(p, xdgs[p][i].screen)' /\ xdgs'[p][i].screen \in plugged
<1>1. /\ sending # <<>> /\ sending' = Tail(sending)
      /\ UNCHANGED <<plugged, wish, outputs, logical, older, idle>>
      /\ sending \in Seq(Programs \X Nat \X Events)
      /\ xdgs \in [Programs -> Seq(Object)]
  BY DEF SendEvent, screenVars, AdInv, AdTypes
<1>2. PICK p \in Programs : \E i \in DOMAIN xdgs[p] :
             \E place \in 1..Len(EventsOf(p)) : \E x \in Object : SentOn(p, i, place, x)
  BY EventHeard
<1>a. PICK i \in DOMAIN xdgs[p] : \E place \in 1..Len(EventsOf(p)) : \E x \in Object : SentOn(p, i, place, x)
  BY <1>2
<1>b. PICK place \in 1..Len(EventsOf(p)), x \in Object : SentOn(p, i, place, x)
  BY <1>a
<1>3. /\ OneObject(p, i, place)
      /\ Heard(x, p, place + 1)' \/ (place = Len(EventsOf(p)) /\ x.record # "waiting")
      /\ place = Len(EventsOf(p)) => x.applied = Due(p, x.screen)
      /\ place # Len(EventsOf(p)) => x.applied = xdgs[p][i].applied
      /\ x.screen = xdgs[p][i].screen /\ x.screen \in plugged
      /\ xdgs' = [xdgs EXCEPT ![p][i] = x]
  BY <1>b DEF SentOn
<1>4. /\ \A q \in Programs : DOMAIN xdgs'[q] = DOMAIN xdgs[q]
      /\ \A q \in Programs : \A k \in DOMAIN xdgs[q] :
            xdgs'[q][k] = IF q = p /\ k = i THEN x ELSE xdgs[q][k]
  <2>1. /\ DOMAIN [xdgs[p] EXCEPT ![i] = x] = DOMAIN xdgs[p]
        /\ \A k \in DOMAIN xdgs[p] : [xdgs[p] EXCEPT ![i] = x][k] = IF k = i THEN x ELSE xdgs[p][k]
    BY <1>1
  <2>2. xdgs' = [xdgs EXCEPT ![p] = [xdgs[p] EXCEPT ![i] = x]]
    BY <1>1, <1>3
  <2> QED BY <1>1, <2>1, <2>2
<1>5. OnRecord' /\ NewestTold' /\ \A q, s : Due(q, s)' = Due(q, s)
  BY <1>1, RecordStays
<1>6. PICK m \in Nat : m = Len(EventsOf(p)) /\ place \in 1..m /\ m \in {3, 4}
  <2>1. \A m \in {3, 4} : m \in Nat
    OBVIOUS
  <2> QED BY <2>1, EventPlaces
<1>7. /\ Len(sending) = m + 1 - place /\ Len(sending') = m - place
      /\ \A k \in 1..Len(sending') : sending'[k] = sending[k + 1] /\ k + 1 \in 1..Len(sending)
  <2>1. Len(sending) = m + 1 - place
    BY <1>3, <1>6 DEF OneObject
  <2>2. /\ Len(sending) \in Nat /\ Len(sending') = Len(sending) - 1
        /\ \A k \in 1..Len(sending') : sending'[k] = sending[k + 1] /\ k + 1 \in 1..Len(sending)
    BY <1>1
  <2>3. place \in Int /\ m \in Int
    BY <1>6
  <2> QED BY <2>1, <2>2, <2>3
<1>8. \A q \in Programs : \A l \in DOMAIN xdgs[q] : xdgs[q][l].record = "waiting" => q = p /\ l = i
  BY <1>3 DEF OneObject
<1>9. \A q \in Programs : \A l \in DOMAIN xdgs'[q] : xdgs'[q][l].record = "waiting" => q = p /\ l = i
  BY <1>4, <1>8
<1>10. CASE place = m
  <2>1. sending' = <<>>
    <3>1. Len(sending') = 0
      BY <1>6, <1>7, <1>10
    <3>2. sending' \in Seq(Programs \X Nat \X Events)
      BY <1>1
    <3> QED BY <3>1, <3>2
  <2>2. x.record # "waiting"
    <3>1. CASE Heard(x, p, place + 1)'
      <4>1. x.record = "waiting" => place + 1 < 4
        BY <3>1 DEF Heard
      <4>2. \A n \in {3, 4} : ~(n + 1 < 4)
        OBVIOUS
      <4> QED BY <1>6, <1>10, <4>1, <4>2
    <3> QED BY <1>3, <3>1
  <2>3. NoneWaits'
    BY <1>4, <1>9, <2>2 DEF NoneWaits
  <2> QED BY <1>3, <1>4, <1>5, <2>1, <2>3 DEF TogetherInv, OneAtATime
<1>11. CASE place # m
  <2>1. Heard(x, p, place + 1)'
    BY <1>3, <1>6, <1>11
  <2>2. place + 1 \in 1..Len(EventsOf(p)) /\ sending' # <<>>
    BY <1>6, <1>7, <1>11
  <2>3. OneObject(p, i, place + 1)'
    <3>1. Len(sending') = Len(EventsOf(p)) + 1 - (place + 1)
      BY <1>6, <1>7
    <3>2. ASSUME NEW k \in 1..Len(sending')
          PROVE  sending'[k] = <<p, i, EventsOf(p)[(place + 1) + k - 1]>>
      <4>1. sending'[k] = <<p, i, EventsOf(p)[place + (k + 1) - 1]>>
        BY <1>3, <1>7 DEF OneObject
      <4>2. place + (k + 1) - 1 = (place + 1) + k - 1
        BY <1>6, <1>7
      <4> QED BY <4>1, <4>2
    <3>3. Heard(xdgs[p][i], p, place + 1)'
      BY <1>4, <2>1
    <3> QED BY <1>9, <3>1, <3>2, <3>3 DEF OneObject, EventsOf
  <2>4. OneAtATime'
    BY <1>4, <2>2, <2>3 DEF OneAtATime, EventsOf
  <2> QED BY <1>3, <1>4, <1>5, <1>6, <1>11, <2>4 DEF TogetherInv
<1> QED BY <1>10, <1>11

LEMMA IdleTogether ==
    ASSUME AdInv, TogetherInv, Idle
    PROVE  TogetherInv' /\ xdgs' = xdgs
<1>1. sending = <<>> /\ UNCHANGED <<plugged, wish, outputs, logical, older, sending>> /\ NoneWaits
  BY DEF Idle, screenVars, TogetherInv, OneAtATime
<1>2. xdgs \in [Programs -> Seq(Object)]
  BY DEF AdInv, AdTypes
<1>3. \A p \in Programs : xdgs'[p] = xdgs[p]
  <2> TAKE p \in Programs
  <2>1. xdgs'[p] = [i \in DOMAIN xdgs[p] |->
             IF xdgs[p][i].record = "waiting" THEN Answered(xdgs[p][i], p, TRUE) ELSE xdgs[p][i]]
    BY DEF Idle
  <2>2. xdgs'[p] = [i \in DOMAIN xdgs[p] |-> xdgs[p][i]]
    BY <1>1, <2>1 DEF NoneWaits
  <2>3. xdgs[p] = [i \in DOMAIN xdgs[p] |-> xdgs[p][i]]
    BY <1>2
  <2> QED BY <2>2, <2>3
<1>4. xdgs' = xdgs
  <2>1. xdgs' = [p \in Programs |-> xdgs'[p]]
    BY DEF Idle
  <2> QED BY <1>2, <1>3, <2>1
<1> QED BY <1>1, <1>4, RecordStays DEF TogetherInv, OneAtATime, NoneWaits

\* After restore() every screen says what KWin said of it.
LEMMA RestoreTogether ==
    ASSUME AdInv, TogetherInv, Restore, AdInv', UNCHANGED <<plugged, sending>>, sending = <<>>
    PROVE  /\ TogetherInv'
           /\ \A p \in Programs : \A i \in DOMAIN xdgs[p] :
                 xdgs'[p][i].applied # xdgs[p][i].applied =>
                     xdgs'[p][i].applied = Due(p, xdgs[p][i].screen)' /\ xdgs'[p][i].screen \in plugged
<1>1. /\ announced' = {}
      /\ \A p \in Programs, s \in Screens : logical'[p][s] = Untold
  BY DEF Restore, Nothing
<1>2. OnRecord'
  BY <1>1 DEF OnRecord
<1>3. NewestTold'
  <2> SUFFICES ASSUME NEW p \in Programs, NEW s \in plugged', NEW i \in DOMAIN outputs'[p],
                      outputs'[p][i].screen = s
               PROVE  Belongs(p, s)' = Due(p, s)'
    BY DEF NewestTold
  <2>1. outputs'[p] \in Seq(Output) /\ s \in Screens
    BY DEF AdInv, AdTypes
  <2>2. PICK k \in DOMAIN outputs'[p] : outputs'[p][k].screen = s /\ Newest(outputs'[p], s) = outputs'[p][k]
    BY <2>1, NewestThere
  <2>3. outputs'[p][k].mode = Real
    BY <1>1, <2>2 DEF AdInv, OutputsReal
  <2> QED BY <1>1, <2>1, <2>2, <2>3 DEF Belongs, Due
<1> DEFINE given(y) == [y EXCEPT !.record = "none", !.sent = Real, !.applied = Real]
           kept(y) == [y EXCEPT !.record = "none"]
<1>6. \A y \in Object : /\ given(y).record = "none" /\ given(y).applied = Real /\ given(y).screen = y.screen
                        /\ kept(y).record = "none" /\ kept(y).applied = y.applied /\ kept(y).screen = y.screen
  BY DEF Object
<1>5. xdgs' = [p \in Programs |-> [i \in DOMAIN xdgs[p] |->
           IF xdgs[p][i].record = "told" /\ xdgs[p][i].screen \in plugged
           THEN given(xdgs[p][i]) ELSE kept(xdgs[p][i])]]
  BY DEF Restore
<1> HIDE DEF given, kept
<1>4. \A p \in Programs : DOMAIN xdgs'[p] = DOMAIN xdgs[p] /\ \A i \in DOMAIN xdgs[p] :
         /\ xdgs[p][i] \in Object
         /\ xdgs'[p][i] = IF xdgs[p][i].record = "told" /\ xdgs[p][i].screen \in plugged
                          THEN given(xdgs[p][i]) ELSE kept(xdgs[p][i])
  BY <1>5 DEF AdInv, AdTypes
<1>7. NoneWaits'
  BY <1>4, <1>6 DEF NoneWaits
<1>8. OneAtATime'
  BY <1>7 DEF OneAtATime
<1>9. ASSUME NEW p \in Programs, NEW i \in DOMAIN xdgs[p], xdgs'[p][i].applied # xdgs[p][i].applied
      PROVE  xdgs'[p][i].applied = Due(p, xdgs[p][i].screen)' /\ xdgs'[p][i].screen \in plugged
  <2>1. xdgs'[p][i].applied = Real /\ xdgs'[p][i].screen = xdgs[p][i].screen /\ xdgs[p][i].screen \in plugged
    BY <1>4, <1>6, <1>9
  <2>2. xdgs[p][i].screen \in Screens
    BY <2>1 DEF AdInv, AdTypes
  <2> QED BY <1>1, <2>1, <2>2 DEF Due
<1> QED BY <1>2, <1>3, <1>8, <1>9 DEF TogetherInv

LEMMA SaveTogether ==
    ASSUME AdInv, AdInv', TogetherInv, NEW asked \in Wishes, Save(asked)
    PROVE  /\ TogetherInv'
           /\ \A p \in Programs : \A i \in DOMAIN xdgs[p] :
                 xdgs'[p][i].applied # xdgs[p][i].applied =>
                     xdgs'[p][i].applied = Due(p, xdgs[p][i].screen)' /\ xdgs'[p][i].screen \in plugged
<1>1. sending = <<>> /\ UNCHANGED <<plugged, sending>>
  BY DEF Save, screenVars
<1>2. CASE announced # {}
  <2>1. Restore
    BY <1>2 DEF Save
  <2> QED BY <1>1, <2>1, RestoreTogether
<1>3. CASE announced = {}
  <2>1. UNCHANGED <<outputs, xdgs, announced, logical, older, idle>>
    BY <1>3 DEF Save
  <2>2. \A p \in Programs, s \in Screens : logical[p][s] = Untold
    BY <1>3 DEF AdInv, ToldByWish
  <2>3. OnRecord'
    BY <2>1, <2>2 DEF OnRecord
  <2>4. NewestTold' /\ OneAtATime'
    BY <1>1, <2>1 DEF TogetherInv, NewestTold, Belongs, Due, OneAtATime, NoneWaits
  <2> QED BY <2>1, <2>3, <2>4 DEF TogetherInv
<1> QED BY <1>2, <1>3

LEMMA DisconnectTogether ==
    ASSUME AdInv, TogetherInv, NEW p \in Programs, Disconnect(p)
    PROVE  /\ TogetherInv' /\ xdgs'[p] = <<>>
           /\ \A q \in Programs : q # p => xdgs'[q] = xdgs[q]
<1>1. /\ sending = <<>> /\ UNCHANGED <<plugged, wish, sending>>
      /\ outputs' = [outputs EXCEPT ![p] = <<>>] /\ xdgs' = [xdgs EXCEPT ![p] = <<>>]
      /\ logical' = [logical EXCEPT ![p] = Nothing] /\ older' = {o \in older : o[1] # p}
  BY DEF Disconnect, screenVars
<1>2. /\ outputs'[p] = <<>> /\ xdgs'[p] = <<>> /\ logical'[p] = Nothing
      /\ \A q \in Programs : q # p => outputs'[q] = outputs[q] /\ xdgs'[q] = xdgs[q] /\ logical'[q] = logical[q]
  BY <1>1 DEF AdInv, AdTypes
<1>3. OnRecord'
  BY <1>1, <1>2 DEF TogetherInv, OnRecord, Nothing
<1>4. NewestTold'
  <2>1. \A q \in Programs : q # p => \A s : (<<q, s>> \in older' <=> <<q, s>> \in older)
    BY <1>1
  <2> QED BY <1>1, <1>2, <2>1 DEF TogetherInv, NewestTold, Belongs, Due
<1>5. OneAtATime'
  BY <1>1, <1>2 DEF TogetherInv, OneAtATime, NoneWaits
<1> QED BY <1>2, <1>3, <1>4, <1>5 DEF TogetherInv

LEMMA PlugTogether ==
    ASSUME AdInv, TogetherInv, NEW s \in Screens, NEW now \in Monitors, Plug(s, now)
    PROVE  TogetherInv' /\ xdgs' = xdgs
<1>1. /\ s \notin plugged /\ plugged' = plugged \cup {s} /\ sending = <<>>
      /\ UNCHANGED <<wish, outputs, xdgs, sending, logical>>
  BY DEF Plug
<1>2. OnRecord' /\ OneAtATime'
  BY <1>1 DEF TogetherInv, OnRecord, OneAtATime, NoneWaits
<1>3. \A p \in Programs : \A i \in DOMAIN outputs[p] : outputs[p][i].screen # s
  BY <1>1, AdvertisementAssumption DEF AdInv, OfPlugged
<1>4. NewestTold'
  <2> SUFFICES ASSUME NEW p \in Programs, NEW t \in plugged', NEW i \in DOMAIN outputs[p],
                      outputs[p][i].screen = t, <<p, t>> \notin older'
               PROVE  Belongs(p, t)' = Due(p, t)'
    BY <1>1 DEF NewestTold
  <2>1. t \in plugged
    BY <1>1, <1>3
  <2>a. <<p, t>> \notin older
    BY OlderGrows DEF Plug
  <2>2. Belongs(p, t) = Due(p, t)
    BY <2>1, <2>a DEF TogetherInv, NewestTold
  <2> QED BY <1>1, <2>2 DEF Belongs, Due
<1> QED BY <1>1, <1>2, <1>4 DEF TogetherInv

LEMMA UnplugTogether ==
    ASSUME AdInv, AdInv', TogetherInv, NEW s \in Screens, Unplug(s)
    PROVE  /\ TogetherInv'
           /\ \A p \in Programs : \A i \in DOMAIN xdgs[p] : xdgs'[p][i].applied = xdgs[p][i].applied
<1> DEFINE inert(e) == IF e.screen = s THEN [e EXCEPT !.screen = Gone] ELSE e
<1>1. /\ s \in plugged /\ plugged' = plugged \ {s} /\ sending = <<>>
      /\ outputs' = [p \in Programs |-> [i \in DOMAIN outputs[p] |-> inert(outputs[p][i])]]
      /\ xdgs' = [p \in Programs |-> [i \in DOMAIN xdgs[p] |-> inert(xdgs[p][i])]]
      /\ UNCHANGED <<wish, sending, logical, older>>
  BY DEF Unplug
<1>2. \A e \in Object : inert(e).record = e.record /\ inert(e).applied = e.applied
  BY DEF Object
<1>3. \A e \in Output : inert(e).screen # e.screen => e.screen = s /\ inert(e).screen = Gone
  BY DEF Output
<1>4. \A e \in Output : e.screen # s => inert(e) = e
  OBVIOUS
<1>a. \A e \in Output : e.screen = s => inert(e).screen = Gone
  BY DEF Output
<1>5. \A p \in Programs :
         /\ DOMAIN outputs'[p] = DOMAIN outputs[p] /\ DOMAIN xdgs'[p] = DOMAIN xdgs[p]
         /\ \A i \in DOMAIN outputs[p] : outputs[p][i] \in Output /\ outputs'[p][i] = inert(outputs[p][i])
         /\ \A i \in DOMAIN xdgs[p] : xdgs[p][i] \in Object /\ xdgs'[p][i] = inert(xdgs[p][i])
  BY <1>1 DEF AdInv, AdTypes
<1> HIDE DEF inert
<1>6. NoneWaits' /\ \A p \in Programs : \A i \in DOMAIN xdgs[p] : xdgs'[p][i].applied = xdgs[p][i].applied
  <2>1. NoneWaits
    BY <1>1 DEF TogetherInv, OneAtATime
  <2> QED BY <1>2, <1>5, <2>1 DEF NoneWaits
<1>7. OnRecord' /\ OneAtATime'
  BY <1>1, <1>6 DEF TogetherInv, OnRecord, OneAtATime
<1>8. NewestTold'
  <2> SUFFICES ASSUME NEW p \in Programs, NEW t \in plugged', NEW i \in DOMAIN outputs'[p],
                      outputs'[p][i].screen = t, <<p, t>> \notin older
               PROVE  Belongs(p, t)' = Due(p, t)'
    BY <1>1 DEF NewestTold
  <2>1. t \in plugged /\ t # s /\ t # Gone
    BY <1>1, AdvertisementAssumption DEF AdInv, AdTypes
  <2>2. i \in DOMAIN outputs[p] /\ outputs[p][i].screen = t
    BY <1>3, <1>5, <2>1
  <2>3. \A k \in DOMAIN outputs[p] :
           outputs[p][k].screen = t \/ outputs'[p][k].screen = t => outputs'[p][k] = outputs[p][k]
    BY <1>4, <1>5, <1>a, <2>1
  <2>4. outputs[p] \in Seq(Output) /\ outputs'[p] \in Seq(Output)
    BY DEF AdInv, AdTypes
  <2>5. Newest(outputs'[p], t) = Newest(outputs[p], t)
    BY <1>5, <2>2, <2>3, <2>4, NewestSame
  <2>6. Belongs(p, t) = Due(p, t)
    BY <2>1, <2>2 DEF TogetherInv, NewestTold
  <2> QED BY <1>1, <2>5, <2>6 DEF Belongs, Due
<1> QED BY <1>6, <1>7, <1>8 DEF TogetherInv

LEMMA DestroyTogether ==
    ASSUME TogetherInv, NEW s \in Screens, Destroy(s)
    PROVE  TogetherInv' /\ xdgs' = xdgs
<1>1. UNCHANGED <<plugged, wish, outputs, xdgs, sending, logical, older, idle>> /\ sending = <<>>
  BY DEF Destroy
<1> QED BY <1>1, RecordStays DEF TogetherInv, OneAtATime, NoneWaits

LEMMA DestroyObjectTogether ==
    ASSUME AdInv, TogetherInv, NEW p \in Programs, NEW i \in DOMAIN xdgs[p], DestroyXdgOutput(p, i)
    PROVE  /\ TogetherInv'
           /\ \A q \in Programs : \A k \in DOMAIN xdgs[q] : xdgs'[q][k].applied = xdgs[q][k].applied
<1> DEFINE destroyed == [xdgs[p][i] EXCEPT !.screen = Gone, !.record = "none"]
<1>1. /\ UNCHANGED <<plugged, wish, outputs, sending, logical, older>> /\ sending = <<>>
      /\ xdgs' = [xdgs EXCEPT ![p] = [xdgs[p] EXCEPT ![i] = destroyed]]
  BY DEF DestroyXdgOutput, screenVars
<1>2. xdgs \in [Programs -> Seq(Object)] /\ xdgs[p] \in Seq(Object) /\ xdgs[p][i] \in Object
  BY DEF AdInv, AdTypes
<1>3. destroyed.record = "none" /\ destroyed.applied = xdgs[p][i].applied
  BY <1>2 DEF Object
<1> HIDE DEF destroyed
<1>4. \A q \in Programs : /\ DOMAIN xdgs'[q] = DOMAIN xdgs[q]
                         /\ \A k \in DOMAIN xdgs[q] :
                               xdgs'[q][k] = IF q = p /\ k = i THEN destroyed ELSE xdgs[q][k]
  <2>1. /\ DOMAIN [xdgs[p] EXCEPT ![i] = destroyed] = DOMAIN xdgs[p]
        /\ \A k \in DOMAIN xdgs[p] :
              [xdgs[p] EXCEPT ![i] = destroyed][k] = IF k = i THEN destroyed ELSE xdgs[p][k]
    BY <1>2
  <2> QED BY <1>1, <1>2, <2>1
<1>5. NoneWaits'
  BY <1>1, <1>3, <1>4 DEF TogetherInv, OneAtATime, NoneWaits
<1> QED BY <1>1, <1>3, <1>4, <1>5, RecordStays DEF TogetherInv, OneAtATime

LEMMA SetUpTogether ==
    ASSUME AdInv, AdInv', TogetherInv, NEW s \in Screens, NEW now \in Monitors,
           NEW changed \in SUBSET {"mode", "scale"}, SetUp(s, now, changed)
    PROVE  /\ TogetherInv'
           /\ \A p \in Programs : \A i \in DOMAIN xdgs[p] :
                 xdgs'[p][i].applied # xdgs[p][i].applied =>
                     /\ xdgs'[p][i].screen \in plugged'
                     /\ \/ xdgs'[p][i].applied = Due(p, xdgs[p][i].screen)'
                        \/ <<p, xdgs[p][i].screen>> \in older'
<1> DEFINE described(e) == [screen |-> e.screen, mode |-> IF "mode" \in changed THEN Real ELSE e.mode,
                            scaled |-> e.scaled /\ "scale" \notin changed]
           o(e) == IF e.screen = s THEN described(e) ELSE e
           x(e) == IF e.screen = s THEN [e EXCEPT !.sent = Real, !.applied = Real] ELSE e
<1>1. /\ outputs' = [p \in Programs |-> [i \in DOMAIN outputs[p] |-> o(outputs[p][i])]]
      /\ xdgs' = [p \in Programs |-> [i \in DOMAIN xdgs[p] |-> x(xdgs[p][i])]]
  <2>1. outputs' = [p \in Programs |-> [i \in DOMAIN outputs[p] |-> o(outputs[p][i])]]
    BY Zenon DEF SetUp
  <2>2. xdgs' = [p \in Programs |-> [i \in DOMAIN xdgs[p] |-> x(xdgs[p][i])]]
    BY Zenon DEF SetUp
  <2> QED BY <2>1, <2>2
<1>2. /\ sending = <<>> /\ older' = ToldBefore(s) /\ s \in plugged
      /\ UNCHANGED <<plugged, wish, sending, announced, logical>>
  BY DEF SetUp
<1>3. \A e \in Output : o(e).screen = e.screen /\ (e.screen # s => o(e) = e)
  BY DEF Output
<1>4. \A e \in Object : /\ x(e).screen = e.screen /\ x(e).record = e.record
                        /\ x(e).applied = IF e.screen = s THEN Real ELSE e.applied
  BY DEF Object
<1> HIDE DEF o, x
<1>5. \A p \in Programs :
         /\ DOMAIN outputs'[p] = DOMAIN outputs[p] /\ DOMAIN xdgs'[p] = DOMAIN xdgs[p]
         /\ \A i \in DOMAIN outputs[p] : outputs[p][i] \in Output /\ outputs'[p][i] = o(outputs[p][i])
         /\ \A i \in DOMAIN xdgs[p] : xdgs[p][i] \in Object /\ xdgs'[p][i] = x(xdgs[p][i])
  BY <1>1 DEF AdInv, AdTypes
<1>6. \A p \in Programs : <<p, s>> \notin older' => <<s, p>> \notin announced' /\ logical'[p][s] = Untold
  BY <1>2, OlderGrows
<1>7. OnRecord'
  BY <1>2 DEF TogetherInv, OnRecord
<1>8. NewestTold'
  <2> SUFFICES ASSUME NEW p \in Programs, NEW t \in plugged, NEW i \in DOMAIN outputs'[p],
                      outputs'[p][i].screen = t, <<p, t>> \notin older'
               PROVE  Belongs(p, t)' = Due(p, t)'
    BY <1>2 DEF NewestTold
  <2>1. outputs[p] \in Seq(Output) /\ outputs'[p] \in Seq(Output) /\ t \in Screens
    BY DEF AdInv, AdTypes
  <2>2. CASE t = s
    <3>1. PICK k \in DOMAIN outputs'[p] : outputs'[p][k].screen = s /\ Newest(outputs'[p], s) = outputs'[p][k]
      BY <2>1, <2>2, NewestThere
    <3>2. outputs'[p][k].mode = Real
      BY <1>2, <1>6, <2>2, <3>1 DEF AdInv, OutputsReal
    <3> QED BY <1>6, <2>2, <3>1, <3>2 DEF Belongs, Due
  <2>3. CASE t # s
    <3>1. i \in DOMAIN outputs[p] /\ outputs[p][i].screen = t
      BY <1>3, <1>5
    <3>2. \A k \in DOMAIN outputs[p] :
             outputs[p][k].screen = t \/ outputs'[p][k].screen = t => outputs'[p][k] = outputs[p][k]
      BY <1>3, <1>5, <2>3
    <3>3. Newest(outputs'[p], t) = Newest(outputs[p], t)
      BY <1>5, <2>1, <3>1, <3>2, NewestSame
    <3>4. <<p, t>> \notin older
      BY <1>2, OlderGrows
    <3>5. Belongs(p, t) = Due(p, t)
      BY <3>1, <3>4 DEF TogetherInv, NewestTold
    <3> QED BY <1>2, <3>3, <3>5 DEF Belongs, Due
  <2> QED BY <2>2, <2>3
<1>9. NoneWaits'
  BY <1>2, <1>4, <1>5 DEF TogetherInv, OneAtATime, NoneWaits
<1>10. ASSUME NEW p \in Programs, NEW i \in DOMAIN xdgs[p], xdgs'[p][i].applied # xdgs[p][i].applied
       PROVE  /\ xdgs'[p][i].screen \in plugged'
              /\ \/ xdgs'[p][i].applied = Due(p, xdgs[p][i].screen)'
                 \/ <<p, xdgs[p][i].screen>> \in older'
  <2>1. xdgs[p][i].screen = s /\ xdgs'[p][i].screen = s /\ xdgs'[p][i].applied = Real
    BY <1>4, <1>5, <1>10
  <2> QED BY <1>2, <1>6, <2>1 DEF Due
<1> QED BY <1>2, <1>7, <1>8, <1>9, <1>10 DEF TogetherInv, OneAtATime

\* What a step applies is due then, and what is due belongs with what was told.
Applies ==
    \A p \in Programs : \A i \in DOMAIN xdgs[p] \cap DOMAIN xdgs'[p] :
        xdgs'[p][i].applied # xdgs[p][i].applied =>
            /\ xdgs'[p][i].screen \in plugged'
            /\ \/ xdgs'[p][i].applied = Due(p, xdgs[p][i].screen)'
               \/ <<p, xdgs[p][i].screen>> \in older'

LEMMA AppliesTogether ==
    ASSUME AdInv', TogetherInv', Applies,
           NEW p \in Programs, NEW i \in DOMAIN xdgs[p] \cap DOMAIN xdgs'[p],
           xdgs'[p][i].applied # xdgs[p][i].applied, xdgs'[p][i].screen = xdgs[p][i].screen
    PROVE  \/ xdgs'[p][i].applied = Belongs(p, xdgs[p][i].screen)'
           \/ <<p, xdgs[p][i].screen>> \in older'
<1> SUFFICES ASSUME <<p, xdgs[p][i].screen>> \notin older'
             PROVE  xdgs'[p][i].applied = Belongs(p, xdgs[p][i].screen)'
  OBVIOUS
<1>1. xdgs'[p][i].applied = Due(p, xdgs[p][i].screen)' /\ xdgs'[p][i].screen \in plugged'
  BY DEF Applies
<1>2. xdgs'[p][i].screen # Gone
  BY <1>1, AdvertisementAssumption DEF AdInv, AdTypes
<1>3. \E j \in DOMAIN outputs'[p] : outputs'[p][j].screen = xdgs'[p][i].screen
  BY <1>2 DEF AdInv, OfPlugged
<1>4. Belongs(p, xdgs[p][i].screen)' = Due(p, xdgs[p][i].screen)'
  BY <1>1, <1>3 DEF TogetherInv, NewestTold
<1> QED BY <1>1, <1>4

LEMMA TogetherStep ==
    ASSUME AdInv, AdInv', TogetherInv, [AdNext]_adVars
    PROVE  TogetherInv' /\ Applies
<1>a. xdgs \in [Programs -> Seq(Object)]
  BY DEF AdInv, AdTypes
<1>1. CASE \E p \in Programs, s \in Screens : Bind(p, s)
  <2>1. PICK p \in Programs, s \in Screens : Bind(p, s)
    BY <1>1
  <2>2. xdgs' = xdgs
    BY <2>1 DEF Bind
  <2> QED BY <2>1, <2>2, BindTogether DEF Applies
<1>2. CASE \E p \in Programs : \E i \in 1..MaxObjects[p] : CreateXdgOutput(p, i)
  <2>0. PICK p \in Programs : \E i \in 1..MaxObjects[p] : CreateXdgOutput(p, i)
    BY <1>2
  <2>1. PICK i \in 1..MaxObjects[p] : CreateXdgOutput(p, i)
    BY <2>0
  <2>2. i \in DOMAIN outputs[p]
    BY <2>1 DEF CreateXdgOutput
  <2>3. \E e : xdgs' = [xdgs EXCEPT ![p] = Append(@, e)]
    BY <2>1 DEF CreateXdgOutput
  <2>4. \A q \in Programs : \A k \in DOMAIN xdgs[q] : xdgs'[q][k] = xdgs[q][k]
    <3>1. PICK e : xdgs' = [xdgs EXCEPT ![p] = Append(@, e)]
      BY <2>3
    <3>2. xdgs[p] \in Seq(Object)
      BY <1>a
    <3>3. \A k \in DOMAIN xdgs[p] : Append(xdgs[p], e)[k] = xdgs[p][k]
      BY <3>2
    <3> QED BY <1>a, <3>1, <3>3
  <2> QED BY <2>1, <2>2, <2>4, CreateTogether DEF Applies
<1>3. CASE SendEvent
  <2>1. plugged' = plugged
    BY <1>3 DEF SendEvent, screenVars
  <2> QED BY <1>3, <2>1, SendTogether DEF Applies
<1>4. CASE Idle
  BY <1>4, IdleTogether DEF Applies
<1>5. CASE End
  <2>1. Restore /\ UNCHANGED <<plugged, sending>> /\ sending = <<>>
    BY <1>5 DEF End, screenVars
  <2> QED BY <2>1, RestoreTogether DEF Applies
<1>6. CASE \E asked \in Wishes : Save(asked)
  <2>1. PICK asked \in Wishes : Save(asked)
    BY <1>6
  <2>2. plugged' = plugged
    BY <2>1 DEF Save, screenVars
  <2> QED BY <2>1, <2>2, SaveTogether DEF Applies
<1>7. CASE \E p \in Programs : Disconnect(p)
  <2>1. PICK p \in Programs : Disconnect(p)
    BY <1>7
  <2>2. TogetherInv' /\ xdgs'[p] = <<>> /\ \A q \in Programs : q # p => xdgs'[q] = xdgs[q]
    BY <2>1, DisconnectTogether
  <2> QED BY <2>2 DEF Applies
<1>8. CASE \E s \in Screens, now \in Monitors : Plug(s, now)
  BY <1>8, PlugTogether DEF Applies
<1>9. CASE \E s \in Screens : Unplug(s) \/ Destroy(s)
  BY <1>9, UnplugTogether, DestroyTogether DEF Applies
<1>10. CASE \E p \in Programs : \E i \in 1..MaxObjects[p] : DestroyXdgOutput(p, i)
  <2>1. PICK p \in Programs : \E i \in 1..MaxObjects[p] : DestroyXdgOutput(p, i)
    BY <1>10
  <2>2. PICK i \in 1..MaxObjects[p] : DestroyXdgOutput(p, i)
    BY <2>1
  <2>3. i \in DOMAIN xdgs[p]
    BY <2>2 DEF DestroyXdgOutput
  <2> QED BY <2>2, <2>3, DestroyObjectTogether DEF Applies
<1>11. CASE \E s \in Screens, now \in Monitors, changed \in SUBSET {"mode", "scale"} : SetUp(s, now, changed)
  BY <1>11, SetUpTogether DEF Applies
<1>12. CASE UNCHANGED adVars
  <2>1. UNCHANGED <<plugged, wish, outputs, xdgs, sending, logical, older, idle>>
    BY <1>12 DEF adVars, screenVars
  <2>2. OnRecord' /\ NewestTold'
    BY <2>1, RecordStays
  <2>a. UNCHANGED <<plugged, xdgs, sending, logical, idle>>
    BY <2>1
  <2>b. NoneWaits' <=> NoneWaits
    BY <2>a DEF NoneWaits
  <2>c. \A p \in Programs : \A i \in DOMAIN xdgs[p] : \A place : OneObject(p, i, place) => OneObject(p, i, place)'
    <3> TAKE p \in Programs
    <3> TAKE i \in DOMAIN xdgs[p]
    <3> SUFFICES ASSUME NEW place, OneObject(p, i, place) PROVE OneObject(p, i, place)'
      OBVIOUS
    <3>1. Due(p, xdgs[p][i].screen)' = Due(p, xdgs[p][i].screen)
      BY <2>a DEF Due
    <3>2. Heard(xdgs[p][i], p, place)' <=> Heard(xdgs[p][i], p, place)
      BY <2>a, <3>1 DEF Heard
    <3>3. Heard(xdgs[p][i], p, place)'
      BY <3>2 DEF OneObject
    <3> QED BY <2>a, <3>3 DEF OneObject, EventsOf
  <2>3. OneAtATime'
    <3>1. CASE sending = <<>>
      BY <2>a, <2>b, <3>1 DEF TogetherInv, OneAtATime
    <3>2. CASE sending # <<>>
      <4>1. \E p \in Programs : \E i \in DOMAIN xdgs[p] : \E place \in 1..Len(EventsOf(p)) : OneObject(p, i, place)
        BY <3>2 DEF TogetherInv, OneAtATime
      <4>2. \E p \in Programs : \E i \in DOMAIN xdgs[p] : \E place \in 1..Len(EventsOf(p)) : OneObject(p, i, place)'
        BY <2>c, <4>1
      <4> QED BY <2>a, <3>2, <4>2 DEF OneAtATime, EventsOf
    <3> QED BY <3>1, <3>2
  <2> QED BY <2>1, <2>2, <2>3 DEF TogetherInv, Applies
<1> QED BY <1>1, <1>2, <1>3, <1>4, <1>5, <1>6, <1>7, <1>8, <1>9, <1>10, <1>11, <1>12 DEF AdNext

\* For any programs, versions of their objects, screens, monitors and settings,
\* whatever is saved, unplugged or set up anew between: a program applies no logical
\* size but the one that belongs with the mode it was told last, unless it has not
\* been told of the screen again since its monitor changed (logged(),
\* logicalsize.cpp:178-210).
THEOREM SizeAndModeTogether == AdSpec => AppliedTogether
<1>1. ASSUME AdInv, AdInv', TogetherInv, [AdNext]_adVars
      PROVE  /\ TogetherInv'
             /\ [\A p \in Programs : \A i \in DOMAIN xdgs[p] \cap DOMAIN xdgs'[p] :
                    xdgs'[p][i].applied # xdgs[p][i].applied /\ xdgs'[p][i].screen = xdgs[p][i].screen
                        => \/ xdgs'[p][i].applied = Belongs(p, xdgs[p][i].screen)'
                           \/ <<p, xdgs[p][i].screen>> \in older']_adVars
  <2>1. TogetherInv' /\ Applies
    BY <1>1, TogetherStep
  <2> QED BY <1>1, <2>1, AppliesTogether
<1>2. AdInit => AdInv /\ TogetherInv
  BY AdStarts, TogetherStarts
<1> QED BY <1>1, <1>2, AdStep, PTL DEF AdSpec, AppliedTogether
=============================================================================
