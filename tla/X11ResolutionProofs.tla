-------------------------- MODULE X11ResolutionProofs -------------------------
(***************************************************************************)
(* What is proved of X11Resolution, for every number of windows, sizes,    *)
(* kinds of client and moves.                                              *)
(*                                                                         *)
(* The handlers of the control are built from a few operators on the       *)
(* record control: each has a lemma that says whether it asks anything of  *)
(* a window (Quietly: it does not; Touching: of one window alone), and     *)
(* each action one that puts those together.  ControlInv is inductive by   *)
(* itself, Orderly beside it; CalmInv is, where the client and the user    *)
(* wait for KWin; FitInv, which carries the sizes of the windows, is for   *)
(* the Regular behaviours, where also windows open under no chosen mode.   *)
(***************************************************************************)
EXTENDS X11Resolution, FiniteSetTheorems, WellFoundedInduction, TLAPS

RealSize == Sizes \cup {Full, Windowed}
AnySize == RealSize \cup {NoSize}
Asked == [size : Sizes, answered : BOOLEAN, presented : BOOLEAN, verdict : Nat]
Requests == Asked \cup {NoRequest}
Negotiations == [failed : BOOLEAN, window : Windows \cup {NoWindow}, count : Nat,
                 retried : BOOLEAN, validation : Nat]
OfWindow == {"apply", "release", "answer", "withdraw", "withdrawn", "retry"}
Timers == [kind : OfWindow, window : Windows, token : Nat, due : Nat]
          \cup [kind : {"validate", "expire"}, window : {NoWindow}, token : Nat, due : Nat]

Controls == [requests : [Windows -> Requests], negotiation : Negotiations,
             waiting : SUBSET Windows, withdrawals : [Windows -> Nat],
             overdue : SUBSET Windows, releases : [Windows -> Nat],
             timers : SUBSET Timers, generation : Nat, stretched : SUBSET Windows,
             size : [Windows -> AnySize], told : [Windows -> Seq(RealSize)]]

-----------------------------------------------------------------------------
(* Numbers: what is set next has one that nothing pending has.             *)

Below == {ss \in Nat \X Nat : ss[1] < ss[2]}

LEMMA LeastNumber ==
    ASSUME NEW T \in SUBSET Nat, T # {}
    PROVE  \E least \in T : \A n \in T : least <= n
<1>1. IsWellFoundedOn(Below, Nat)
  BY NatLessThanWellFounded, Zenon DEF OpToRel, Below
<1>2. \E least \in T : \A n \in T : <<n, least>> \notin Below
  BY <1>1, WFMin
<1>3. PICK least \in T : \A n \in T : <<n, least>> \notin Below
  BY <1>2
<1>4. ASSUME NEW n \in T
      PROVE  least <= n
  <2>1. n \in Nat /\ least \in Nat /\ (n < least => <<n, least>> \in Below)
    BY DEF Below
  <2> QED BY <1>3, <2>1
<1> QED BY <1>4

LEMMA GreatestNumber ==
    ASSUME NEW T \in SUBSET Nat, 0 \in T, NEW b \in Nat, \A n \in T : n <= b
    PROVE  Max(T) \in T /\ \A n \in T : n <= Max(T)
<1> DEFINE Bounds == {u \in Nat : \A n \in T : n <= u}
<1>1. PICK u \in Bounds : \A v \in Bounds : u <= v
  <2>1. Bounds \in SUBSET Nat /\ b \in Bounds
    OBVIOUS
  <2> HIDE DEF Bounds
  <2> QED BY <2>1, LeastNumber
<1>2. u \in Nat /\ \A n \in T : n <= u
  OBVIOUS
<1>3. u \in T
  <2>1. CASE u = 0
    BY <2>1
  <2>2. CASE u # 0 /\ u \notin T
    <3>1. u - 1 \in Nat /\ ~(u <= u - 1)
      BY <1>2, <2>2
    <3>2. \A n \in T : n <= u - 1
      BY <1>2, <2>2
    <3>3. u - 1 \in Bounds
      BY <3>1, <3>2
    <3> QED BY <1>1, <3>1, <3>3
  <2> QED BY <2>1, <2>2
<1>4. \A n \in T : u >= n
  BY <1>2
<1> QED BY <1>3, <1>4 DEF Max

Numbers(c) ==
    {0, c.negotiation.validation}
        \cup {t.token : t \in c.timers} \cup {t.due : t \in c.timers}
        \cup {c.requests[w].verdict : w \in Windows}

Numbered(c) ==
    \E b \in Nat : /\ c.negotiation.validation <= b
                   /\ \A t \in c.timers : t.token <= b /\ t.due <= b
                   /\ \A w \in Windows : c.requests[w].verdict <= b

LEMMA TimerParts ==
    ASSUME NEW t \in Timers
    PROVE  /\ t.token \in Nat /\ t.due \in Nat /\ t.window \in Windows \cup {NoWindow}
           /\ t.kind \notin {"validate", "expire"} => t.window \in Windows
BY DEF Timers, OfWindow

LEMMA ControlParts ==
    ASSUME NEW c \in Controls
    PROVE  /\ c.negotiation \in Negotiations /\ c.negotiation.validation \in Nat
           /\ c.negotiation.count \in Nat
           /\ c.timers \subseteq Timers
           /\ c.waiting \subseteq Windows /\ c.overdue \subseteq Windows
           /\ c.stretched \subseteq Windows /\ c.generation \in Nat
           /\ \A w \in Windows :
                /\ c.requests[w] \in Requests /\ c.requests[w].verdict \in Nat
                /\ c.withdrawals[w] \in Nat /\ c.releases[w] \in Nat
                /\ c.size[w] \in AnySize /\ c.told[w] \in Seq(RealSize)
BY DEF Controls, Negotiations, Requests, Asked, NoRequest

LEMMA NumberIsNew ==
    ASSUME NEW c \in Controls, Numbered(c)
    PROVE  /\ Number(c) \in Nat /\ Number(c) # 0
           /\ \A t \in c.timers : t.token # Number(c)
<1>1. PICK b \in Nat : /\ c.negotiation.validation <= b
                       /\ \A t \in c.timers : t.token <= b /\ t.due <= b
                       /\ \A w \in Windows : c.requests[w].verdict <= b
  BY DEF Numbered
<1>2. Numbers(c) \in SUBSET Nat /\ 0 \in Numbers(c)
  BY ControlParts, TimerParts DEF Numbers
<1>3. \A n \in Numbers(c) : n <= b
  BY <1>1 DEF Numbers
<1>4. Max(Numbers(c)) \in Nat /\ \A n \in Numbers(c) : n <= Max(Numbers(c))
  BY <1>2, <1>3, GreatestNumber
<1>5. Number(c) = 1 + Max(Numbers(c))
  BY DEF Number, Numbers
<1>6. \A t \in c.timers : t.token \in Numbers(c) /\ t.token \in Nat
  BY <1>2 DEF Numbers
<1> QED BY <1>4, <1>5, <1>6

LEMMA StaysNumbered ==
    ASSUME NEW c \in Controls, NEW d \in Controls, Numbered(c), NEW n \in Nat,
           d.negotiation.validation \in {c.negotiation.validation, 0, n},
           \A t \in d.timers \ c.timers : t.token \in {0, n} /\ (t.due \in {0, n}
               \/ \E u \in c.timers : u.due = t.due),
           \A w \in Windows : d.requests[w].verdict \in {c.requests[w].verdict, 0, n}
    PROVE  Numbered(d)
<1>1. PICK b \in Nat : /\ c.negotiation.validation <= b
                       /\ \A t \in c.timers : t.token <= b /\ t.due <= b
                       /\ \A w \in Windows : c.requests[w].verdict <= b
  BY DEF Numbered
<1>2. PICK m \in Nat : b <= m /\ n <= m
  BY b + n \in Nat, b <= b + n, n <= b + n
<1>3. d.negotiation.validation <= m
  BY <1>1, <1>2, ControlParts
<1>4. ASSUME NEW t \in d.timers
      PROVE  t.token <= m /\ t.due <= m
  <2>1. t \in Timers /\ t.token \in Nat /\ t.due \in Nat
    BY ControlParts, TimerParts
  <2>2. CASE t \in c.timers
    <3>1. t.token <= b /\ t.due <= b
      BY <1>1, <2>2
    <3> QED BY <1>2, <2>1, <3>1
  <2>3. CASE t \notin c.timers
    <3>1. t.token \in {0, n} /\ (t.due \in {0, n} \/ t.due <= b)
      BY <1>1, <2>3
    <3> QED BY <1>2, <2>1, <3>1
  <2> QED BY <2>2, <2>3
<1>5. ASSUME NEW w \in Windows
      PROVE  d.requests[w].verdict <= m
  <2>1. d.requests[w].verdict \in Nat /\ c.requests[w].verdict <= b
    BY <1>1, ControlParts
  <2>2. d.requests[w].verdict \in {c.requests[w].verdict, 0, n}
    OBVIOUS
  <2> QED BY <1>2, <2>1, <2>2
<1> QED BY <1>3, <1>4, <1>5 DEF Numbered

-----------------------------------------------------------------------------
(* What holds of control between any two calls, and what a call may do that *)
(* asks nothing of a window.                                               *)

Sound(c) ==
    /\ c \in Controls /\ Numbered(c)
    /\ \A w \in c.stretched : c.requests[w].presented

\* No request is new, and those that stay are awaited no more than before.
NoneAsked(c, d) ==
    \A w \in Windows : d.requests[w] # NoRequest =>
        c.requests[w] # NoRequest /\ d.withdrawals[w] \in {c.withdrawals[w], 0}

\* Who will be looked at still will, and a window that has a size has one still.
LooksKept(c, d) ==
    /\ \A t \in c.timers : t.kind = "apply" => t \in d.timers
    /\ \A w \in Windows : c.size[w] # NoSize => d.size[w] # NoSize

Quietly(c, d) == Sound(d) /\ NoneAsked(c, d) /\ LooksKept(c, d)

LEMMA QuietAtAll ==
    ASSUME NEW c, Sound(c)
    PROVE  Quietly(c, c)
BY DEF Quietly, NoneAsked, LooksKept

LEMMA QuietOn ==
    ASSUME NEW c, NEW d, NEW e, Quietly(c, d), Quietly(d, e)
    PROVE  Quietly(c, e)
BY DEF Quietly, NoneAsked, LooksKept

\* A window is sized: nothing else of control changes.
SizeOnly(c, d) ==
    /\ Sound(d)
    /\ d.requests = c.requests /\ d.withdrawals = c.withdrawals /\ d.releases = c.releases
    /\ d.timers = c.timers /\ d.negotiation = c.negotiation
    /\ \A w \in Windows : c.size[w] # NoSize => d.size[w] # NoSize

LEMMA SizeOnlyIsQuiet ==
    ASSUME NEW c, NEW d, SizeOnly(c, d)
    PROVE  Quietly(c, d)
BY DEF SizeOnly, Quietly, NoneAsked, LooksKept

LEMMA SizeTold ==
    ASSUME NEW c, Sound(c), NEW w \in Windows, NEW s \in RealSize, NEW queue \in Seq(RealSize),
           NEW d, d = [c EXCEPT !.size[w] = s, !.told[w] = queue]
    PROVE  SizeOnly(c, d)
<1>1. c \in Controls /\ s \in AnySize /\ s # NoSize
  BY ConstantsAssumption DEF Sound, RealSize, AnySize
<1>2. d \in Controls
  BY <1>1 DEF Controls
<1>3. d.size[w] = s /\ \A v \in Windows \ {w} : d.size[v] = c.size[v]
  BY <1>1 DEF Controls
<1>4. /\ d.requests = c.requests /\ d.withdrawals = c.withdrawals /\ d.releases = c.releases
      /\ d.timers = c.timers /\ d.negotiation = c.negotiation /\ d.stretched = c.stretched
  BY <1>1 DEF Controls
<1>5. Numbered(d)
  BY <1>4 DEF Numbered, Sound
<1>6. \A v \in d.stretched : d.requests[v].presented
  BY <1>4 DEF Sound
<1> QED BY <1>1, <1>2, <1>3, <1>4, <1>5, <1>6 DEF SizeOnly, Sound

LEMMA Configured ==
    ASSUME NEW c, Sound(c), NEW w \in Windows, NEW s \in RealSize
    PROVE  SizeOnly(c, Configure(c, w, s))
<1> DEFINE queue == IF c.size[w] = s THEN c.told[w] ELSE Append(c.told[w], s)
<1>1. c.told[w] \in Seq(RealSize)
  BY ControlParts DEF Sound
<1>2. queue \in Seq(RealSize)
  BY <1>1
<1>3. Configure(c, w, s) = [c EXCEPT !.size[w] = s, !.told[w] = queue]
  BY DEF Configure
<1> HIDE DEF queue
<1> QED BY <1>2, <1>3, SizeTold

LEMMA Announced ==
    ASSUME NEW c, Sound(c), NEW w \in Windows, NEW s \in RealSize
    PROVE  SizeOnly(c, Announce(c, w, s))
<1>1. Append(c.told[w], s) \in Seq(RealSize)
  BY ControlParts DEF Sound
<1>2. Announce(c, w, s) = [c EXCEPT !.size[w] = s, !.told[w] = Append(c.told[w], s)]
  BY DEF Announce
<1> QED BY <1>1, <1>2, SizeTold

\* Callbacks are set, or one came; all else that is compared stays.
LEMMA TimersSet ==
    ASSUME NEW c, Sound(c), NEW n \in Nat, NEW d, d \in Controls,
           d.requests = c.requests, d.negotiation = c.negotiation, d.stretched = c.stretched,
           d.size = c.size,
           \A w \in Windows : d.requests[w] # NoRequest =>
               d.withdrawals[w] \in {c.withdrawals[w], 0},
           c.timers \subseteq d.timers,
           \A t \in d.timers \ c.timers : t.token \in {0, n} /\ (t.due \in {0, n}
               \/ \E u \in c.timers : u.due = t.due)
    PROVE  Quietly(c, d)
<1>1. c \in Controls /\ Numbered(c)
  BY DEF Sound
<1>2. Numbered(d)
  BY <1>1, StaysNumbered
<1> QED BY <1>2 DEF Quietly, Sound, NoneAsked, LooksKept

LEMMA Scheduled ==
    ASSUME NEW c, Sound(c), NEW w \in Windows
    PROVE  /\ Quietly(c, Schedule(c, w))
           /\ Schedule(c, w).requests = c.requests
           /\ Schedule(c, w).withdrawals = c.withdrawals
           /\ Timer("apply", w, 0, 0) \in Schedule(c, w).timers
<1> DEFINE look == Timer("apply", w, 0, 0)
           d == Schedule(c, w)
<1>1. c \in Controls
  BY DEF Sound
<1>2. look \in Timers /\ look.token = 0 /\ look.due = 0
  BY DEF Timer, Timers, OfWindow
<1> HIDE DEF look
<1>3. d = [c EXCEPT !.timers = @ \cup {look}]
  BY DEF Schedule, look
<1> HIDE DEF d
<1>4. d \in Controls
  BY <1>1, <1>2, <1>3 DEF Controls
<1>5. /\ d.requests = c.requests /\ d.negotiation = c.negotiation /\ d.stretched = c.stretched
      /\ d.withdrawals = c.withdrawals /\ d.timers = c.timers \cup {look} /\ d.size = c.size
  BY <1>1, <1>3 DEF Controls
<1>6. Quietly(c, d)
  BY <1>2, <1>4, <1>5, TimersSet
<1> QED BY <1>5, <1>6 DEF look, d

LEMMA WithdrawalAwaited ==
    ASSUME NEW c, Sound(c), NEW w \in Windows, c.requests[w] = NoRequest
    PROVE  /\ Quietly(c, AwaitWithdrawal(c, w))
           /\ AwaitWithdrawal(c, w).requests = c.requests
           /\ AwaitWithdrawal(c, w).releases = c.releases
<1> DEFINE n == Number(c)
           wait == Timer("withdraw", w, n, n)
           d == AwaitWithdrawal(c, w)
<1>1. c \in Controls /\ n \in Nat
  BY NumberIsNew DEF Sound
<1> HIDE DEF n
<1>2. wait \in Timers /\ wait.token = n /\ wait.due = n
  BY <1>1 DEF Timer, Timers, OfWindow
<1> HIDE DEF wait
<1>3. d = [c EXCEPT !.withdrawals[w] = n, !.overdue = @ \ {w}, !.timers = @ \cup {wait}]
  BY DEF AwaitWithdrawal, wait, n
<1> HIDE DEF d
<1>4. d \in Controls
  BY <1>1, <1>2, <1>3 DEF Controls
<1>5. /\ d.requests = c.requests /\ d.negotiation = c.negotiation /\ d.stretched = c.stretched
      /\ d.releases = c.releases /\ d.timers = c.timers \cup {wait} /\ d.size = c.size
      /\ \A v \in Windows \ {w} : d.withdrawals[v] = c.withdrawals[v]
  BY <1>1, <1>3 DEF Controls
<1>6. Quietly(c, d)
  BY <1>1, <1>2, <1>4, <1>5, TimersSet
<1> QED BY <1>5, <1>6 DEF d

-----------------------------------------------------------------------------
(* Giving windows back.                                                    *)

LEMMA NoRequestParts ==
    /\ NoRequest \in Requests /\ NoRequest.size = NoSize /\ NoRequest.presented = FALSE
    /\ NoRequest.verdict = 0 /\ NoRequest.answered = FALSE
BY DEF NoRequest, Requests, Asked

LEMMA RequestParts ==
    ASSUME NEW r \in Requests, r # NoRequest
    PROVE  r \in Asked
BY DEF Requests

LEMMA RequestAnswered ==
    ASSUME NEW r \in Asked, NEW b \in BOOLEAN, NEW q, q = [r EXCEPT !.answered = b]
    PROVE  /\ q \in Asked /\ q \in Requests /\ q # NoRequest
           /\ q.verdict = r.verdict /\ q.presented = r.presented
<1>1. q \in Asked /\ q.verdict = r.verdict /\ q.presented = r.presented
  BY DEF Asked
<1>2. q.size # NoSize
  BY <1>1, ConstantsAssumption DEF Asked
<1> QED BY <1>1, <1>2, NoRequestParts DEF Requests

LEMMA RequestShown ==
    ASSUME NEW r \in Asked, NEW q, q = [r EXCEPT !.presented = TRUE]
    PROVE  /\ q \in Asked /\ q \in Requests /\ q # NoRequest
           /\ q.verdict = r.verdict /\ q.presented = TRUE /\ q.size = r.size
<1>1. q \in Asked /\ q.verdict = r.verdict /\ q.presented = TRUE /\ q.size = r.size
  BY DEF Asked
<1>2. q.size # NoSize
  BY <1>1, ConstantsAssumption DEF Asked
<1> QED BY <1>1, <1>2, NoRequestParts DEF Requests

LEMMA Unstretched ==
    ASSUME NEW c, Sound(c), NEW w \in Windows
    PROVE  LET d == Unstretch(c, w)
           IN  /\ d \in Controls /\ w \notin d.stretched /\ d.stretched \subseteq c.stretched
               /\ d.requests = c.requests /\ d.withdrawals = c.withdrawals
               /\ d.timers = c.timers /\ d.negotiation = c.negotiation /\ d.size = c.size
<1> DEFINE d == Unstretch(c, w)
<1>1. c \in Controls /\ (w \in c.stretched => c.requests[w].presented)
  BY DEF Sound
<1>2. CASE c.requests[w].presented
  <2>1. d = [c EXCEPT !.stretched = @ \ {w}]
    BY <1>2 DEF Unstretch
  <2> QED BY <1>1, <2>1 DEF Controls
<1>3. CASE ~c.requests[w].presented
  <2>1. d = c
    BY <1>3 DEF Unstretch
  <2> QED BY <1>1, <1>3, <2>1 DEF Controls
<1> QED BY <1>2, <1>3

\* The request of a window is gone, and nothing else was asked.
GivenBack(c, d, w) ==
    /\ Quietly(c, d)
    /\ d.requests = [c.requests EXCEPT ![w] = NoRequest]
    /\ d.releases[w] = 0
    /\ c.requests[w] = NoRequest => d.withdrawals = c.withdrawals

\* What ending the request of a window leaves.
RequestEnded(e, d, w) ==
    /\ d \in Controls
    /\ d.requests = [e.requests EXCEPT ![w] = NoRequest] /\ d.releases[w] = 0
    /\ d.withdrawals = e.withdrawals /\ d.timers = e.timers /\ d.stretched = e.stretched
    /\ d.negotiation = e.negotiation /\ d.size = e.size

LEMMA EndedParts ==
    ASSUME NEW e \in Controls, NEW w \in Windows, NEW d,
           d = [e EXCEPT !.waiting = @ \ {w}, !.releases[w] = 0, !.requests[w] = NoRequest]
    PROVE  RequestEnded(e, d, w)
<1>1. NoRequest \in Requests
  BY NoRequestParts
<1>2. d \in Controls
  BY <1>1 DEF Controls
<1>3. d.requests = [e.requests EXCEPT ![w] = NoRequest] /\ d.releases[w] = 0
  BY DEF Controls
<1>4. /\ d.withdrawals = e.withdrawals /\ d.timers = e.timers /\ d.stretched = e.stretched
      /\ d.negotiation = e.negotiation /\ d.size = e.size
  BY DEF Controls
<1> QED BY <1>2, <1>3, <1>4 DEF RequestEnded

LEMMA Ended ==
    ASSUME NEW c, Sound(c), NEW w \in Windows, NEW e, e = Unstretch(c, w), NEW d,
           d = [e EXCEPT !.waiting = @ \ {w}, !.releases[w] = 0, !.requests[w] = NoRequest]
    PROVE  GivenBack(c, d, w) /\ d.withdrawals = c.withdrawals
<1>1. c \in Controls /\ Numbered(c)
  BY DEF Sound
<1>2. /\ e \in Controls /\ w \notin e.stretched /\ e.stretched \subseteq c.stretched
      /\ e.requests = c.requests /\ e.withdrawals = c.withdrawals
      /\ e.timers = c.timers /\ e.negotiation = c.negotiation /\ e.size = c.size
  BY Unstretched
<1>3. RequestEnded(e, d, w)
  BY <1>2, EndedParts
<1>4. /\ d \in Controls
      /\ d.requests = [e.requests EXCEPT ![w] = NoRequest] /\ d.releases[w] = 0
      /\ d.withdrawals = e.withdrawals /\ d.timers = e.timers /\ d.stretched = e.stretched
      /\ d.negotiation = e.negotiation /\ d.size = e.size
  BY <1>3 DEF RequestEnded
<1>5. c.requests \in [Windows -> Requests]
  BY <1>1 DEF Controls
<1>6. d.requests[w] = NoRequest /\ \A v \in Windows \ {w} : d.requests[v] = c.requests[v]
  BY <1>2, <1>4, <1>5
<1>7. Numbered(d)
  <2>1. \A v \in Windows : d.requests[v].verdict \in {c.requests[v].verdict, 0, 0}
    BY <1>6, NoRequestParts
  <2>2. d.timers \ c.timers = {} /\ d.negotiation.validation = c.negotiation.validation
    BY <1>2, <1>4
  <2> QED BY <1>1, <1>4, <2>1, <2>2, StaysNumbered
<1>8. \A v \in d.stretched : d.requests[v].presented
  <2>1. ASSUME NEW v \in d.stretched
        PROVE  d.requests[v].presented
    <3>1. v \in c.stretched /\ v # w /\ v \in Windows
      BY <1>1, <1>2, <1>4, <2>1, ControlParts
    <3> QED BY <1>6, <3>1 DEF Sound
  <2> QED BY <2>1
<1>9. Quietly(c, d)
  BY <1>2, <1>3, <1>4, <1>6, <1>7, <1>8 DEF Quietly, Sound, NoneAsked, LooksKept
<1> QED BY <1>2, <1>4, <1>9 DEF GivenBack

LEMMA Restored ==
    ASSUME NEW c, Sound(c), NEW w \in Windows
    PROVE  GivenBack(c, Restore(c, w), w)
<1> DEFINE ended == [Unstretch(c, w) EXCEPT !.waiting = @ \ {w}, !.releases[w] = 0,
                                            !.requests[w] = NoRequest]
           handed == Configure(ended, w, NormalSize(w))
<1>1. GivenBack(c, ended, w)
  BY Ended
<1>2. /\ c.requests[w] = NoRequest => Restore(c, w) = ended
      /\ c.requests[w] # NoRequest /\ mode # NoSize => Restore(c, w) = AwaitWithdrawal(handed, w)
      /\ c.requests[w] # NoRequest /\ mode = NoSize => Restore(c, w) = handed
  BY DEF Restore
<1> HIDE DEF ended
<1>3. NormalSize(w) \in RealSize
  BY DEF NormalSize, RealSize
<1>4. Sound(ended) /\ SizeOnly(ended, handed)
  <2>1. Sound(ended)
    BY <1>1 DEF GivenBack, Quietly
  <2> QED BY <1>3, <2>1, Configured
<1>5. /\ Sound(handed) /\ handed.requests = ended.requests /\ handed.releases = ended.releases
      /\ Quietly(c, handed)
  BY <1>1, <1>4, SizeOnlyIsQuiet, QuietOn DEF SizeOnly, GivenBack
<1> HIDE DEF handed
<1>6. ended.requests[w] = NoRequest
  <2>1. c.requests \in [Windows -> Requests]
    BY DEF Sound, Controls
  <2> QED BY <1>1, <2>1 DEF GivenBack
<1>7. /\ Quietly(handed, AwaitWithdrawal(handed, w))
      /\ AwaitWithdrawal(handed, w).requests = ended.requests
      /\ AwaitWithdrawal(handed, w).releases = ended.releases
  BY <1>5, <1>6, WithdrawalAwaited
<1>8. CASE c.requests[w] = NoRequest
  BY <1>1, <1>2, <1>8
<1>9. CASE c.requests[w] # NoRequest /\ mode # NoSize
  <2>1. Quietly(c, AwaitWithdrawal(handed, w))
    BY <1>5, <1>7, QuietOn
  <2> QED BY <1>1, <1>2, <1>7, <1>9, <2>1 DEF GivenBack
<1>10. CASE c.requests[w] # NoRequest /\ mode = NoSize
  BY <1>1, <1>2, <1>5, <1>10 DEF GivenBack
<1> QED BY <1>8, <1>9, <1>10

\* Used up: what GivenBack says of each window.
LEMMA BackForEach ==
    ASSUME NEW c, Sound(c), NEW w \in Windows, NEW d, GivenBack(c, d, w)
    PROVE  /\ Quietly(c, d) /\ Sound(d) /\ d.requests[w] = NoRequest /\ d.releases[w] = 0
           /\ \A v \in Windows \ {w} : d.requests[v] = c.requests[v]
           /\ c.requests[w] = NoRequest => d.withdrawals[w] = c.withdrawals[w]
<1>1. c.requests \in [Windows -> Requests]
  BY DEF Sound, Controls
<1> QED BY <1>1 DEF GivenBack, Quietly

-----------------------------------------------------------------------------
(* One window is mapped at a time, so a loop over the requested ones turns  *)
(* at most once.                                                           *)

OneRequested(c) == \A v, w \in Requested(c) : v = w

LEMMA OneOrNone ==
    ASSUME NEW c, OneRequested(c)
    PROVE  Requested(c) = {} \/ \E w \in Windows : Requested(c) = {w}
BY DEF OneRequested, Requested

LEMMA StaysOne ==
    ASSUME NEW c, NEW d, OneRequested(c), NoneAsked(c, d)
    PROVE  OneRequested(d) /\ Requested(d) \subseteq Requested(c)
BY DEF OneRequested, NoneAsked, Requested

LEMMA RestoreNone ==
    ASSUME NEW c
    PROVE  RestoreEach(c, {}) = c
<1> DEFINE Turns(each) ==
        each = [S \in SUBSET {} |->
                   IF S = {} THEN c
                   ELSE LET x == CHOOSE x \in S : TRUE IN Restore(each[S \ {x}], x)]
           each == CHOOSE each : Turns(each)
<1>1. RestoreEach(c, {}) = each[{}]
  BY DEF RestoreEach, FoldSet, MapThenFoldSet
<1>2. Turns([S \in SUBSET {} |-> c])
  <2>1. \A S \in SUBSET {} : S = {}
    OBVIOUS
  <2> QED BY <2>1
<1>3. Turns(each)
  <2> HIDE DEF Turns
  <2> QED BY <1>2
<1> HIDE DEF each
<1> QED BY <1>1, <1>3

LEMMA OnlyChoice ==
    ASSUME NEW w, NEW S \in SUBSET {w}, S # {}
    PROVE  S = {w} /\ (CHOOSE x \in S : TRUE) = w /\ S \ {w} = {}
<1>1. S = {w}
  OBVIOUS
<1>2. (CHOOSE x \in {w} : TRUE) \in {w}
  OBVIOUS
<1> QED BY <1>1, <1>2

LEMMA RestoreOne ==
    ASSUME NEW c, NEW w
    PROVE  RestoreEach(c, {w}) = Restore(c, w)
<1> DEFINE Turns(each) ==
        each = [S \in SUBSET {w} |->
                   IF S = {} THEN c
                   ELSE LET x == CHOOSE x \in S : TRUE IN Restore(each[S \ {x}], x)]
           each == CHOOSE each : Turns(each)
           turned == [S \in SUBSET {w} |-> IF S = {} THEN c ELSE Restore(c, w)]
<1>1. RestoreEach(c, {w}) = each[{w}]
  BY DEF RestoreEach, FoldSet, MapThenFoldSet
<1>2. Turns(turned)
  <2>1. turned[{}] = c /\ turned = [S \in SUBSET {w} |-> turned[S]]
    OBVIOUS
  <2>2. ASSUME NEW S \in SUBSET {w}
        PROVE  turned[S] = IF S = {} THEN c
                           ELSE LET x == CHOOSE x \in S : TRUE IN Restore(turned[S \ {x}], x)
    BY <2>1, OnlyChoice
  <2> HIDE DEF turned
  <2> QED BY <2>1, <2>2
<1>3. Turns(each)
  <2> HIDE DEF Turns
  <2> QED BY <1>2
<1>4. each[{w}] = Restore(each[{}], w) /\ each[{}] = c
  <2> HIDE DEF each
  <2>1. {w} # {} /\ (CHOOSE x \in {w} : TRUE) = w /\ {w} \ {w} = {}
    BY OnlyChoice
  <2>2. each[{w}] = LET x == CHOOSE x \in {w} : TRUE IN Restore(each[{w} \ {x}], x)
    BY <1>3, <2>1
  <2>3. each[{}] = c
    BY <1>3
  <2> QED BY <2>1, <2>2, <2>3
<1> HIDE DEF each
<1> QED BY <1>1, <1>4

LEMMA AllRestored ==
    ASSUME NEW c, Sound(c), OneRequested(c)
    PROVE  /\ Quietly(c, RestoreEach(c, Requested(c)))
           /\ Requested(RestoreEach(c, Requested(c))) = {}
<1>1. CASE Requested(c) = {}
  BY <1>1, RestoreNone, QuietAtAll
<1>2. ASSUME NEW w \in Windows, Requested(c) = {w}
      PROVE  /\ Quietly(c, RestoreEach(c, Requested(c)))
             /\ Requested(RestoreEach(c, Requested(c))) = {}
  <2> DEFINE d == Restore(c, w)
  <2>1. RestoreEach(c, Requested(c)) = d /\ GivenBack(c, d, w)
    BY <1>2, RestoreOne, Restored
  <2> HIDE DEF d
  <2>2. /\ Quietly(c, d) /\ d.requests[w] = NoRequest
        /\ \A v \in Windows \ {w} : d.requests[v] = c.requests[v]
    BY <2>1, BackForEach
  <2>3. \A v \in Windows \ {w} : c.requests[v] = NoRequest
    BY <1>2 DEF Requested
  <2> QED BY <2>1, <2>2, <2>3 DEF Requested
<1> QED BY <1>1, <1>2, OneOrNone

-----------------------------------------------------------------------------
(* Refusing, and releasing.                                                *)

LEMMA NegotiationSet ==
    ASSUME NEW c, Sound(c), NEW N \in Negotiations,
           N.validation \in {c.negotiation.validation, 0},
           NEW d, d = [c EXCEPT !.negotiation = N]
    PROVE  /\ Quietly(c, d) /\ d.requests = c.requests /\ d.withdrawals = c.withdrawals
           /\ d.releases = c.releases /\ d.timers = c.timers /\ d.negotiation = N
<1>1. c \in Controls /\ Numbered(c)
  BY DEF Sound
<1>2. d \in Controls
  BY <1>1 DEF Controls
<1>3. /\ d.requests = c.requests /\ d.withdrawals = c.withdrawals
      /\ d.releases = c.releases /\ d.timers = c.timers /\ d.negotiation = N
      /\ d.stretched = c.stretched /\ d.size = c.size
  BY <1>1 DEF Controls
<1>4. Numbered(d)
  <2> DEFINE n == 0
  <2>1. d.negotiation.validation \in {c.negotiation.validation, 0, n}
    BY <1>3
  <2>2. \A t \in d.timers \ c.timers : t.token \in {0, n} /\ (t.due \in {0, n}
            \/ \E u \in c.timers : u.due = t.due)
    BY <1>3
  <2>3. \A w \in Windows : d.requests[w].verdict \in {c.requests[w].verdict, 0, n}
    BY <1>3
  <2>4. n \in Nat
    OBVIOUS
  <2> HIDE DEF n
  <2> QED BY <1>1, <1>2, <2>1, <2>2, <2>3, <2>4, StaysNumbered
<1> QED BY <1>2, <1>3, <1>4 DEF Quietly, Sound, NoneAsked, LooksKept

LEMMA Refused ==
    ASSUME NEW c, Sound(c), OneRequested(c)
    PROVE  Quietly(c, Refuse(c)) /\ Requested(Refuse(c)) = {}
<1> DEFINE N == [c.negotiation EXCEPT !.failed = TRUE]
           d == [c EXCEPT !.negotiation = N]
<1>1. c.negotiation \in Negotiations
  BY ControlParts DEF Sound
<1>2. N \in Negotiations /\ N.validation = c.negotiation.validation
  BY <1>1 DEF Negotiations
<1>3. Refuse(c) = RestoreEach(d, Requested(c))
  BY DEF Refuse
<1> HIDE DEF N
<1>4. Quietly(c, d) /\ d.requests = c.requests
  BY <1>2, NegotiationSet
<1> HIDE DEF d
<1>5. Requested(d) = Requested(c) /\ Sound(d) /\ OneRequested(d)
  BY <1>4 DEF Requested, OneRequested, Quietly
<1> QED BY <1>3, <1>4, <1>5, AllRestored, QuietOn

LEMMA Released ==
    ASSUME NEW c, Sound(c), NEW w \in Windows
    PROVE  LET d == Release(c, w)
           IN  /\ Quietly(c, d)
               /\ d.releases[w] = 0 => d.requests[w] = NoRequest
<1> DEFINE request == c.requests[w]
           n == Number(c)
           remaining == IF \E t \in c.timers : t.due = request.verdict THEN request.verdict ELSE 0
           wait == Timer("release", w, n, remaining)
           d == Release(c, w)
<1>1. c \in Controls /\ Numbered(c)
  BY DEF Sound
<1>2. CASE d = Restore(c, w)
  <2>1. GivenBack(c, d, w)
    BY <1>2, Restored
  <2> HIDE DEF d
  <2>2. Quietly(c, d) /\ d.requests[w] = NoRequest
    BY <2>1, BackForEach
  <2> QED BY <2>2 DEF d
<1>3. CASE d # Restore(c, w)
  <2>1. d = [c EXCEPT !.releases[w] = n, !.timers = @ \cup {wait}]
    BY <1>3 DEF Release
  <2>2. n \in Nat /\ n # 0
    BY <1>1, NumberIsNew
  <2> HIDE DEF n, d
  <2>3. remaining \in Nat /\ (remaining = 0 \/ \E t \in c.timers : t.due = remaining)
    BY <1>1, ControlParts
  <2> HIDE DEF remaining
  <2>4. wait \in Timers /\ wait.token = n /\ wait.due = remaining
    BY <2>2, <2>3 DEF Timer, Timers, OfWindow
  <2> HIDE DEF wait, request
  <2>5. d \in Controls
    BY <1>1, <2>1, <2>2, <2>4 DEF Controls
  <2>6. /\ d.requests = c.requests /\ d.negotiation = c.negotiation
        /\ d.stretched = c.stretched /\ d.withdrawals = c.withdrawals
        /\ d.timers = c.timers \cup {wait} /\ d.releases[w] = n /\ d.size = c.size
    BY <1>1, <2>1 DEF Controls
  <2>7. Quietly(c, d)
    BY <2>2, <2>3, <2>4, <2>5, <2>6, TimersSet
  <2> QED BY <2>2, <2>6, <2>7 DEF d
<1> QED BY <1>2, <1>3

-----------------------------------------------------------------------------
(* Asking.                                                                 *)

\* Only window w may be asked anew.
Touching(c, d, w) ==
    /\ Sound(d) /\ LooksKept(c, d)
    /\ \A v \in Windows \ {w} : d.requests[v] # NoRequest =>
        c.requests[v] # NoRequest /\ d.withdrawals[v] \in {c.withdrawals[v], 0}

\* And it is asked without a wait that was not there before.
Asking(c, d, w) ==
    /\ Touching(c, d, w)
    /\ d.requests[w] # NoRequest => d.withdrawals[w] \in {c.withdrawals[w], 0}

LEMMA QuietTouches ==
    ASSUME NEW c, NEW d, NEW w \in Windows, Quietly(c, d)
    PROVE  Asking(c, d, w)
BY DEF Quietly, Asking, Touching, NoneAsked

LEMMA TouchingOn ==
    ASSUME NEW c, NEW d, NEW e, NEW w \in Windows, Touching(c, d, w), Touching(d, e, w)
    PROVE  Touching(c, e, w)
BY DEF Touching, LooksKept

LEMMA AskingThenQuiet ==
    ASSUME NEW c, NEW d, NEW e, NEW w \in Windows, Asking(c, d, w), Quietly(d, e)
    PROVE  Asking(c, e, w)
BY DEF Asking, Touching, Quietly, NoneAsked, LooksKept

\* The request begin() makes.
Made(c, w, s, N, n, answered) ==
    [c EXCEPT !.negotiation = N,
              !.requests[w] = [size |-> s, answered |-> answered,
                               presented |-> FALSE, verdict |-> n],
              !.timers = @ \cup {Timer("validate", NoWindow, n, n)}]

LEMMA RequestMade ==
    ASSUME NEW c, Sound(c), NEW w \in Windows, NEW s \in Sizes, c.requests[w] = NoRequest,
           NEW N \in Negotiations, NEW n \in Nat, N.validation = n, NEW answered \in BOOLEAN
    PROVE  Asking(c, Made(c, w, s, N, n, answered), w)
<1> DEFINE request == [size |-> s, answered |-> answered, presented |-> FALSE, verdict |-> n]
           verdict == Timer("validate", NoWindow, n, n)
           d == Made(c, w, s, N, n, answered)
<1>1. c \in Controls /\ Numbered(c)
  BY DEF Sound
<1>2. request \in Requests /\ request.verdict = n /\ request.presented = FALSE
  BY DEF Requests, Asked
<1>3. verdict \in Timers /\ verdict.token = n /\ verdict.due = n
  BY DEF Timer, Timers
<1>4. d = [c EXCEPT !.negotiation = N, !.requests[w] = request, !.timers = @ \cup {verdict}]
  BY DEF Made
<1> HIDE DEF request, verdict, d
<1>5. d \in Controls
  BY <1>1, <1>2, <1>3, <1>4 DEF Controls
<1>6. /\ d.negotiation = N /\ d.timers = c.timers \cup {verdict}
      /\ d.withdrawals = c.withdrawals /\ d.stretched = c.stretched /\ d.size = c.size
      /\ d.requests[w] = request /\ \A v \in Windows \ {w} : d.requests[v] = c.requests[v]
  BY <1>1, <1>4 DEF Controls
<1>7. Numbered(d)
  <2>1. \A v \in Windows : d.requests[v].verdict \in {c.requests[v].verdict, 0, n}
    BY <1>2, <1>6
  <2>2. d.negotiation.validation \in {c.negotiation.validation, 0, n}
    BY <1>6
  <2>3. \A t \in d.timers \ c.timers : t.token \in {0, n} /\ t.due \in {0, n}
    BY <1>3, <1>6
  <2> QED BY <1>1, <1>5, <2>1, <2>2, <2>3, StaysNumbered
<1>8. \A v \in d.stretched : d.requests[v].presented
  <2>1. ASSUME NEW v \in d.stretched
        PROVE  d.requests[v].presented
    <3>1. v \in c.stretched /\ v \in Windows /\ c.requests[v].presented
      BY <1>1, <1>6, ControlParts DEF Sound
    <3>2. v # w
      BY <3>1, NoRequestParts
    <3> QED BY <1>6, <3>1, <3>2
  <2> QED BY <2>1
<1> QED BY <1>5, <1>6, <1>7, <1>8 DEF Asking, Touching, Sound, LooksKept, d

LEMMA WindowTried ==
    ASSUME NEW N \in Negotiations, NEW w \in Windows
    PROVE  LET tried == [N EXCEPT !.window = w, !.count = @ + 1]
           IN  tried \in Negotiations /\ tried.validation = N.validation
<1> DEFINE tried == [N EXCEPT !.window = w, !.count = @ + 1]
           more == N.count + 1
<1>1. more \in Nat /\ w \in Windows \cup {NoWindow}
  BY DEF Negotiations
<1> HIDE DEF more
<1>2. tried = [N EXCEPT !.window = w, !.count = more]
  BY DEF more
<1> HIDE DEF tried
<1>3. tried \in Negotiations
  BY <1>1, <1>2 DEF Negotiations
<1>4. tried.validation = N.validation
  BY <1>1, <1>2 DEF Negotiations
<1> QED BY <1>3, <1>4 DEF tried

LEMMA BegunAsks ==
    ASSUME NEW c, Sound(c), OneRequested(c), NEW w \in Windows, NEW s \in Sizes,
           c.requests[w] = NoRequest
    PROVE  Asking(c, Begun(c, w, s), w)
<1> DEFINE tried == IF c.negotiation.window = w THEN c.negotiation
                    ELSE [c.negotiation EXCEPT !.window = w, !.count = @ + 1]
           n == Number(c)
           N == [tried EXCEPT !.validation = n]
           answered == (mode = s)
           request == [size |-> s, answered |-> answered, presented |-> FALSE, verdict |-> n]
           verdict == Timer("validate", NoWindow, n, n)
           d == [c EXCEPT !.negotiation = tried]
           e == [c EXCEPT !.negotiation = N, !.requests[w] = request,
                          !.timers = @ \cup {verdict}]
<1>1. /\ s \notin Available => Begun(c, w, s) = Refuse(c)
      /\ s \in Available /\ tried.count > MaxAttempts => Begun(c, w, s) = Refuse(d)
      /\ s \in Available /\ ~(tried.count > MaxAttempts) => Begun(c, w, s) = e
  BY DEF Begun
<1>2. c.negotiation \in Negotiations /\ n \in Nat
  BY ControlParts, NumberIsNew DEF Sound
<1>3. tried \in Negotiations /\ tried.validation = c.negotiation.validation
  <2> DEFINE other == [c.negotiation EXCEPT !.window = w, !.count = @ + 1]
  <2>1. other \in Negotiations /\ other.validation = c.negotiation.validation
    BY <1>2, WindowTried
  <2> HIDE DEF other
  <2>2. tried \in {c.negotiation, other}
    BY DEF other
  <2> QED BY <1>2, <2>1, <2>2
<1> HIDE DEF n, tried
<1>4. N \in Negotiations /\ N.validation = n
  BY <1>2, <1>3 DEF Negotiations
<1>5. Asking(c, Refuse(c), w)
  BY Refused, QuietTouches
<1>6. Asking(c, Refuse(d), w)
  <2>1. Quietly(c, d) /\ d.requests = c.requests
    BY <1>3, NegotiationSet
  <2> HIDE DEF d
  <2>2. Sound(d) /\ OneRequested(d)
    BY <2>1 DEF OneRequested, Requested, Quietly
  <2>3. Quietly(c, Refuse(d))
    BY <2>1, <2>2, Refused, QuietOn
  <2> QED BY <2>3, QuietTouches
<1>7. Asking(c, e, w)
  <2>1. answered \in BOOLEAN
    OBVIOUS
  <2> HIDE DEF N, answered
  <2>2. e = Made(c, w, s, N, n, answered)
    BY DEF Made
  <2> HIDE DEF e
  <2> QED BY <1>2, <1>4, <2>1, <2>2, RequestMade
<1> HIDE DEF d, e
<1> QED BY <1>1, <1>5, <1>6, <1>7

LEMMA BeginTouches ==
    ASSUME NEW c, Sound(c), OneRequested(c), NEW w \in Windows, NEW s \in Sizes
    PROVE  LET d == Begin(c, w, s)
           IN  /\ Touching(c, d, w)
               /\ c.requests[w] = NoRequest => Asking(c, d, w)
<1> DEFINE d == Begin(c, w, s)
           given == Restore(c, w)
<1>1. CASE c.requests[w].size = s
  <2>1. d = c
    BY <1>1 DEF Begin
  <2>2. Asking(c, c, w)
    BY QuietAtAll, QuietTouches
  <2> QED BY <2>1, <2>2 DEF Asking
<1>2. CASE c.requests[w].size # s
  <2>1. d = Begun(given, w, s) /\ GivenBack(c, given, w)
    BY <1>2, Restored DEF Begin
  <2> HIDE DEF given, d
  <2>2. /\ Quietly(c, given) /\ Sound(given) /\ given.requests[w] = NoRequest
        /\ c.requests[w] = NoRequest => given.withdrawals[w] = c.withdrawals[w]
    BY <2>1, BackForEach
  <2>3. OneRequested(given)
    BY <2>2, StaysOne DEF Quietly
  <2>4. Asking(given, d, w)
    BY <2>1, <2>2, <2>3, BegunAsks
  <2>5. Touching(c, d, w)
    BY <2>2, <2>4, QuietTouches, TouchingOn DEF Asking
  <2>6. c.requests[w] = NoRequest => Asking(c, d, w)
    BY <2>2, <2>4, <2>5 DEF Asking
  <2> QED BY <2>5, <2>6 DEF d
<1> QED BY <1>1, <1>2

LEMMA SizeAsked ==
    ASSUME NEW c, Sound(c), OneRequested(c), NEW w \in Windows, NEW s \in Sizes,
           c.requests[w] = NoRequest
    PROVE  Asking(c, AskSize(c, w, s), w)
<1> DEFINE begun == Begin(c, w, s)
<1>1. Asking(c, begun, w)
  BY BeginTouches
<1>2. AskSize(c, w, s) \in {begun, Configure(begun, w, s)}
  BY DEF AskSize
<1> HIDE DEF begun
<1>3. Quietly(begun, Configure(begun, w, s))
  <2>1. Sound(begun) /\ s \in RealSize
    BY <1>1 DEF Asking, Touching, RealSize
  <2> QED BY <2>1, Configured, SizeOnlyIsQuiet
<1> QED BY <1>1, <1>2, <1>3, AskingThenQuiet

\* A window without a request is asked, if at all, while nothing is awaited.
LEMMA AskedAwaitsNothing ==
    ASSUME NEW c, Sound(c), OneRequested(c), NEW w \in Windows, NEW s \in Sizes,
           c.requests[w] = NoRequest
    PROVE  LET d == Ask(c, w, s)
           IN  Touching(c, d, w) /\ (d.requests[w] # NoRequest => d.withdrawals[w] = 0)
<1> DEFINE d == Ask(c, w, s)
           e == [c EXCEPT !.overdue = @ \ {w}]
<1>1. CASE c.withdrawals[w] # 0
  <2>1. d = c
    BY <1>1 DEF Ask
  <2>2. Touching(c, c, w)
    BY QuietAtAll, QuietTouches DEF Asking
  <2> QED BY <2>1, <2>2
<1>2. CASE c.withdrawals[w] = 0 /\ mode \notin {NoSize, s} /\ w \notin c.overdue
  <2>1. d = AwaitWithdrawal(c, w)
    BY <1>2 DEF Ask
  <2>2. Quietly(c, d) /\ d.requests[w] = NoRequest
    BY <2>1, WithdrawalAwaited
  <2> HIDE DEF d
  <2>3. Touching(c, d, w)
    BY <2>2, QuietTouches DEF Asking
  <2> QED BY <2>2, <2>3 DEF d
<1>3. CASE c.withdrawals[w] = 0 /\ ~(mode \notin {NoSize, s} /\ w \notin c.overdue)
  <2>1. d = AskSize(e, w, s)
    BY <1>3 DEF Ask
  <2>2. c \in Controls /\ Numbered(c)
    BY DEF Sound
  <2>3. e \in Controls
    BY <2>2 DEF Controls
  <2>4. /\ e.requests = c.requests /\ e.withdrawals = c.withdrawals
        /\ e.timers = c.timers /\ e.negotiation = c.negotiation /\ e.stretched = c.stretched
        /\ e.size = c.size
    BY <2>2 DEF Controls
  <2> HIDE DEF e, d
  <2>5. Quietly(c, e)
    BY <2>3, <2>4, TimersSet
  <2>6. Sound(e) /\ OneRequested(e) /\ e.requests[w] = NoRequest
    BY <2>4, <2>5 DEF Quietly, OneRequested, Requested
  <2>7. Asking(e, d, w)
    BY <2>1, <2>6, SizeAsked
  <2>8. Touching(c, d, w)
    BY <2>5, <2>7, QuietTouches, TouchingOn DEF Asking
  <2> QED BY <1>3, <2>4, <2>7, <2>8 DEF Asking, d
<1> QED BY <1>1, <1>2, <1>3

\* A look at a window.
LEMMA Applied ==
    ASSUME NEW c, Sound(c), OneRequested(c), NEW w \in Windows, wanted \in Sizes \cup {NoSize}
    PROVE  LET d == Apply(c, w)
           IN  /\ Touching(c, d, w)
               /\ d.requests[w] # NoRequest =>
                    /\ fullscreen[w]
                    /\ \/ d.withdrawals[w] = 0
                       \/ c.requests[w] # NoRequest /\ d.withdrawals[w] \in {c.withdrawals[w], 0}
<1> DEFINE s == AskedSize(c)
           released == Release(c, w)
           waiting == [c EXCEPT !.waiting = @ \cup {w}]
           d == Apply(c, w)
<1>1. /\ Quietly(c, released) /\ (released.releases[w] = 0 => released.requests[w] = NoRequest)
  BY Released
<1>2. s \in Sizes \cup {NoSize}
  BY DEF AskedSize
<1>3. Quietly(c, c)
  BY QuietAtAll
<1>4. Quietly(c, waiting)
  <2>1. c \in Controls
    BY DEF Sound
  <2>2. waiting \in Controls
    BY <2>1 DEF Controls
  <2>3. /\ waiting.requests = c.requests /\ waiting.withdrawals = c.withdrawals
        /\ waiting.timers = c.timers /\ waiting.negotiation = c.negotiation
        /\ waiting.stretched = c.stretched /\ waiting.size = c.size
    BY <2>1 DEF Controls
  <2> HIDE DEF waiting
  <2> QED BY <2>2, <2>3, TimersSet
<1>5. /\ ~fullscreen[w] => d = Restore(c, w)
      /\ fullscreen[w] =>
            \/ d \in {c, released, waiting}
            \/ s # NoSize /\ c.requests[w] = NoRequest /\ d = Ask(c, w, s)
            \/ s # NoSize /\ released.releases[w] = 0 /\ d = Ask(released, w, s)
  BY DEF Apply
<1> HIDE DEF d, s, released, waiting
<1>6. CASE ~fullscreen[w]
  <2>1. GivenBack(c, d, w)
    BY <1>5, <1>6, Restored
  <2>2. Quietly(c, d) /\ d.requests[w] = NoRequest
    BY <2>1, BackForEach
  <2> QED BY <2>2, QuietTouches DEF Asking, d
<1>7. CASE fullscreen[w] /\ d \in {c, released, waiting}
  <2>1. Quietly(c, d)
    BY <1>1, <1>3, <1>4, <1>7
  <2>2. Touching(c, d, w) /\ NoneAsked(c, d)
    BY <2>1, QuietTouches DEF Asking, Quietly
  <2> QED BY <1>7, <2>2 DEF NoneAsked, d
<1>8. CASE fullscreen[w] /\ s # NoSize /\ c.requests[w] = NoRequest /\ d = Ask(c, w, s)
  BY <1>2, <1>8, AskedAwaitsNothing DEF d
<1>9. CASE fullscreen[w] /\ s # NoSize /\ released.releases[w] = 0 /\ d = Ask(released, w, s)
  <2>1. Sound(released) /\ OneRequested(released) /\ released.requests[w] = NoRequest
    BY <1>1, <1>9, StaysOne DEF Quietly
  <2>2. Touching(released, d, w) /\ (d.requests[w] # NoRequest => d.withdrawals[w] = 0)
    BY <1>2, <1>9, <2>1, AskedAwaitsNothing
  <2>3. Touching(c, d, w)
    BY <1>1, <2>2, QuietTouches, TouchingOn DEF Asking
  <2> QED BY <1>9, <2>2, <2>3 DEF d
<1> QED BY <1>5, <1>6, <1>7, <1>8, <1>9

-----------------------------------------------------------------------------
(* Buffers, verdicts and settings.                                         *)

\* Nothing that is asked or awaited changes.
LEMMA NothingTouched ==
    ASSUME NEW c, Sound(c), NEW d, d \in Controls,
           d.requests = c.requests, d.withdrawals = c.withdrawals, d.timers = c.timers,
           d.negotiation = c.negotiation, d.stretched \subseteq c.stretched,
           \A w \in Windows : c.size[w] # NoSize => d.size[w] # NoSize
    PROVE  Quietly(c, d)
<1>1. c \in Controls /\ Numbered(c)
  BY DEF Sound
<1>2. Numbered(d)
  BY <1>1 DEF Numbered
<1> QED BY <1>2 DEF Quietly, Sound, NoneAsked, LooksKept

LEMMA Presented ==
    ASSUME NEW c, Sound(c), NEW w \in Windows, NEW size \in RealSize
    PROVE  Quietly(c, Present(c, w, size)) /\ Requested(Present(c, w, size)) = Requested(c)
<1> DEFINE request == c.requests[w]
           r == [request EXCEPT !.presented = TRUE]
           e == [c EXCEPT !.requests[w] = r, !.stretched = @ \cup {w}]
           d == Present(c, w, size)
<1>1. c \in Controls /\ Numbered(c) /\ request \in Requests
  BY ControlParts DEF Sound
<1>2. CASE d = c
  BY <1>2, QuietAtAll
<1>3. CASE d # c
  <2>1. d = e /\ request.size = size
    BY <1>3 DEF Present
  <2>2. size # NoSize /\ request # NoRequest
    BY <2>1, NoRequestParts, ConstantsAssumption DEF RealSize
  <2> HIDE DEF request
  <2>3. /\ r \in Requests /\ r.presented = TRUE /\ r.verdict = request.verdict /\ r.size = size
        /\ r # NoRequest
    <3>1. request \in Asked
      BY <1>1, <2>2, RequestParts
    <3> QED BY <2>1, <3>1, RequestShown
  <2>4. r # NoRequest
    BY <2>3
  <2> HIDE DEF r, d
  <2>5. d \in Controls
    BY <1>1, <2>1, <2>3 DEF Controls
  <2>6. /\ d.withdrawals = c.withdrawals /\ d.timers = c.timers /\ d.size = c.size
        /\ d.negotiation = c.negotiation /\ d.stretched = c.stretched \cup {w}
        /\ d.requests[w] = r /\ \A v \in Windows \ {w} : d.requests[v] = c.requests[v]
    BY <1>1, <2>1 DEF Controls
  <2>7. Numbered(d)
    <3>1. \A v \in Windows : d.requests[v].verdict \in {c.requests[v].verdict, 0, 0}
      BY <2>3, <2>6 DEF request
    <3>2. d.timers \ c.timers = {} /\ d.negotiation.validation = c.negotiation.validation
      BY <2>6
    <3> QED BY <1>1, <2>5, <3>1, <3>2, StaysNumbered
  <2>8. \A v \in d.stretched : d.requests[v].presented
    <3>1. ASSUME NEW v \in d.stretched
          PROVE  d.requests[v].presented
      <4>1. v \in Windows
        BY <2>5, ControlParts
      <4> QED BY <2>3, <2>6, <3>1, <4>1 DEF Sound
    <3> QED BY <3>1
  <2>9. Quietly(c, d)
    BY <2>2, <2>5, <2>6, <2>7, <2>8 DEF Quietly, Sound, NoneAsked, LooksKept, request
  <2>10. Requested(d) = Requested(c)
    BY <2>2, <2>4, <2>6 DEF Requested, request
  <2> QED BY <2>9, <2>10 DEF d
<1> QED BY <1>2, <1>3

LEMMA DamageIsQuiet ==
    ASSUME NEW c, Sound(c), NEW w \in Windows, NEW s \in RealSize
    PROVE  Quietly(c, Damaged(c, w, s))
<1> DEFINE noted == [c EXCEPT !.waiting = @ \ {w}]
           seen == IF w \in c.waiting THEN Schedule(noted, w) ELSE c
           bare == [seen EXCEPT !.stretched = @ \ {w}]
<1>1. Quietly(c, noted)
  <2>1. c \in Controls
    BY DEF Sound
  <2>2. noted \in Controls
    BY <2>1 DEF Controls
  <2>3. /\ noted.requests = c.requests /\ noted.withdrawals = c.withdrawals
        /\ noted.timers = c.timers /\ noted.size = c.size
        /\ noted.negotiation = c.negotiation /\ noted.stretched = c.stretched
    BY <2>1 DEF Controls
  <2> HIDE DEF noted
  <2> QED BY <2>2, <2>3, NothingTouched
<1>2. Damaged(c, w, s) = Present(bare, w, s)
  BY DEF Damaged
<1> HIDE DEF noted
<1>3. Quietly(noted, Schedule(noted, w))
  BY <1>1, Scheduled DEF Quietly
<1>4. Quietly(c, seen)
  BY <1>1, <1>3, QuietAtAll, QuietOn
<1> HIDE DEF seen
<1>5. Sound(seen) /\ seen \in Controls
  BY <1>4 DEF Quietly, Sound
<1>6. Quietly(seen, bare)
  <2>1. bare \in Controls
    BY <1>5 DEF Controls
  <2>2. /\ bare.requests = seen.requests /\ bare.withdrawals = seen.withdrawals
        /\ bare.timers = seen.timers /\ bare.size = seen.size
        /\ bare.negotiation = seen.negotiation /\ bare.stretched \subseteq seen.stretched
    BY <1>5 DEF Controls
  <2> HIDE DEF bare
  <2> QED BY <1>5, <2>1, <2>2, NothingTouched
<1> HIDE DEF bare
<1>7. Quietly(bare, Present(bare, w, s))
  BY <1>6, Presented DEF Quietly
<1> QED BY <1>2, <1>4, <1>6, <1>7, QuietOn

LEMMA Judged ==
    ASSUME NEW c, Sound(c), OneRequested(c), NEW judged,
           judged = [c EXCEPT !.requests =
               [w \in Windows |-> IF w \in Requested(c)
                                  THEN [c.requests[w] EXCEPT !.answered = TRUE]
                                  ELSE c.requests[w]]]
    PROVE  Quietly(c, judged) /\ OneRequested(judged)
<1> DEFINE R == [w \in Windows |-> IF w \in Requested(c)
                                   THEN [c.requests[w] EXCEPT !.answered = TRUE]
                                   ELSE c.requests[w]]
<1>1. c \in Controls /\ Numbered(c)
  BY DEF Sound
<1>2. ASSUME NEW w \in Windows
      PROVE  /\ R[w] \in Requests /\ R[w].verdict = c.requests[w].verdict
             /\ R[w].presented = c.requests[w].presented
             /\ R[w] # NoRequest <=> c.requests[w] # NoRequest
  <2> DEFINE request == c.requests[w]
             answered == [request EXCEPT !.answered = TRUE]
  <2>1. request \in Requests
    BY <1>1, ControlParts
  <2>2. R[w] = IF request # NoRequest THEN answered ELSE request
    BY DEF Requested
  <2> HIDE DEF request, R
  <2>3. CASE request = NoRequest
    BY <2>1, <2>2, <2>3 DEF request
  <2>4. CASE request # NoRequest
    <3>1. request \in Asked
      BY <2>1, <2>4, RequestParts
    <3>2. /\ answered \in Requests /\ answered # NoRequest
          /\ answered.verdict = request.verdict /\ answered.presented = request.presented
      BY <3>1, RequestAnswered
    <3> HIDE DEF answered
    <3> QED BY <2>2, <2>4, <3>2 DEF request
  <2> QED BY <2>3, <2>4
<1>3. R \in [Windows -> Requests]
  BY <1>2
<1>4. judged = [c EXCEPT !.requests = R]
  OBVIOUS
<1> HIDE DEF R
<1>5. judged \in Controls
  BY <1>1, <1>3, <1>4 DEF Controls
<1>6. /\ judged.requests = R /\ judged.withdrawals = c.withdrawals /\ judged.timers = c.timers
      /\ judged.size = c.size /\ judged.negotiation = c.negotiation
      /\ judged.stretched = c.stretched
  BY <1>1, <1>4 DEF Controls
<1>7. Numbered(judged)
  <2>1. \A v \in Windows : judged.requests[v].verdict \in {c.requests[v].verdict, 0, 0}
    BY <1>2, <1>6
  <2>2. /\ judged.timers \ c.timers = {}
        /\ judged.negotiation.validation = c.negotiation.validation
    BY <1>6
  <2> QED BY <1>1, <1>5, <2>1, <2>2, StaysNumbered
<1>8. \A v \in judged.stretched : judged.requests[v].presented
  <2>1. \A v \in judged.stretched : v \in Windows /\ v \in c.stretched
    BY <1>5, <1>6, ControlParts
  <2> QED BY <1>2, <1>6, <2>1 DEF Sound
<1>9. Quietly(c, judged)
  BY <1>2, <1>5, <1>6, <1>7, <1>8 DEF Quietly, Sound, NoneAsked, LooksKept
<1>10. OneRequested(judged)
  BY <1>9, StaysOne DEF Quietly
<1> QED BY <1>9, <1>10

LEMMA RetriedOrRefused ==
    ASSUME NEW c, Sound(c), OneRequested(c)
    PROVE  Quietly(c, RetryOrRefuse(c))
<1> DEFINE N == [c.negotiation EXCEPT !.retried = TRUE]
           noted == [c EXCEPT !.negotiation = N]
           again == RestoreEach(noted, Requested(c))
           later == {Timer("retry", w, c.generation, 0) : w \in Requested(c)}
           d == [again EXCEPT !.timers = @ \cup later]
<1>1. RetryOrRefuse(c) \in {Refuse(c), d}
  BY DEF RetryOrRefuse
<1>2. Quietly(c, Refuse(c))
  BY Refused
<1>3. c \in Controls /\ c.negotiation \in Negotiations /\ c.generation \in Nat
  BY ControlParts DEF Sound
<1>4. N \in Negotiations /\ N.validation = c.negotiation.validation
  BY <1>3 DEF Negotiations
<1> HIDE DEF N
<1>5. Quietly(c, noted) /\ noted.requests = c.requests
  BY <1>4, NegotiationSet
<1> HIDE DEF noted
<1>6. Requested(noted) = Requested(c) /\ Sound(noted) /\ OneRequested(noted)
  BY <1>5 DEF Requested, OneRequested, Quietly
<1>7. Quietly(c, again)
  BY <1>5, <1>6, AllRestored, QuietOn
<1> HIDE DEF again
<1>8. later \subseteq Timers /\ \A t \in later : t.token = c.generation /\ t.due = 0
  BY <1>3 DEF Timer, Timers, OfWindow, Requested
<1> HIDE DEF later
<1>9. Quietly(again, d)
  <2>1. again \in Controls /\ Sound(again)
    BY <1>7 DEF Quietly, Sound
  <2>2. d \in Controls
    BY <1>8, <2>1 DEF Controls
  <2>3. /\ d.requests = again.requests /\ d.negotiation = again.negotiation
        /\ d.stretched = again.stretched /\ d.withdrawals = again.withdrawals
        /\ d.timers = again.timers \cup later /\ d.size = again.size
    BY <2>1 DEF Controls
  <2> HIDE DEF d
  <2> QED BY <1>3, <1>8, <2>1, <2>2, <2>3, TimersSet
<1> HIDE DEF d
<1> QED BY <1>1, <1>2, <1>7, <1>9, QuietOn

LEMMA Validated ==
    ASSUME NEW c, Sound(c), OneRequested(c)
    PROVE  Quietly(c, Validate(c))
<1> DEFINE judged == [c EXCEPT !.requests =
               [w \in Windows |-> IF w \in Requested(c)
                                  THEN [c.requests[w] EXCEPT !.answered = TRUE]
                                  ELSE c.requests[w]]]
           N == [judged.negotiation EXCEPT !.window = NoWindow, !.count = 0]
           stands == [judged EXCEPT !.negotiation = N]
<1>1. Validate(c) \in {RetryOrRefuse(judged), c, stands}
  BY DEF Validate
<1>2. Quietly(c, judged) /\ OneRequested(judged)
  BY Judged
<1> HIDE DEF judged
<1>3. Sound(judged)
  BY <1>2 DEF Quietly
<1>4. Quietly(c, RetryOrRefuse(judged))
  BY <1>2, <1>3, RetriedOrRefused, QuietOn
<1>5. Quietly(c, stands)
  <2> DEFINE M == judged.negotiation
  <2>1. M \in Negotiations
    BY <1>3, ControlParts DEF Sound
  <2> HIDE DEF M
  <2>2. N = [M EXCEPT !.window = NoWindow, !.count = 0]
    BY DEF M
  <2> HIDE DEF N
  <2>3. N \in Negotiations /\ N.validation = M.validation
    BY <2>1, <2>2 DEF Negotiations
  <2>4. Quietly(judged, stands)
    BY <1>3, <2>3, NegotiationSet DEF M
  <2> QED BY <1>2, <2>4, QuietOn
<1> HIDE DEF stands
<1> QED BY <1>1, <1>4, <1>5, QuietAtAll

\* reconfigure()'s loop.
ReleaseEach(c, S) == FoldSet(LAMBDA w, d : Release(d, w), c, S)

LEMMA ReleaseNone ==
    ASSUME NEW c
    PROVE  ReleaseEach(c, {}) = c
<1> DEFINE Turns(each) ==
        each = [S \in SUBSET {} |->
                   IF S = {} THEN c
                   ELSE LET x == CHOOSE x \in S : TRUE IN Release(each[S \ {x}], x)]
           each == CHOOSE each : Turns(each)
<1>1. ReleaseEach(c, {}) = each[{}]
  BY DEF ReleaseEach, FoldSet, MapThenFoldSet
<1>2. Turns([S \in SUBSET {} |-> c])
  <2>1. \A S \in SUBSET {} : S = {}
    OBVIOUS
  <2> QED BY <2>1
<1>3. Turns(each)
  <2> HIDE DEF Turns
  <2> QED BY <1>2
<1> HIDE DEF each
<1> QED BY <1>1, <1>3

LEMMA ReleaseOne ==
    ASSUME NEW c, NEW w
    PROVE  ReleaseEach(c, {w}) = Release(c, w)
<1> DEFINE Turns(each) ==
        each = [S \in SUBSET {w} |->
                   IF S = {} THEN c
                   ELSE LET x == CHOOSE x \in S : TRUE IN Release(each[S \ {x}], x)]
           each == CHOOSE each : Turns(each)
           turned == [S \in SUBSET {w} |-> IF S = {} THEN c ELSE Release(c, w)]
<1>1. ReleaseEach(c, {w}) = each[{w}]
  BY DEF ReleaseEach, FoldSet, MapThenFoldSet
<1>2. Turns(turned)
  <2>1. turned[{}] = c /\ turned = [S \in SUBSET {w} |-> turned[S]]
    OBVIOUS
  <2>2. ASSUME NEW S \in SUBSET {w}
        PROVE  turned[S] = IF S = {} THEN c
                           ELSE LET x == CHOOSE x \in S : TRUE IN Release(turned[S \ {x}], x)
    BY <2>1, OnlyChoice
  <2> HIDE DEF turned
  <2> QED BY <2>1, <2>2
<1>3. Turns(each)
  <2> HIDE DEF Turns
  <2> QED BY <1>2
<1>4. each[{w}] = Release(each[{}], w) /\ each[{}] = c
  <2> HIDE DEF each
  <2>1. {w} # {} /\ (CHOOSE x \in {w} : TRUE) = w /\ {w} \ {w} = {}
    BY OnlyChoice
  <2>2. each[{w}] = LET x == CHOOSE x \in {w} : TRUE IN Release(each[{w} \ {x}], x)
    BY <1>3, <2>1
  <2>3. each[{}] = c
    BY <1>3
  <2> QED BY <2>1, <2>2, <2>3
<1> HIDE DEF each
<1> QED BY <1>1, <1>4

LEMMA AllReleased ==
    ASSUME NEW c, Sound(c), OneRequested(c)
    PROVE  Quietly(c, ReleaseEach(c, Requested(c)))
<1>1. CASE Requested(c) = {}
  BY <1>1, ReleaseNone, QuietAtAll
<1>2. ASSUME NEW w \in Windows, Requested(c) = {w}
      PROVE  Quietly(c, ReleaseEach(c, Requested(c)))
  BY <1>2, ReleaseOne, Released
<1> QED BY <1>1, <1>2, OneOrNone

LEMMA ReconfiguredQuietly ==
    ASSUME NEW c, Sound(c), OneRequested(c)
    PROVE  /\ Quietly(c, Reconfigured(c))
           /\ \A w \in Mapped : Timer("apply", w, 0, 0) \in Reconfigured(c).timers
<1> DEFINE released == ReleaseEach(c, Requested(c))
           looks == {Timer("apply", w, 0, 0) : w \in Mapped}
           fresh == Fresh
           d == Reconfigured(c)
           started == [released EXCEPT !.negotiation = fresh]
<1>1. d = [released EXCEPT !.generation = @ + 1, !.negotiation = fresh, !.waiting = {},
                           !.overdue = {}, !.timers = @ \cup looks]
  BY DEF Reconfigured, ReleaseEach
<1>2. Quietly(c, released)
  BY AllReleased
<1> HIDE DEF released
<1>3. fresh \in Negotiations /\ fresh.validation = 0
  BY DEF Fresh, Negotiations
<1> HIDE DEF fresh
<1>4. Quietly(released, started) /\ started.requests = released.requests
      /\ started.negotiation = fresh /\ started.withdrawals = released.withdrawals
      /\ started.timers = released.timers
  BY <1>2, <1>3, NegotiationSet DEF Quietly
<1>5. looks \subseteq Timers /\ \A t \in looks : t.token = 0 /\ t.due = 0
  BY DEF Timer, Timers, OfWindow, Mapped
<1> HIDE DEF looks
<1>6. released \in Controls /\ released.generation + 1 \in Nat
  BY <1>2, ControlParts DEF Quietly, Sound
<1>7. /\ started.size = released.size /\ started.stretched = released.stretched
  BY <1>6 DEF Controls
<1> HIDE DEF started, d
<1>8. d \in Controls
  BY <1>1, <1>3, <1>5, <1>6 DEF Controls
<1>9. /\ d.requests = released.requests /\ d.negotiation = fresh
      /\ d.stretched = released.stretched /\ d.withdrawals = released.withdrawals
      /\ d.timers = released.timers \cup looks /\ d.size = released.size
  BY <1>1, <1>6 DEF Controls
<1>10. Quietly(started, d)
  <2>1. Sound(started)
    BY <1>4 DEF Quietly
  <2> QED BY <1>4, <1>5, <1>7, <1>8, <1>9, <2>1, TimersSet
<1>11. Quietly(c, d)
  BY <1>2, <1>4, <1>10, QuietOn
<1> QED BY <1>9, <1>11 DEF d, looks

-----------------------------------------------------------------------------
(* X events.                                                               *)

LEMMA NotedQuietly ==
    ASSUME NEW c, Sound(c), NEW w \in Windows, NEW new \in BOOLEAN
    PROVE  Quietly(c, ModeNoted(c, w, new))
<1> DEFINE request == c.requests[w]
           answer == request # NoRequest /\ ~request.answered /\ new /\ mode = request.size
           r == [request EXCEPT !.answered = @ \/ answer]
           answers == IF answer /\ c.releases[w] # 0
                      THEN {Timer("answer", w, c.releases[w], 0)} ELSE {}
           ends == IF c.withdrawals[w] # 0
                   THEN {Timer("withdrawn", w, c.withdrawals[w], 0)} ELSE {}
           e == [c EXCEPT !.timers = @ \cup answers]
           f == [e EXCEPT !.timers = @ \cup ends]
           both == answers \cup ends
           d == [c EXCEPT !.requests[w] = r, !.timers = @ \cup both]
<1>1. /\ c \in Controls /\ Numbered(c) /\ request \in Requests
      /\ c.releases[w] \in Nat /\ c.withdrawals[w] \in Nat
  BY ControlParts DEF Sound
<1>2. ModeNoted(c, w, new) \in {c, d}
  <2>1. (c.timers \cup answers) \cup ends = c.timers \cup both
    OBVIOUS
  <2>2. \/ ModeNoted(c, w, new) = c
        \/ ModeNoted(c, w, new) = [c EXCEPT !.requests[w].answered = @ \/ answer,
                                            !.timers = (@ \cup answers) \cup ends]
    BY DEF ModeNoted
  <2> HIDE DEF both, answers, ends, answer
  <2> QED BY <2>1, <2>2
<1>3. /\ answers \subseteq Timers /\ \A t \in answers : t.token = c.releases[w] /\ t.due = 0
  BY <1>1 DEF Timer, Timers, OfWindow
<1>4. /\ ends \subseteq Timers /\ \A t \in ends : t.token = c.withdrawals[w] /\ t.due = 0
  BY <1>1 DEF Timer, Timers, OfWindow
<1>5. /\ r \in Requests /\ r.verdict = request.verdict /\ r.presented = request.presented
      /\ r # NoRequest => request # NoRequest
  <2>1. answer \in BOOLEAN /\ (answer => request # NoRequest)
    OBVIOUS
  <2> HIDE DEF request, answer
  <2>2. CASE request = NoRequest
    <3>1. (request.answered \/ answer) = FALSE
      BY <2>1, <2>2, NoRequestParts
    <3>2. r = [NoRequest EXCEPT !.answered = FALSE]
      BY <2>2, <3>1
    <3>3. [NoRequest EXCEPT !.answered = FALSE] = NoRequest
      <4> DEFINE bare == NoRequest
      <4>1. bare \in [size : {NoSize}, answered : BOOLEAN, presented : BOOLEAN, verdict : Nat]
        BY DEF NoRequest
      <4>2. bare.answered = FALSE
        BY NoRequestParts
      <4> HIDE DEF bare
      <4>3. [bare EXCEPT !.answered = FALSE] = bare
        BY <4>1, <4>2
      <4> QED BY <4>3 DEF bare
    <3> QED BY <1>1, <2>2, <3>2, <3>3
  <2>3. CASE request # NoRequest
    <3> DEFINE b == request.answered \/ answer
    <3>1. request \in Asked
      BY <1>1, <2>3, RequestParts
    <3>2. b \in BOOLEAN
      BY <2>1, <3>1 DEF Asked
    <3>3. r = [request EXCEPT !.answered = b]
      OBVIOUS
    <3> HIDE DEF b, r
    <3> QED BY <2>3, <3>1, <3>2, <3>3, RequestAnswered
  <2> QED BY <2>2, <2>3
<1> HIDE DEF answers, ends, r, answer
<1>6. Quietly(c, e) /\ e.timers = c.timers \cup answers /\ e.requests = c.requests
      /\ e.withdrawals = c.withdrawals
  <2>1. e \in Controls
    BY <1>1, <1>3 DEF Controls
  <2>2. /\ e.requests = c.requests /\ e.negotiation = c.negotiation
        /\ e.stretched = c.stretched /\ e.withdrawals = c.withdrawals
        /\ e.timers = c.timers \cup answers /\ e.size = c.size
    BY <1>1 DEF Controls
  <2> HIDE DEF e
  <2> QED BY <1>1, <1>3, <2>1, <2>2, TimersSet
<1>7. Quietly(e, f) /\ f.timers = c.timers \cup both /\ f.requests = c.requests
      /\ f.withdrawals = c.withdrawals
  <2>1. e \in Controls
    BY <1>6 DEF Quietly, Sound
  <2> HIDE DEF e
  <2>2. f \in Controls
    BY <1>4, <2>1 DEF Controls
  <2>3. /\ f.requests = e.requests /\ f.negotiation = e.negotiation
        /\ f.stretched = e.stretched /\ f.withdrawals = e.withdrawals
        /\ f.timers = e.timers \cup ends /\ f.size = e.size
    BY <2>1 DEF Controls
  <2> HIDE DEF f
  <2>4. Quietly(e, f)
    BY <1>1, <1>4, <1>6, <2>2, <2>3, TimersSet DEF Quietly
  <2> QED BY <1>6, <2>3, <2>4
<1>8. Quietly(c, f)
  BY <1>6, <1>7, QuietOn
<1>9. f \in Controls /\ Numbered(f) /\ Sound(f)
  BY <1>8 DEF Quietly, Sound
<1>10. f = [c EXCEPT !.timers = @ \cup both]
  BY <1>1 DEF Controls
<1> HIDE DEF e, f, both
<1>11. d \in Controls
  BY <1>1, <1>5, <1>7, <1>9, <1>10 DEF Controls
<1>12. /\ d.timers = f.timers /\ d.withdrawals = f.withdrawals /\ d.size = f.size
       /\ d.negotiation = f.negotiation /\ d.stretched = f.stretched
       /\ d.requests[w] = r /\ \A v \in Windows \ {w} : d.requests[v] = f.requests[v]
  BY <1>1, <1>7, <1>10 DEF Controls
<1> HIDE DEF d
<1>13. Numbered(d)
  <2>1. \A v \in Windows : d.requests[v].verdict \in {f.requests[v].verdict, 0, 0}
    BY <1>5, <1>7, <1>12
  <2>2. d.timers \ f.timers = {} /\ d.negotiation.validation = f.negotiation.validation
    BY <1>12
  <2> QED BY <1>9, <1>11, <2>1, <2>2, StaysNumbered
<1>14. \A v \in d.stretched : d.requests[v].presented
  <2>1. ASSUME NEW v \in d.stretched
        PROVE  d.requests[v].presented
    <3>1. v \in Windows /\ f.requests[v].presented
      BY <1>9, <1>12, ControlParts DEF Sound
    <3> QED BY <1>5, <1>7, <1>12, <3>1
  <2> QED BY <2>1
<1>15. Quietly(f, d)
  <2>1. \A v \in Windows : d.requests[v] # NoRequest => f.requests[v] # NoRequest
    BY <1>5, <1>7, <1>12
  <2> QED BY <1>11, <1>12, <1>13, <1>14, <2>1 DEF Quietly, Sound, NoneAsked, LooksKept
<1>16. Quietly(c, d)
  BY <1>8, <1>15, QuietOn
<1> QED BY <1>2, <1>16, QuietAtAll

LEMMA SizedQuietly ==
    ASSUME NEW c, Sound(c), NEW w \in Windows, mode \in Sizes \cup {NoSize}
    PROVE  Quietly(c, SizedByMode(c, w))
<1> DEFINE s == IF mode = NoSize THEN Full ELSE mode
<1>1. s \in RealSize
  BY DEF RealSize
<1>2. SizedByMode(c, w) \in {c, Configure(c, w, s)}
  BY DEF SizedByMode
<1> HIDE DEF s
<1>3. Quietly(c, Configure(c, w, s))
  BY <1>1, Configured, SizeOnlyIsQuiet
<1> QED BY <1>2, <1>3, QuietAtAll

LEMMA ToggledQuietly ==
    ASSUME NEW c, Sound(c), NEW w \in Windows, NEW enter \in BOOLEAN
    PROVE  /\ Quietly(c, Toggled(c, w, enter))
           /\ Toggled(c, w, enter).requests = c.requests
           /\ Toggled(c, w, enter).withdrawals = c.withdrawals
           /\ Timer("apply", w, 0, 0) \in Toggled(c, w, enter).timers
<1> DEFINE s == IF enter THEN Full ELSE Windowed
           sized == Configure(c, w, s)
<1>1. s \in RealSize
  BY DEF RealSize
<1>2. Toggled(c, w, enter) = Schedule(sized, w)
  BY DEF Toggled
<1> HIDE DEF s
<1>3. SizeOnly(c, sized)
  BY <1>1, Configured
<1> HIDE DEF sized
<1>4. Sound(sized) /\ sized.requests = c.requests /\ sized.withdrawals = c.withdrawals
  BY <1>3 DEF SizeOnly
<1> QED BY <1>2, <1>3, <1>4, Scheduled, SizeOnlyIsQuiet, QuietOn

\* A window that asks for fullscreen.
LEMMA FullscreenTouches ==
    ASSUME NEW c, Sound(c), OneRequested(c), NEW w \in Windows, wanted \in Sizes \cup {NoSize}
    PROVE  LET d == FullscreenAsked(c, w)
           IN  /\ Touching(c, d, w)
               /\ c.requests[w] = NoRequest /\ d.requests[w] # NoRequest
                    => d.withdrawals[w] = 0
<1> DEFINE s == AskedSize(c)
           begun == Begin(c, w, s)
           sized == Configure(begun, w, s)
           d == FullscreenAsked(c, w)
<1>1. \/ /\ c.withdrawals[w] # 0 \/ s = NoSize
         /\ d \in {c, Toggled(c, w, TRUE)}
      \/ /\ c.withdrawals[w] = 0 /\ s # NoSize
         /\ d \in {begun, Toggled(begun, w, TRUE), sized, Schedule(sized, w)}
  BY DEF FullscreenAsked
<1>2. s \in Sizes \cup {NoSize}
  BY DEF AskedSize
<1> HIDE DEF d, s
<1>3. CASE d \in {c, Toggled(c, w, TRUE)}
  <2>1. Quietly(c, d) /\ d.requests = c.requests
    BY <1>3, QuietAtAll, ToggledQuietly
  <2> QED BY <2>1, QuietTouches DEF Asking, d
<1>4. CASE /\ c.withdrawals[w] = 0 /\ s # NoSize
           /\ d \in {begun, Toggled(begun, w, TRUE), sized, Schedule(sized, w)}
  <2>1. s \in Sizes /\ s \in RealSize
    BY <1>2, <1>4 DEF RealSize
  <2>2. Touching(c, begun, w) /\ (c.requests[w] = NoRequest => Asking(c, begun, w))
    BY <2>1, BeginTouches
  <2> HIDE DEF begun
  <2>3. Sound(begun)
    BY <2>2 DEF Touching
  <2>4. Quietly(begun, begun) /\ Quietly(begun, Toggled(begun, w, TRUE)) /\ Quietly(begun, sized)
    BY <2>1, <2>3, QuietAtAll, ToggledQuietly, Configured, SizeOnlyIsQuiet
  <2> HIDE DEF sized
  <2>5. Quietly(begun, Schedule(sized, w))
    <3>1. Sound(sized)
      BY <2>4 DEF Quietly
    <3>2. Quietly(sized, Schedule(sized, w))
      BY <3>1, Scheduled
    <3> QED BY <2>4, <3>2, QuietOn
  <2>6. Quietly(begun, d)
    BY <1>4, <2>4, <2>5
  <2>7. Touching(c, d, w)
    <3>1. Touching(begun, d, w)
      BY <2>6, QuietTouches DEF Asking
    <3> QED BY <2>2, <3>1, TouchingOn
  <2>8. c.requests[w] = NoRequest => Asking(c, d, w)
    BY <2>2, <2>6, AskingThenQuiet
  <2> QED BY <1>4, <2>7, <2>8 DEF Asking, d
<1> QED BY <1>1, <1>3, <1>4

-----------------------------------------------------------------------------
(* The invariant.                                                          *)

Events == [kind : {"state", "mode", "resize"}, window : Windows, value : BOOLEAN]

WorldOK ==
    /\ life \in [Windows -> {"none", "mapped", "gone"}]
    /\ fullscreen \in [Windows -> BOOLEAN] /\ draws \in [Windows -> AnySize]
    /\ mode \in Sizes \cup {NoSize} /\ wanted \in Sizes \cup {NoSize}
    /\ \A v, w \in Mapped : v = w
    /\ \A w \in Windows : fullscreen[w] => life[w] = "mapped"

ControlOK ==
    /\ Sound(control)
    /\ \A w \in Windows : control.requests[w] # NoRequest => life[w] = "mapped"

SizesOK == \A w \in Windows : life[w] = "mapped" => draws[w] # NoSize /\ control.size[w] # NoSize

EventsOK ==
    /\ events \in Seq(Events)
    /\ \A i \in 1..Len(events) : life[events[i].window] = "mapped"

ControlInv == WorldOK /\ ControlOK /\ SizesOK /\ EventsOK

\* A client that asks again for the fullscreen it has, and whoever acts before KWin
\* handled what came before, break the promise that nothing is asked meanwhile:
\* what holds otherwise.
Calm == "reassert" \notin Moves /\ "hasty" \notin Moves

\* A window that is out of fullscreen with a request still will be looked at.
LookedAt ==
    \A w \in Windows : ~fullscreen[w] /\ control.requests[w] # NoRequest
        => Timer("apply", w, 0, 0) \in control.timers

\* A message that asks for fullscreen finds the window bare.
EntersBare ==
    \A i \in 1..Len(events) : events[i].kind = "state" /\ events[i].value =>
        ~fullscreen[events[i].window] /\ control.requests[events[i].window] = NoRequest

OneState ==
    \A i, j \in 1..Len(events) : events[i].kind = "state" /\ events[j].kind = "state" => i = j

CalmInv == NothingAskedMeanwhile /\ LookedAt /\ EntersBare /\ OneState

-----------------------------------------------------------------------------
(* The queue of events.                                                    *)

LEMMA FirstEvent ==
    ASSUME EventsOK, events # <<>>
    PROVE  /\ Head(events) \in Events /\ life[Head(events).window] = "mapped"
           /\ Head(events) = events[1] /\ 1 \in 1..Len(events)
           /\ Tail(events) \in Seq(Events) /\ Len(Tail(events)) = Len(events) - 1
           /\ \A i \in 1..Len(Tail(events)) :
                /\ i + 1 \in 1..Len(events) /\ Tail(events)[i] = events[i + 1]
                /\ life[Tail(events)[i].window] = "mapped"
<1>1. events \in Seq(Events) /\ Len(events) \in Nat /\ Len(events) # 0
  BY DEF EventsOK
<1>2. /\ Head(events) = events[1] /\ Head(events) \in Events /\ 1 \in 1..Len(events)
      /\ Tail(events) \in Seq(Events) /\ Len(Tail(events)) = Len(events) - 1
  BY <1>1
<1>3. \A i \in 1..Len(Tail(events)) : i + 1 \in 1..Len(events) /\ Tail(events)[i] = events[i + 1]
  BY <1>1, <1>2
<1> QED BY <1>2, <1>3 DEF EventsOK

\* The events left once the first one was handled.
LEMMA EventsLeft ==
    ASSUME EventsOK, events # <<>>, events' = Tail(events), UNCHANGED life
    PROVE  EventsOK'
BY FirstEvent DEF EventsOK

LEMMA OneStateLeft ==
    ASSUME EventsOK, OneState, events # <<>>, events' = Tail(events)
    PROVE  /\ OneState'
           /\ Head(events).kind = "state" =>
                \A i \in 1..Len(events') : events'[i].kind # "state"
<1>1. \A i \in 1..Len(events') : i + 1 \in 1..Len(events) /\ events'[i] = events[i + 1]
  BY FirstEvent
<1>2. OneState'
  <2>1. ASSUME NEW i \in 1..Len(events'), NEW j \in 1..Len(events'),
               events'[i].kind = "state", events'[j].kind = "state"
        PROVE  i = j
    <3>1. i + 1 = j + 1
      BY <1>1, <2>1 DEF OneState
    <3> QED BY <3>1
  <2> QED BY <2>1 DEF OneState
<1>3. ASSUME Head(events).kind = "state", NEW i \in 1..Len(events')
      PROVE  events'[i].kind # "state"
  <2>1. events[1].kind = "state" /\ 1 \in 1..Len(events) /\ i + 1 # 1
    BY <1>3, FirstEvent
  <2> QED BY <1>1, <2>1 DEF OneState
<1> QED BY <1>2, <1>3

LEMMA OneMore ==
    ASSUME EventsOK, NEW e \in Events, life[e.window] = "mapped",
           events' = Append(events, e), UNCHANGED life
    PROVE  EventsOK'
<1>1. events \in Seq(Events) /\ Len(events) \in Nat
  BY DEF EventsOK
<1>2. events' \in Seq(Events) /\ Len(events') = Len(events) + 1
  BY <1>1
<1>3. \A i \in 1..Len(events') : i \in 1..Len(events) \/ events'[i] = e
  BY <1>1, <1>2
<1>4. \A i \in 1..Len(events) : events'[i] = events[i]
  BY <1>1
<1> QED BY <1>2, <1>3, <1>4 DEF EventsOK

LEMMA SetInSequence ==
    ASSUME NEW S, IsFiniteSet(S)
    PROVE  SetToSeq(S) \in Seq(S)
<1>1. /\ Cardinality(S) \in Nat
      /\ \E f \in [1..Cardinality(S) -> S] : IsInjective(f)
  <2>1. Cardinality(S) \in Nat /\ ExistsBijection(1..Cardinality(S), S)
    BY FS_CardinalityType
  <2>2. PICK f : f \in Bijection(1..Cardinality(S), S)
    BY <2>1 DEF ExistsBijection
  <2>3. f \in [1..Cardinality(S) -> S] /\ IsInjective(f)
    BY <2>2 DEF Bijection, Injection, IsInjective
  <2> QED BY <2>1, <2>3
<1>2. SetToSeq(S) \in [1..Cardinality(S) -> S]
  BY <1>1 DEF SetToSeq
<1> QED BY <1>1, <1>2

\* Xwayland notes a mode on the one window there is.
LEMMA ModeEvents ==
    ASSUME WorldOK, NEW m
    PROVE  LET noted == SetToSeq({[kind |-> "mode", window |-> w, value |-> m # NoSize] :
                                      w \in Mapped})
           IN  /\ noted \in Seq(Events)
               /\ \A i \in 1..Len(noted) :
                    noted[i].kind = "mode" /\ life[noted[i].window] = "mapped"
<1> DEFINE set == m # NoSize
           event(w) == [kind |-> "mode", window |-> w, value |-> set]
           S == {event(w) : w \in Mapped}
           noted == SetToSeq(S)
<1>1. \A e \in S : e \in Events /\ e.kind = "mode" /\ life[e.window] = "mapped"
  <2>1. set \in BOOLEAN
    OBVIOUS
  <2> HIDE DEF set
  <2>2. ASSUME NEW w \in Mapped
        PROVE  /\ event(w) \in Events /\ event(w).kind = "mode"
               /\ event(w).window = w /\ life[w] = "mapped"
    BY <2>1 DEF Events, Mapped
  <2> HIDE DEF event
  <2> QED BY <2>2
<1>2. S = {} \/ \E e : S = {e}
  <2>1. \A v, w \in Mapped : v = w
    BY DEF WorldOK
  <2>2. CASE Mapped = {}
    BY <2>2
  <2>3. CASE Mapped # {}
    <3>1. PICK w : w \in Mapped
      BY <2>3
    <3>2. Mapped = {w}
      BY <2>1, <3>1
    <3> QED BY <3>2
  <2> QED BY <2>2, <2>3
<1>3. IsFiniteSet(S)
  <2> HIDE DEF S
  <2>1. CASE S = {}
    BY <2>1, FS_EmptySet
  <2>2. CASE \E e : S = {e}
    BY <2>2, FS_Singleton, Zenon
  <2> QED BY <1>2, <2>1, <2>2
<1> HIDE DEF S
<1>4. noted \in Seq(S)
  BY <1>3, SetInSequence
<1> HIDE DEF noted
<1>5. noted \in Seq(Events) /\ \A i \in 1..Len(noted) : noted[i] \in S
  BY <1>1, <1>4
<1> QED BY <1>1, <1>5 DEF noted, S

LEMMA ModeSet ==
    ASSUME WorldOK, EventsOK, NEW m, SetsMode(m), UNCHANGED life
    PROVE  /\ EventsOK'
           /\ OneState => OneState'
           /\ \A i \in 1..Len(events') : events'[i].kind = "state" =>
                i \in 1..Len(events) /\ events'[i] = events[i]
<1> DEFINE noted == SetToSeq({[kind |-> "mode", window |-> w, value |-> m # NoSize] :
                                  w \in Mapped})
<1>1. events' = events \/ events' = events \o noted
  BY DEF SetsMode
<1>2. noted \in Seq(Events) /\ \A i \in 1..Len(noted) :
          noted[i].kind = "mode" /\ life[noted[i].window] = "mapped"
  BY ModeEvents
<1> HIDE DEF noted
<1>3. events \in Seq(Events) /\ Len(events) \in Nat /\ Len(noted) \in Nat
  BY <1>2 DEF EventsOK
<1>4. /\ events' \in Seq(Events)
      /\ \A i \in 1..Len(events') :
            \/ i \in 1..Len(events) /\ events'[i] = events[i]
            \/ events'[i].kind = "mode" /\ life[events'[i].window] = "mapped"
  <2>1. CASE events' = events
    BY <1>3, <2>1
  <2>2. CASE events' = events \o noted
    <3>1. events' \in Seq(Events) /\ Len(events') = Len(events) + Len(noted)
      BY <1>2, <1>3, <2>2
    <3>2. \A i \in 1..Len(events) : events'[i] = events[i]
      BY <1>2, <1>3, <2>2
    <3>3. ASSUME NEW i \in 1..Len(events'), i \notin 1..Len(events)
          PROVE  i - Len(events) \in 1..Len(noted) /\ events'[i] = noted[i - Len(events)]
      BY <1>2, <1>3, <2>2, <3>1, <3>3
    <3>4. ASSUME NEW i \in 1..Len(events')
          PROVE  \/ i \in 1..Len(events) /\ events'[i] = events[i]
                 \/ events'[i].kind = "mode" /\ life[events'[i].window] = "mapped"
      <4>1. CASE i \in 1..Len(events)
        BY <3>2, <4>1
      <4>2. CASE i \notin 1..Len(events)
        BY <1>2, <3>3, <4>2
      <4> QED BY <4>1, <4>2
    <3> QED BY <3>1, <3>4
  <2> QED BY <1>1, <2>1, <2>2
<1>5. EventsOK'
  BY <1>4 DEF EventsOK
<1>6. \A i \in 1..Len(events') : events'[i].kind = "state" =>
          i \in 1..Len(events) /\ events'[i] = events[i]
  BY <1>4
<1>7. OneState => OneState'
  BY <1>6 DEF OneState
<1> QED BY <1>5, <1>6, <1>7

-----------------------------------------------------------------------------
(* What a step keeps.                                                      *)

LEMMA OneAtATime ==
    ASSUME ControlInv
    PROVE  OneRequested(control) /\ Sound(control)
<1>1. \A w \in Requested(control) : w \in Mapped
  BY DEF ControlInv, ControlOK, Requested, Mapped
<1> QED BY <1>1 DEF ControlInv, ControlOK, WorldOK, OneRequested

LEMMA ControlStays ==
    ASSUME ControlOK, SizesOK, Quietly(control, control'), UNCHANGED <<life, draws>>
    PROVE  ControlOK' /\ SizesOK'
<1>1. ControlOK'
  BY DEF ControlOK, Quietly, NoneAsked
<1>2. SizesOK'
  BY DEF SizesOK, Quietly, LooksKept
<1> QED BY <1>1, <1>2

LEMMA NothingNewAsked ==
    ASSUME NothingAskedMeanwhile, Quietly(control, control')
    PROVE  NothingAskedMeanwhile'
BY DEF NothingAskedMeanwhile, Quietly, NoneAsked

LEMMA LookStays ==
    ASSUME LookedAt, Quietly(control, control'),
           \A w \in Windows : fullscreen[w] => fullscreen'[w]
    PROVE  LookedAt'
<1>1. ASSUME NEW w \in Windows, ~fullscreen'[w], control'.requests[w] # NoRequest
      PROVE  Timer("apply", w, 0, 0) \in control'.timers
  <2>1. ~fullscreen[w] /\ control.requests[w] # NoRequest
    BY <1>1 DEF Quietly, NoneAsked
  <2>2. Timer("apply", w, 0, 0) \in control.timers
    BY <2>1 DEF LookedAt
  <2>3. Timer("apply", w, 0, 0).kind = "apply"
    BY DEF Timer
  <2> QED BY <2>2, <2>3 DEF Quietly, LooksKept
<1> QED BY <1>1 DEF LookedAt, Timer

LEMMA BareStays ==
    ASSUME EventsOK, EntersBare, Quietly(control, control'), UNCHANGED fullscreen,
           \A i \in 1..Len(events') : events'[i].kind = "state" =>
               \E j \in 1..Len(events) : events[j] = events'[i]
    PROVE  EntersBare'
<1>1. ASSUME NEW i \in 1..Len(events'), events'[i].kind = "state", events'[i].value
      PROVE  ~fullscreen'[events'[i].window] /\ control'.requests[events'[i].window] = NoRequest
  <2>1. PICK j \in 1..Len(events) : events[j] = events'[i]
    BY <1>1
  <2> DEFINE w == events'[i].window
  <2>2. w \in Windows
    <3>1. events[j] \in Events
      BY DEF EventsOK
    <3> QED BY <2>1, <3>1 DEF Events
  <2>3. ~fullscreen[w] /\ control.requests[w] = NoRequest
    BY <1>1, <2>1 DEF EntersBare
  <2> HIDE DEF w
  <2>4. control'.requests[w] = NoRequest
    BY <2>2, <2>3 DEF Quietly, NoneAsked
  <2> QED BY <2>3, <2>4 DEF w
<1> QED BY <1>1 DEF EntersBare

\* A step that changes control alone, and asks nothing.
LEMMA QuietStep ==
    ASSUME ControlInv, Quietly(control, control'),
           UNCHANGED <<life, fullscreen, draws, mode, events, wanted>>
    PROVE  ControlInv' /\ (CalmInv => CalmInv')
<1>1. WorldOK' /\ EventsOK'
  BY DEF ControlInv, WorldOK, EventsOK, Mapped
<1>2. ControlOK' /\ SizesOK'
  BY ControlStays DEF ControlInv
<1>3. ASSUME CalmInv
      PROVE  CalmInv'
  <2>1. NothingAskedMeanwhile' /\ LookedAt'
    BY <1>3, NothingNewAsked, LookStays DEF CalmInv
  <2>2. EntersBare'
    BY <1>3, BareStays DEF CalmInv, ControlInv
  <2>3. OneState'
    BY <1>3 DEF CalmInv, OneState
  <2> QED BY <2>1, <2>2, <2>3 DEF CalmInv
<1> QED BY <1>1, <1>2, <1>3 DEF ControlInv

\* Nothing is left in the queue, and nothing is asked.
LEMMA NothingToHandle ==
    ASSUME events' = <<>>
    PROVE  EventsOK' /\ EntersBare' /\ OneState'
<1>1. events' \in Seq(Events) /\ Len(events') = 0 /\ 1..Len(events') = {}
  OBVIOUS
<1> QED BY <1>1 DEF EventsOK, EntersBare, OneState

LEMMA NobodyAsked ==
    ASSUME \A w \in Windows : control'.requests[w] = NoRequest
    PROVE  NothingAskedMeanwhile' /\ LookedAt'
BY DEF NothingAskedMeanwhile, LookedAt

-----------------------------------------------------------------------------
(* Windows.                                                                *)

LEMMA MapKeeps ==
    ASSUME ControlInv, NEW w \in Windows, Map(w)
    PROVE  ControlInv' /\ (CalmInv => CalmInv')
<1> DEFINE sized == [control EXCEPT !.size[w] = Windowed]
<1>1. PICK entered \in BOOLEAN :
        /\ fullscreen' = [fullscreen EXCEPT ![w] = entered]
        /\ control' = Schedule(Configure(sized, w, IF entered THEN Full ELSE Windowed), w)
  BY DEF Map
<1> DEFINE s == IF entered THEN Full ELSE Windowed
           told == Configure(sized, w, s)
<1>2. /\ Mapped = {} /\ life' = [life EXCEPT ![w] = "mapped"]
      /\ draws' = [draws EXCEPT ![w] = Windowed] /\ UNCHANGED <<mode, events, wanted>>
  BY DEF Map
<1>3. s \in RealSize /\ Windowed \in RealSize /\ Windowed # NoSize /\ Windowed \in AnySize
  BY ConstantsAssumption DEF RealSize, AnySize
<1>4. control' = Schedule(told, w)
  BY <1>1
<1> HIDE DEF s
<1>5. Quietly(control, sized) /\ sized.size[w] = Windowed
  <2>1. Sound(control) /\ control \in Controls
    BY DEF ControlInv, ControlOK, Sound
  <2>2. sized \in Controls
    BY <1>3, <2>1 DEF Controls
  <2>3. /\ sized.requests = control.requests /\ sized.withdrawals = control.withdrawals
        /\ sized.timers = control.timers /\ sized.negotiation = control.negotiation
        /\ sized.stretched = control.stretched
    BY <2>1 DEF Controls
  <2>4. sized.size[w] = Windowed /\ \A v \in Windows \ {w} : sized.size[v] = control.size[v]
    BY <2>1 DEF Controls
  <2> HIDE DEF sized
  <2> QED BY <1>3, <2>1, <2>2, <2>3, <2>4, NothingTouched
<1> HIDE DEF sized
<1>6. Quietly(sized, told)
  BY <1>3, <1>5, Configured, SizeOnlyIsQuiet DEF Quietly
<1> HIDE DEF told
<1>7. Quietly(told, control')
  BY <1>4, <1>6, Scheduled DEF Quietly
<1>8. Quietly(control, control') /\ control'.size[w] # NoSize
  BY <1>3, <1>5, <1>6, <1>7, QuietOn DEF Quietly, LooksKept
<1>9. \A v \in Windows : life[v] # "mapped"
  BY <1>2 DEF Mapped
<1>10. \A v \in Windows : control'.requests[v] = NoRequest
  BY <1>8, <1>9 DEF ControlInv, ControlOK, Quietly, NoneAsked
<1>11. events = <<>>
  <2>1. events \in Seq(Events)
    BY DEF ControlInv, EventsOK
  <2>2. ASSUME events # <<>>
        PROVE  FALSE
    <3>1. Head(events) \in Events /\ life[Head(events).window] = "mapped"
      BY <2>2, FirstEvent DEF ControlInv
    <3>2. Head(events).window \in Windows
      BY <3>1 DEF Events
    <3> QED BY <1>9, <3>1, <3>2
  <2> QED BY <2>2
<1>12. WorldOK'
  <2>1. \A v \in Windows : life'[v] = "mapped" => v = w
    BY <1>2, <1>9 DEF ControlInv, WorldOK
  <2>2. \A v \in Windows : fullscreen'[v] => life'[v] = "mapped"
    BY <1>1, <1>2, <1>9 DEF ControlInv, WorldOK
  <2>3. /\ life' \in [Windows -> {"none", "mapped", "gone"}]
        /\ fullscreen' \in [Windows -> BOOLEAN] /\ draws' \in [Windows -> AnySize]
    BY <1>1, <1>2, <1>3 DEF ControlInv, WorldOK
  <2> QED BY <1>2, <2>1, <2>2, <2>3 DEF ControlInv, WorldOK, Mapped
<1>13. ControlOK' /\ SizesOK'
  <2>1. ControlOK'
    BY <1>8, <1>10 DEF ControlOK, Quietly
  <2>2. draws'[w] = Windowed /\ \A v \in Windows : life'[v] = "mapped" => v = w
    BY <1>2, <1>9 DEF ControlInv, WorldOK
  <2>3. SizesOK'
    BY <1>3, <1>8, <2>2 DEF SizesOK
  <2> QED BY <2>1, <2>3
<1>14. EventsOK' /\ EntersBare' /\ OneState'
  BY <1>2, <1>11, NothingToHandle
<1>15. NothingAskedMeanwhile' /\ LookedAt'
  BY <1>10, NobodyAsked
<1> QED BY <1>12, <1>13, <1>14, <1>15 DEF ControlInv, CalmInv

WithFields(c, requests, waiting, withdrawals, overdue, releases, stretched, size, told, timers) ==
    [c EXCEPT !.requests = requests, !.waiting = waiting, !.withdrawals = withdrawals,
              !.overdue = overdue, !.releases = releases, !.stretched = stretched,
              !.size = size, !.told = told, !.timers = timers]

LEMMA FieldsSet ==
    ASSUME NEW c \in Controls,
           NEW requests \in [Windows -> Requests], NEW waiting \in SUBSET Windows,
           NEW withdrawals \in [Windows -> Nat], NEW overdue \in SUBSET Windows,
           NEW releases \in [Windows -> Nat], NEW stretched \in SUBSET Windows,
           NEW size \in [Windows -> AnySize], NEW told \in [Windows -> Seq(RealSize)],
           NEW timers \in SUBSET Timers
    PROVE  WithFields(c, requests, waiting, withdrawals, overdue, releases, stretched, size,
                      told, timers) \in Controls
BY DEF Controls, WithFields

LEMMA Forgotten ==
    ASSUME NEW c \in Controls, NEW w \in Windows, NEW bare \in Requests,
           NEW timers \in SUBSET Timers, NEW d,
           d = [c EXCEPT
            !.requests[w] = bare, !.waiting = @ \ {w}, !.withdrawals[w] = 0,
            !.overdue = @ \ {w}, !.releases[w] = 0, !.stretched = @ \ {w},
            !.size[w] = NoSize, !.told[w] = <<>>, !.timers = timers]
    PROVE  d \in Controls
<1> DEFINE requests == [c.requests EXCEPT ![w] = bare]
           waiting == c.waiting \ {w}
           withdrawals == [c.withdrawals EXCEPT ![w] = 0]
           overdue == c.overdue \ {w}
           releases == [c.releases EXCEPT ![w] = 0]
           stretched == c.stretched \ {w}
           size == [c.size EXCEPT ![w] = NoSize]
           told == [c.told EXCEPT ![w] = <<>>]
<1>1. requests \in [Windows -> Requests] /\ withdrawals \in [Windows -> Nat]
      /\ releases \in [Windows -> Nat]
  BY DEF Controls
<1>2. size \in [Windows -> AnySize]
  BY DEF Controls, AnySize
<1>3. told \in [Windows -> Seq(RealSize)]
  <2>1. <<>> \in Seq(RealSize)
    OBVIOUS
  <2> QED BY <2>1 DEF Controls
<1>4. /\ waiting \in SUBSET Windows /\ overdue \in SUBSET Windows
      /\ stretched \in SUBSET Windows
  BY ControlParts
<1>5. d = WithFields(c, requests, waiting, withdrawals, overdue, releases, stretched, size,
                     told, timers)
  BY DEF WithFields
<1> HIDE DEF requests, waiting, withdrawals, overdue, releases, stretched, size, told
<1>6. WithFields(c, requests, waiting, withdrawals, overdue, releases, stretched, size, told,
                 timers) \in Controls
  BY <1>1, <1>2, <1>3, <1>4, FieldsSet
<1> QED BY <1>5, <1>6, Zenon

LEMMA CloseKeeps ==
    ASSUME ControlInv, NEW w \in Windows, Close(w)
    PROVE  ControlInv' /\ (CalmInv => CalmInv')
<1> DEFINE n == Number(control)
           expiry == Timer("expire", NoWindow, 0, n)
           left == {t \in control.timers : t.window # w /\ t.kind # "expire"}
           timers == left \cup {expiry}
           bare == NoRequest
           d == control'
<1>1. /\ life[w] = "mapped" /\ life' = [life EXCEPT ![w] = "gone"]
      /\ fullscreen' = [fullscreen EXCEPT ![w] = FALSE]
      /\ draws' = [draws EXCEPT ![w] = NoSize]
      /\ events' = <<>> /\ UNCHANGED <<mode, wanted>>
  BY DEF Close
<1>2. d = [control EXCEPT
            !.requests[w] = bare, !.waiting = @ \ {w}, !.withdrawals[w] = 0,
            !.overdue = @ \ {w}, !.releases[w] = 0, !.stretched = @ \ {w},
            !.size[w] = NoSize, !.told[w] = <<>>, !.timers = timers]
  BY DEF Close
<1>3. control \in Controls /\ Numbered(control)
  BY DEF ControlInv, ControlOK, Sound
<1>4. n \in Nat
  BY <1>3, NumberIsNew
<1> HIDE DEF n
<1>5. expiry \in Timers /\ expiry.token = 0 /\ expiry.due = n
  BY <1>4 DEF Timer, Timers
<1>6. left \subseteq control.timers /\ left \subseteq Timers
  BY <1>3, ControlParts
<1>7. bare \in Requests /\ bare.verdict = 0
  BY NoRequestParts
<1> HIDE DEF expiry, left, bare, d
<1>8. <<>> \in Seq(RealSize) /\ NoSize \in AnySize
  BY DEF AnySize
<1>9. d \in Controls
  <2>1. timers \in SUBSET Timers
    BY <1>5, <1>6
  <2> HIDE DEF timers
  <2> QED BY <1>2, <1>3, <1>7, <2>1, Forgotten
<1>10. /\ d.negotiation = control.negotiation /\ d.timers = left \cup {expiry}
       /\ d.stretched = control.stretched \ {w}
       /\ d.requests[w] = bare
       /\ \A v \in Windows \ {w} : d.requests[v] = control.requests[v]
  BY <1>2, <1>3 DEF Controls
<1>11. \A v \in Windows \ {w} : d.size[v] = control.size[v]
  BY <1>2, <1>3 DEF Controls
<1>12. Numbered(d)
  <2>1. \A v \in Windows : d.requests[v].verdict \in {control.requests[v].verdict, 0, n}
    BY <1>7, <1>10
  <2>2. \A t \in d.timers \ control.timers : t.token \in {0, n} /\ t.due \in {0, n}
    BY <1>5, <1>6, <1>10
  <2> QED BY <1>3, <1>4, <1>9, <1>10, <2>1, <2>2, StaysNumbered
<1>13. \A v \in d.stretched : d.requests[v].presented
  <2>1. ASSUME NEW v \in d.stretched
        PROVE  d.requests[v].presented
    <3>1. v \in control.stretched /\ v # w /\ v \in Windows
      BY <1>3, <1>10, ControlParts
    <3> QED BY <1>10, <3>1 DEF ControlInv, ControlOK, Sound
  <2> QED BY <2>1
<1>14. \A v \in Windows : life'[v] # "mapped"
  BY <1>1 DEF ControlInv, WorldOK, Mapped
<1>15. \A v \in Windows : d.requests[v] = NoRequest
  BY <1>1, <1>10 DEF ControlInv, ControlOK, WorldOK, Mapped, bare
<1>16. WorldOK'
  <2>1. \A v \in Windows : ~fullscreen'[v]
    BY <1>1 DEF ControlInv, WorldOK, Mapped
  <2>2. /\ life' \in [Windows -> {"none", "mapped", "gone"}]
        /\ fullscreen' \in [Windows -> BOOLEAN] /\ draws' \in [Windows -> AnySize]
    BY <1>1, <1>8 DEF ControlInv, WorldOK
  <2> QED BY <1>1, <1>14, <2>1, <2>2 DEF ControlInv, WorldOK, Mapped
<1>17. ControlOK' /\ SizesOK'
  BY <1>9, <1>12, <1>13, <1>14, <1>15 DEF ControlOK, SizesOK, Sound, d
<1>18. EventsOK' /\ EntersBare' /\ OneState'
  BY <1>1, NothingToHandle
<1>19. NothingAskedMeanwhile' /\ LookedAt'
  BY <1>15, NobodyAsked DEF d
<1> QED BY <1>16, <1>17, <1>18, <1>19 DEF ControlInv, CalmInv

-----------------------------------------------------------------------------
(* The user.                                                               *)

LEMMA MayWhen ==
    ASSUME Calm, NEW kind, May(kind)
    PROVE  /\ kind # "reassert" /\ events = <<>>
           /\ \A t \in control.timers : t.due # 0 \/ t.kind = "retry"
BY DEF Calm, May, Handled

LEMMA SaveKeeps ==
    ASSUME ControlInv, SaveSettings
    PROVE  ControlInv' /\ (Calm /\ CalmInv => CalmInv')
<1>1. /\ wanted' \in Sizes \cup {NoSize} /\ control' = Reconfigured(control)
      /\ UNCHANGED <<life, fullscreen, draws, mode, events>>
  BY DEF SaveSettings
<1>2. Quietly(control, control')
  BY <1>1, OneAtATime, ReconfiguredQuietly
<1>3. ControlOK' /\ SizesOK'
  BY <1>1, <1>2, ControlStays DEF ControlInv
<1>4. WorldOK' /\ EventsOK'
  BY <1>1 DEF ControlInv, WorldOK, EventsOK, Mapped
<1>5. ASSUME CalmInv
      PROVE  CalmInv'
  <2>1. NothingAskedMeanwhile' /\ LookedAt'
    BY <1>1, <1>2, <1>5, NothingNewAsked, LookStays DEF CalmInv
  <2>2. EntersBare'
    BY <1>1, <1>2, <1>5, BareStays DEF CalmInv, ControlInv
  <2>3. OneState'
    BY <1>1, <1>5 DEF CalmInv, OneState
  <2> QED BY <2>1, <2>2, <2>3 DEF CalmInv
<1> QED BY <1>3, <1>4, <1>5 DEF ControlInv

LEMMA ToggleKeeps ==
    ASSUME ControlInv, NEW w \in Windows, KWinToggles(w)
    PROVE  ControlInv' /\ (Calm /\ CalmInv => CalmInv')
<1> DEFINE enter == ~fullscreen[w]
<1>1. /\ May("toggle") /\ life[w] = "mapped"
      /\ fullscreen' = [fullscreen EXCEPT ![w] = enter]
      /\ control' = Toggled(control, w, enter)
      /\ UNCHANGED <<life, draws, mode, events, wanted>>
  BY DEF KWinToggles, Mapped
<1>2. enter \in BOOLEAN
  OBVIOUS
<1> HIDE DEF enter
<1>3. Quietly(control, control') /\ Timer("apply", w, 0, 0) \in control'.timers
  BY <1>1, <1>2, OneAtATime, ToggledQuietly
<1>4. ControlOK' /\ SizesOK'
  BY <1>1, <1>3, ControlStays DEF ControlInv
<1>5. WorldOK' /\ EventsOK'
  <2>1. fullscreen' \in [Windows -> BOOLEAN]
    BY <1>1, <1>2 DEF ControlInv, WorldOK
  <2>2. \A v \in Windows : fullscreen'[v] => life'[v] = "mapped"
    BY <1>1 DEF ControlInv, WorldOK
  <2> QED BY <1>1, <2>1, <2>2 DEF ControlInv, WorldOK, EventsOK, Mapped
<1>6. ASSUME Calm, CalmInv
      PROVE  CalmInv'
  <2>1. events' = <<>>
    BY <1>1, <1>6, MayWhen
  <2>2. NothingAskedMeanwhile'
    BY <1>3, <1>6, NothingNewAsked DEF CalmInv
  <2>3. LookedAt'
    <3>1. ASSUME NEW v \in Windows, ~fullscreen'[v], control'.requests[v] # NoRequest
          PROVE  Timer("apply", v, 0, 0) \in control'.timers
      <4>1. CASE v = w
        BY <1>3, <4>1
      <4>2. CASE v # w
        <5>1. ~fullscreen[v] /\ control.requests[v] # NoRequest
          BY <1>1, <1>3, <3>1, <4>2 DEF ControlInv, WorldOK, Quietly, NoneAsked
        <5>2. Timer("apply", v, 0, 0) \in control.timers
          BY <1>6, <5>1 DEF CalmInv, LookedAt
        <5>3. Timer("apply", v, 0, 0).kind = "apply"
          BY DEF Timer
        <5> QED BY <1>3, <5>2, <5>3 DEF Quietly, LooksKept
      <4> QED BY <4>1, <4>2
    <3> QED BY <3>1 DEF LookedAt, Timer
  <2> QED BY <2>1, <2>2, <2>3, NothingToHandle DEF CalmInv
<1> QED BY <1>4, <1>5, <1>6 DEF ControlInv

-----------------------------------------------------------------------------
(* KWin handles an event.                                                  *)

LEMMA Arrived ==
    ASSUME ControlInv, NEW kind, Arrives(kind)
    PROVE  LET w == Head(events).window
           IN  /\ events # <<>> /\ events' = Tail(events) /\ Head(events).kind = kind
               /\ w \in Windows /\ life[w] = "mapped" /\ Head(events).value \in BOOLEAN
               /\ events[1] = Head(events) /\ 1 \in 1..Len(events)
               /\ \A i \in 1..Len(events') :
                    i + 1 \in 1..Len(events) /\ events[i + 1] = events'[i]
<1>1. events # <<>> /\ events' = Tail(events) /\ Head(events).kind = kind
  BY DEF Arrives
<1>2. /\ Head(events) \in Events /\ life[Head(events).window] = "mapped"
      /\ Head(events) = events[1] /\ 1 \in 1..Len(events)
      /\ \A i \in 1..Len(Tail(events)) :
            i + 1 \in 1..Len(events) /\ Tail(events)[i] = events[i + 1]
  BY <1>1, FirstEvent DEF ControlInv
<1> QED BY <1>1, <1>2 DEF Events

\* Once the message was handled that changes the state of a window, none is left.
LEMMA NoneEnters ==
    ASSUME ControlInv, OneState, Arrives("state")
    PROVE  OneState' /\ EntersBare'
<1>1. events # <<>> /\ events' = Tail(events) /\ Head(events).kind = "state"
  BY Arrived
<1>2. OneState' /\ \A i \in 1..Len(events') : events'[i].kind # "state"
  BY <1>1, OneStateLeft DEF ControlInv
<1> QED BY <1>2 DEF EntersBare

\* A step that takes an event from the queue, and asks nothing.
LEMMA QuietEvent ==
    ASSUME ControlInv, NEW kind, Arrives(kind), Quietly(control, control'),
           UNCHANGED <<life, fullscreen, draws, mode, wanted>>
    PROVE  ControlInv' /\ (CalmInv => CalmInv')
<1>1. events # <<>> /\ events' = Tail(events)
  BY Arrived
<1>2. WorldOK'
  BY DEF ControlInv, WorldOK, Mapped
<1>3. EventsOK'
  BY <1>1, EventsLeft DEF ControlInv
<1>4. ControlOK' /\ SizesOK'
  BY ControlStays DEF ControlInv
<1>5. ASSUME CalmInv
      PROVE  CalmInv'
  <2>1. NothingAskedMeanwhile' /\ LookedAt'
    BY <1>5, NothingNewAsked, LookStays DEF CalmInv
  <2>2. \A i \in 1..Len(events') : i + 1 \in 1..Len(events) /\ events[i + 1] = events'[i]
    BY Arrived
  <2>3. EntersBare'
    BY <1>5, <2>2, BareStays DEF CalmInv, ControlInv
  <2>4. OneState'
    BY <1>1, <1>5, OneStateLeft DEF CalmInv, ControlInv
  <2> QED BY <2>1, <2>3, <2>4 DEF CalmInv
<1> QED BY <1>2, <1>3, <1>4, <1>5 DEF ControlInv

LEMMA ModeKeeps ==
    ASSUME ControlInv, ModeChanged
    PROVE  ControlInv' /\ (CalmInv => CalmInv')
<1> DEFINE w == Head(events).window
           new == Head(events).value
           noted == ModeNoted(control, w, new)
<1>1. /\ Arrives("mode") /\ control' = SizedByMode(noted, w)
      /\ UNCHANGED <<life, fullscreen, draws, mode, wanted>>
  BY DEF ModeChanged
<1>2. w \in Windows /\ new \in BOOLEAN
  BY <1>1, Arrived
<1> HIDE DEF w, new
<1>3. Quietly(control, noted)
  BY <1>2, OneAtATime, NotedQuietly
<1> HIDE DEF noted
<1>4. Quietly(noted, control')
  BY <1>1, <1>2, <1>3, SizedQuietly DEF Quietly, ControlInv, WorldOK
<1>5. Quietly(control, control')
  BY <1>3, <1>4, QuietOn
<1> QED BY <1>1, <1>5, QuietEvent

LEMMA ResizeKeeps ==
    ASSUME ControlInv, ResizeRequested
    PROVE  ControlInv' /\ (CalmInv => CalmInv')
<1> DEFINE w == Head(events).window
           request == control.requests[w]
           s == IF fullscreen[w] /\ request # NoRequest THEN request.size
                ELSE IF fullscreen[w] /\ control.withdrawals[w] # 0 THEN NormalSize(w)
                ELSE control.size[w]
<1>1. /\ Arrives("resize") /\ control' = Announce(control, w, s)
      /\ UNCHANGED <<life, fullscreen, draws, mode, wanted>>
  BY DEF ResizeRequested
<1>2. w \in Windows /\ life[w] = "mapped"
  BY <1>1, Arrived
<1>3. s \in RealSize
  <2>1. NormalSize(w) \in RealSize
    BY DEF NormalSize, RealSize
  <2>2. request \in Requests /\ control.size[w] \in AnySize /\ control.size[w] # NoSize
    BY <1>2, ControlParts DEF ControlInv, ControlOK, Sound, SizesOK
  <2>3. request # NoRequest => request.size \in RealSize
    BY <2>2, RequestParts DEF Asked, RealSize
  <2> QED BY <2>1, <2>2, <2>3 DEF AnySize
<1> HIDE DEF w, s
<1>4. Quietly(control, control')
  BY <1>1, <1>2, <1>3, OneAtATime, Announced, SizeOnlyIsQuiet
<1> QED BY <1>1, <1>4, QuietEvent

LEMMA LeaveKeeps ==
    ASSUME ControlInv, LeaveRequested
    PROVE  ControlInv' /\ (CalmInv => CalmInv')
<1> DEFINE w == Head(events).window
           restored == Restore(control, w)
<1>1. /\ Arrives("state")
      /\ control' \in {restored, Toggled(restored, w, FALSE)}
      /\ fullscreen' = [fullscreen EXCEPT ![w] = FALSE]
      /\ UNCHANGED <<life, draws, mode, wanted>>
  BY DEF LeaveRequested
<1>2. w \in Windows /\ life[w] = "mapped" /\ events # <<>> /\ events' = Tail(events)
  BY <1>1, Arrived
<1> HIDE DEF w
<1>3. Quietly(control, restored) /\ Sound(restored) /\ restored.requests[w] = NoRequest
  BY <1>2, OneAtATime, Restored, BackForEach
<1> HIDE DEF restored
<1>4. Quietly(restored, control') /\ control'.requests = restored.requests
  BY <1>1, <1>2, <1>3, QuietAtAll, ToggledQuietly
<1>5. Quietly(control, control') /\ control'.requests[w] = NoRequest
  BY <1>3, <1>4, QuietOn
<1>6. ControlOK' /\ SizesOK'
  BY <1>1, <1>5, ControlStays DEF ControlInv
<1>7. WorldOK' /\ EventsOK'
  <2>1. fullscreen' \in [Windows -> BOOLEAN]
    BY <1>1 DEF ControlInv, WorldOK
  <2>2. \A v \in Windows : fullscreen'[v] => life'[v] = "mapped"
    BY <1>1 DEF ControlInv, WorldOK
  <2>3. EventsOK'
    BY <1>1, <1>2, EventsLeft DEF ControlInv
  <2> QED BY <1>1, <2>1, <2>2, <2>3 DEF ControlInv, WorldOK, Mapped
<1>8. ASSUME CalmInv
      PROVE  CalmInv'
  <2>1. NothingAskedMeanwhile'
    BY <1>5, <1>8, NothingNewAsked DEF CalmInv
  <2>2. LookedAt'
    <3>1. ASSUME NEW v \in Windows, ~fullscreen'[v], control'.requests[v] # NoRequest
          PROVE  Timer("apply", v, 0, 0) \in control'.timers
      <4>1. v # w
        BY <1>5, <3>1
      <4>2. ~fullscreen[v] /\ control.requests[v] # NoRequest
        BY <1>1, <1>5, <3>1, <4>1 DEF ControlInv, WorldOK, Quietly, NoneAsked
      <4>3. Timer("apply", v, 0, 0) \in control.timers
        BY <1>8, <4>2 DEF CalmInv, LookedAt
      <4>4. Timer("apply", v, 0, 0).kind = "apply"
        BY DEF Timer
      <4> QED BY <1>5, <4>3, <4>4 DEF Quietly, LooksKept
    <3> QED BY <3>1 DEF LookedAt, Timer
  <2>3. OneState' /\ EntersBare'
    BY <1>1, <1>8, NoneEnters DEF CalmInv
  <2> QED BY <2>1, <2>2, <2>3 DEF CalmInv
<1> QED BY <1>6, <1>7, <1>8 DEF ControlInv

\* A step that may ask window w alone, which is fullscreen after it, if asked.
LEMMA TouchedWindow ==
    ASSUME ControlInv, NEW w \in Windows, NEW c, Touching(c, control', w),
           c.requests = control.requests,
           \A v \in Windows : control.size[v] # NoSize => c.size[v] # NoSize,
           control'.requests[w] # NoRequest => life[w] = "mapped",
           UNCHANGED <<life, draws>>
    PROVE  ControlOK' /\ SizesOK'
<1>1. ControlOK'
  BY DEF ControlInv, ControlOK, Touching
<1>2. SizesOK'
  BY DEF ControlInv, SizesOK, Touching, LooksKept
<1> QED BY <1>1, <1>2

LEMMA TouchedCalmly ==
    ASSUME ControlInv, NothingAskedMeanwhile, LookedAt,
           NEW w \in Windows, NEW c, Touching(c, control', w),
           c.requests = control.requests, c.withdrawals = control.withdrawals,
           \A t \in control.timers : t.kind = "apply" => t \in c.timers \/ t.window = w,
           \A v \in Windows \ {w} : fullscreen'[v] = fullscreen[v],
           control'.requests[w] # NoRequest => fullscreen'[w] /\ control'.withdrawals[w] = 0
    PROVE  NothingAskedMeanwhile' /\ LookedAt'
<1>1. NothingAskedMeanwhile'
  BY DEF NothingAskedMeanwhile, Touching
<1>2. ASSUME NEW v \in Windows, ~fullscreen'[v], control'.requests[v] # NoRequest
      PROVE  Timer("apply", v, 0, 0) \in control'.timers
  <2>1. v # w
    BY <1>2
  <2>2. ~fullscreen[v] /\ control.requests[v] # NoRequest
    BY <1>2, <2>1 DEF Touching
  <2>3. Timer("apply", v, 0, 0) \in control.timers
    BY <2>2 DEF LookedAt
  <2>4. Timer("apply", v, 0, 0).kind = "apply" /\ Timer("apply", v, 0, 0).window = v
    BY DEF Timer
  <2>5. Timer("apply", v, 0, 0) \in c.timers
    BY <2>1, <2>3, <2>4
  <2> QED BY <2>4, <2>5 DEF Touching, LooksKept
<1> QED BY <1>1, <1>2 DEF LookedAt, Timer

LEMMA FullscreenKeeps ==
    ASSUME ControlInv, FullscreenRequested
    PROVE  ControlInv' /\ (CalmInv => CalmInv')
<1> DEFINE w == Head(events).window
<1>1. /\ Arrives("state") /\ Head(events).value
      /\ control' = FullscreenAsked(control, w)
      /\ fullscreen' = [fullscreen EXCEPT ![w] = TRUE]
      /\ UNCHANGED <<life, draws, mode, wanted>>
  BY DEF FullscreenRequested
<1>2. /\ w \in Windows /\ life[w] = "mapped" /\ events # <<>> /\ events' = Tail(events)
      /\ events[1] = Head(events) /\ 1 \in 1..Len(events) /\ Head(events).kind = "state"
  BY <1>1, Arrived
<1>3. CalmInv => control.requests[w] = NoRequest
  BY <1>1, <1>2 DEF CalmInv, EntersBare
<1> HIDE DEF w
<1>4. wanted \in Sizes \cup {NoSize}
  BY DEF ControlInv, WorldOK
<1>5. /\ Touching(control, control', w)
      /\ control.requests[w] = NoRequest /\ control'.requests[w] # NoRequest
            => control'.withdrawals[w] = 0
  BY <1>1, <1>2, <1>4, OneAtATime, FullscreenTouches
<1>6. ControlOK' /\ SizesOK'
  BY <1>1, <1>2, <1>5, TouchedWindow
<1>7. fullscreen'[w] /\ \A v \in Windows \ {w} : fullscreen'[v] = fullscreen[v]
  BY <1>1, <1>2 DEF ControlInv, WorldOK
<1>8. WorldOK' /\ EventsOK'
  <2>1. fullscreen' \in [Windows -> BOOLEAN]
    BY <1>1 DEF ControlInv, WorldOK
  <2>2. \A v \in Windows : fullscreen'[v] => life'[v] = "mapped"
    BY <1>1, <1>2, <1>7 DEF ControlInv, WorldOK
  <2>3. EventsOK'
    BY <1>1, <1>2, EventsLeft DEF ControlInv
  <2> QED BY <1>1, <2>1, <2>2, <2>3 DEF ControlInv, WorldOK, Mapped
<1>9. ASSUME CalmInv
      PROVE  CalmInv'
  <2>1. NothingAskedMeanwhile' /\ LookedAt'
    BY <1>2, <1>3, <1>5, <1>7, <1>9, TouchedCalmly DEF CalmInv
  <2>2. OneState' /\ EntersBare'
    BY <1>1, <1>9, NoneEnters DEF CalmInv
  <2> QED BY <2>1, <2>2 DEF CalmInv
<1> QED BY <1>6, <1>8, <1>9 DEF ControlInv

-----------------------------------------------------------------------------
(* Callbacks.                                                              *)

LEMMA TimerGone ==
    ASSUME NEW c, Sound(c), NEW t, NEW d, d = [c EXCEPT !.timers = @ \ {t}]
    PROVE  /\ Sound(d) /\ d.requests = c.requests /\ d.withdrawals = c.withdrawals
           /\ d.size = c.size /\ d.timers = c.timers \ {t}
           /\ t.kind # "apply" => Quietly(c, d)
<1>1. c \in Controls /\ Numbered(c)
  BY DEF Sound
<1>2. d \in Controls
  BY <1>1 DEF Controls
<1>3. /\ d.requests = c.requests /\ d.withdrawals = c.withdrawals
      /\ d.size = c.size /\ d.timers = c.timers \ {t}
      /\ d.negotiation = c.negotiation /\ d.stretched = c.stretched
  BY <1>1 DEF Controls
<1>4. Numbered(d)
  BY <1>1, <1>3 DEF Numbered
<1>5. Sound(d)
  BY <1>2, <1>3, <1>4 DEF Sound
<1> QED BY <1>3, <1>5 DEF Quietly, NoneAsked, LooksKept

LEMMA CallbackKeeps ==
    ASSUME ControlInv, NEW t, t.kind # "apply", NEW c, Quietly(control, c), Comes(t, c)
    PROVE  ControlInv' /\ (CalmInv => CalmInv')
<1>1. /\ control' = [c EXCEPT !.timers = @ \ {t}]
      /\ UNCHANGED <<life, fullscreen, draws, mode, events, wanted>>
  BY DEF Comes
<1>2. Quietly(c, control')
  BY <1>1, TimerGone DEF Quietly
<1>3. Quietly(control, control')
  BY <1>2, QuietOn
<1> QED BY <1>1, <1>3, QuietStep

\* A wait for a withdrawal ends, or is given up.
LEMMA WaitEnded ==
    ASSUME NEW c, Sound(c), NEW w \in Windows, NEW overdue \in SUBSET Windows,
           NEW d, d = [c EXCEPT !.withdrawals[w] = 0, !.overdue = overdue]
    PROVE  Quietly(c, d)
<1>1. c \in Controls
  BY DEF Sound
<1>2. d \in Controls
  BY <1>1 DEF Controls
<1>3. /\ d.requests = c.requests /\ d.negotiation = c.negotiation /\ d.stretched = c.stretched
      /\ d.timers = c.timers /\ d.size = c.size
  BY <1>1 DEF Controls
<1>4. \A v \in Windows : d.withdrawals[v] \in {c.withdrawals[v], 0}
  BY <1>1 DEF Controls
<1> QED BY <1>2, <1>3, <1>4, TimersSet

LEMMA ReleaseEndKeeps ==
    ASSUME ControlInv, NEW t \in control.timers, ReleaseEnds(t)
    PROVE  ControlInv' /\ (CalmInv => CalmInv')
<1> DEFINE w == t.window
           restored == Restore(control, w)
           looked == Schedule(restored, w)
           c == IF control.releases[w] = t.token THEN looked ELSE control
<1>1. t.kind \in {"answer", "release"} /\ Comes(t, c)
  BY DEF ReleaseEnds
<1>2. w \in Windows
  BY <1>1, ControlParts, TimerParts DEF ControlInv, ControlOK, Sound
<1> HIDE DEF w
<1>3. Quietly(control, restored) /\ Sound(restored)
  BY <1>2, OneAtATime, Restored, BackForEach
<1> HIDE DEF restored
<1>4. Quietly(control, looked)
  BY <1>2, <1>3, Scheduled, QuietOn
<1> HIDE DEF looked
<1>5. Quietly(control, c)
  BY <1>4, OneAtATime, QuietAtAll
<1> HIDE DEF c
<1> QED BY <1>1, <1>5, CallbackKeeps

LEMMA WithdrawalEndKeeps ==
    ASSUME ControlInv, NEW t \in control.timers, WithdrawalEnds(t) \/ WithdrawalOverdue(t)
    PROVE  ControlInv' /\ (CalmInv => CalmInv')
<1> DEFINE w == t.window
           ended == [control EXCEPT !.withdrawals[w] = 0]
           overdue == [control EXCEPT !.withdrawals[w] = 0, !.overdue = @ \cup {w}]
<1>1. /\ t.kind # "apply"
      /\ \E c \in {Schedule(ended, w), Schedule(overdue, w), control} : Comes(t, c)
  BY DEF WithdrawalEnds, WithdrawalOverdue
<1>2. w \in Windows
  <2>1. t.kind \notin {"validate", "expire"}
    BY DEF WithdrawalEnds, WithdrawalOverdue
  <2> QED BY <2>1, ControlParts, TimerParts DEF ControlInv, ControlOK, Sound
<1> HIDE DEF w
<1>3. Sound(control) /\ control \in Controls
  BY OneAtATime DEF Sound
<1>4. Quietly(control, ended)
  <2>1. ended = [control EXCEPT !.withdrawals[w] = 0, !.overdue = control.overdue]
    BY <1>3 DEF Controls
  <2>2. control.overdue \in SUBSET Windows
    BY <1>3, ControlParts
  <2> HIDE DEF ended
  <2> QED BY <1>2, <1>3, <2>1, <2>2, WaitEnded
<1>5. Quietly(control, overdue)
  <2> DEFINE late == control.overdue \cup {w}
  <2>1. late \in SUBSET Windows
    BY <1>2, <1>3, ControlParts
  <2>2. overdue = [control EXCEPT !.withdrawals[w] = 0, !.overdue = late]
    OBVIOUS
  <2> HIDE DEF overdue, late
  <2> QED BY <1>2, <1>3, <2>1, <2>2, WaitEnded
<1> HIDE DEF ended, overdue
<1>6. Quietly(control, Schedule(ended, w)) /\ Quietly(control, Schedule(overdue, w))
  <2>1. Quietly(ended, Schedule(ended, w)) /\ Quietly(overdue, Schedule(overdue, w))
    BY <1>2, <1>4, <1>5, Scheduled DEF Quietly
  <2> QED BY <1>4, <1>5, <2>1, QuietOn
<1>7. Quietly(control, control)
  BY <1>3, QuietAtAll
<1> QED BY <1>1, <1>6, <1>7, CallbackKeeps

LEMMA JudgeKeeps ==
    ASSUME ControlInv, NEW t \in control.timers, Judge(t)
    PROVE  ControlInv' /\ (CalmInv => CalmInv')
<1>1. t.kind = "validate" /\ \E c \in {Validate(control), control} : Comes(t, c)
  BY DEF Judge
<1>2. Quietly(control, Validate(control)) /\ Quietly(control, control)
  BY OneAtATime, Validated, QuietAtAll
<1> QED BY <1>1, <1>2, CallbackKeeps

LEMMA AskAgainKeeps ==
    ASSUME ControlInv, NEW t \in control.timers, AskAgain(t)
    PROVE  ControlInv' /\ (CalmInv => CalmInv')
<1>1. t.kind = "retry" /\ \E c \in {Schedule(control, t.window), control} : Comes(t, c)
  BY DEF AskAgain
<1>2. t.window \in Windows
  BY <1>1, ControlParts, TimerParts DEF ControlInv, ControlOK, Sound
<1>3. Quietly(control, Schedule(control, t.window)) /\ Quietly(control, control)
  BY <1>2, OneAtATime, Scheduled, QuietAtAll
<1> QED BY <1>1, <1>3, CallbackKeeps

LEMMA ExpireKeeps ==
    ASSUME ControlInv, NEW t \in control.timers, Expire(t)
    PROVE  ControlInv' /\ (CalmInv => CalmInv')
<1> DEFINE fresh == Fresh
           c == [control EXCEPT !.negotiation = fresh]
<1>1. t.kind = "expire" /\ \E d \in {c, control} : Comes(t, d)
  BY DEF Expire
<1>2. fresh \in Negotiations /\ fresh.validation = 0
  BY DEF Fresh, Negotiations
<1> HIDE DEF fresh
<1>3. Quietly(control, c) /\ Quietly(control, control)
  BY <1>2, OneAtATime, NegotiationSet, QuietAtAll
<1> HIDE DEF c
<1> QED BY <1>1, <1>3, CallbackKeeps

LEMMA LookKeeps ==
    ASSUME ControlInv, NEW t \in control.timers, LookAt(t)
    PROVE  ControlInv' /\ (CalmInv => CalmInv')
<1> DEFINE w == t.window
           c == [control EXCEPT !.timers = @ \ {t}]
<1>1. /\ t.kind = "apply" /\ control' = Apply(c, w)
      /\ UNCHANGED <<life, fullscreen, draws, mode, events, wanted>>
  BY DEF LookAt
<1>2. w \in Windows
  BY <1>1, ControlParts, TimerParts DEF ControlInv, ControlOK, Sound
<1>3. /\ Sound(c) /\ c.requests = control.requests /\ c.withdrawals = control.withdrawals
      /\ c.size = control.size /\ c.timers = control.timers \ {t}
  BY OneAtATime, TimerGone
<1> HIDE DEF c
<1>4. OneRequested(c) /\ wanted \in Sizes \cup {NoSize}
  BY <1>3, OneAtATime DEF OneRequested, Requested, ControlInv, WorldOK
<1>5. /\ Touching(c, control', w)
      /\ control'.requests[w] # NoRequest =>
            /\ fullscreen[w]
            /\ \/ control'.withdrawals[w] = 0
               \/ /\ c.requests[w] # NoRequest
                  /\ control'.withdrawals[w] \in {c.withdrawals[w], 0}
  BY <1>1, <1>2, <1>3, <1>4, Applied
<1>6. ControlOK' /\ SizesOK'
  <2>1. control'.requests[w] # NoRequest => life[w] = "mapped"
    BY <1>2, <1>5 DEF ControlInv, WorldOK
  <2> QED BY <1>1, <1>2, <1>3, <1>5, <2>1, TouchedWindow
<1>7. WorldOK' /\ EventsOK'
  BY <1>1 DEF ControlInv, WorldOK, EventsOK, Mapped
<1>8. ASSUME CalmInv
      PROVE  CalmInv'
  <2>1. control'.requests[w] # NoRequest => fullscreen'[w] /\ control'.withdrawals[w] = 0
    BY <1>1, <1>2, <1>3, <1>5, <1>8 DEF CalmInv, NothingAskedMeanwhile
  <2>2. \A u \in control.timers : u.kind = "apply" => u \in c.timers \/ u.window = w
    BY <1>3
  <2> HIDE DEF w
  <2>3. NothingAskedMeanwhile' /\ LookedAt'
    BY <1>1, <1>2, <1>3, <1>5, <1>8, <2>1, <2>2, TouchedCalmly DEF CalmInv
  <2>4. EntersBare'
    <3>1. ASSUME NEW i \in 1..Len(events), events[i].kind = "state", events[i].value
          PROVE  /\ ~fullscreen[events[i].window]
                 /\ control'.requests[events[i].window] = NoRequest
      <4> DEFINE v == events[i].window
      <4>1. v \in Windows
        <5>1. events[i] \in Events
          BY DEF ControlInv, EventsOK
        <5> QED BY <5>1 DEF Events
      <4>2. ~fullscreen[v] /\ control.requests[v] = NoRequest
        BY <1>8, <3>1 DEF CalmInv, EntersBare
      <4> HIDE DEF v
      <4>3. control'.requests[v] = NoRequest
        BY <1>3, <1>5, <4>1, <4>2 DEF Touching
      <4> QED BY <4>2, <4>3 DEF v
    <3> QED BY <1>1, <3>1 DEF EntersBare
  <2>5. OneState'
    BY <1>1, <1>8 DEF CalmInv, OneState
  <2> QED BY <2>3, <2>4, <2>5 DEF CalmInv
<1> QED BY <1>6, <1>7, <1>8 DEF ControlInv

-----------------------------------------------------------------------------
(* The client.                                                             *)

LEMMA ReadKeeps ==
    ASSUME ControlInv, NEW w \in Windows, ReadsResize(w)
    PROVE  ControlInv' /\ (CalmInv => CalmInv')
<1> DEFINE s == Head(control.told[w])
           left == Tail(control.told[w])
<1>1. /\ life[w] = "mapped" /\ control.told[w] # <<>>
      /\ control' = [control EXCEPT !.told[w] = left]
      /\ \/ \E m \in Sizes \cup {NoSize} : SetsMode(m)
         \/ UNCHANGED <<mode, events>>
      /\ draws' = draws \/ draws' = [draws EXCEPT ![w] = s]
      /\ UNCHANGED <<life, fullscreen, wanted>>
  BY DEF ReadsResize, Mapped
<1>2. control \in Controls /\ Sound(control) /\ control.told[w] \in Seq(RealSize)
  BY ControlParts, OneAtATime DEF Sound
<1>3. s \in RealSize /\ left \in Seq(RealSize)
  BY <1>1, <1>2
<1>4. s \in AnySize /\ s # NoSize
  BY <1>3, ConstantsAssumption DEF RealSize, AnySize
<1> HIDE DEF s, left
<1>5. Quietly(control, control')
  <2> DEFINE d == [control EXCEPT !.told[w] = left]
  <2>1. d \in Controls
    BY <1>2, <1>3 DEF Controls
  <2>2. /\ d.requests = control.requests /\ d.withdrawals = control.withdrawals
        /\ d.timers = control.timers /\ d.negotiation = control.negotiation
        /\ d.stretched = control.stretched /\ d.size = control.size
    BY <1>2 DEF Controls
  <2>3. control' = d
    BY <1>1
  <2> HIDE DEF d
  <2>4. Quietly(control, d)
    BY <1>2, <2>1, <2>2, NothingTouched
  <2> QED BY <2>3, <2>4
<1>6. EventsOK' /\ (OneState => OneState')
      /\ \A i \in 1..Len(events') : events'[i].kind = "state" =>
            i \in 1..Len(events) /\ events'[i] = events[i]
  <2>1. CASE UNCHANGED events
    BY <1>1, <2>1 DEF ControlInv, EventsOK, OneState
  <2>2. CASE \E m \in Sizes \cup {NoSize} : SetsMode(m)
    BY <1>1, <2>2, ModeSet DEF ControlInv
  <2> QED BY <1>1, <2>1, <2>2
<1>7. mode' \in Sizes \cup {NoSize}
  BY <1>1 DEF SetsMode, ControlInv, WorldOK
<1>8. draws' \in [Windows -> AnySize] /\ \A v \in Windows : draws[v] # NoSize => draws'[v] # NoSize
  BY <1>1, <1>4 DEF ControlInv, WorldOK
<1>9. WorldOK'
  BY <1>1, <1>7, <1>8 DEF ControlInv, WorldOK, Mapped
<1>10. ControlOK' /\ SizesOK'
  <2>1. ControlOK'
    BY <1>1, <1>5 DEF ControlInv, ControlOK, Quietly, NoneAsked
  <2>2. SizesOK'
    BY <1>1, <1>5, <1>8 DEF ControlInv, SizesOK, Quietly, LooksKept
  <2> QED BY <2>1, <2>2
<1>11. ASSUME CalmInv
       PROVE  CalmInv'
  <2>1. NothingAskedMeanwhile' /\ LookedAt'
    BY <1>1, <1>5, <1>11, NothingNewAsked, LookStays DEF CalmInv
  <2>2. EntersBare'
    BY <1>1, <1>5, <1>6, <1>11, BareStays DEF CalmInv, ControlInv
  <2> QED BY <1>6, <1>11, <2>1, <2>2 DEF CalmInv
<1> QED BY <1>6, <1>9, <1>10, <1>11 DEF ControlInv

LEMMA CommitKeeps ==
    ASSUME ControlInv, NEW w \in Windows, Commits(w)
    PROVE  ControlInv' /\ (CalmInv => CalmInv')
<1>1. /\ life[w] = "mapped" /\ control' = Damaged(control, w, draws[w])
      /\ UNCHANGED <<life, fullscreen, draws, mode, events, wanted>>
  BY DEF Commits, Mapped
<1>2. draws[w] \in RealSize
  BY <1>1 DEF ControlInv, WorldOK, SizesOK, AnySize
<1>3. Quietly(control, control')
  BY <1>1, <1>2, OneAtATime, DamageIsQuiet
<1> QED BY <1>1, <1>3, QuietStep

\* The client sends an event of its own.
LEMMA SendKeeps ==
    ASSUME ControlInv, NEW w \in Windows, life[w] = "mapped",
           NEW kind \in {"state", "resize"}, NEW value \in BOOLEAN, Sends(kind, w, value),
           UNCHANGED <<life, fullscreen, draws, mode, wanted, control>>
    PROVE  ControlInv'
<1> DEFINE e == [kind |-> kind, window |-> w, value |-> value]
<1>1. e \in Events /\ e.window = w
  BY DEF Events
<1>2. events' = Append(events, e)
  BY DEF Sends
<1> HIDE DEF e
<1>3. EventsOK'
  BY <1>1, <1>2, OneMore DEF ControlInv
<1>4. WorldOK' /\ ControlOK' /\ SizesOK'
  BY DEF ControlInv, WorldOK, ControlOK, SizesOK, Mapped
<1> QED BY <1>3, <1>4 DEF ControlInv

LEMMA OnlyOne ==
    ASSUME events = <<>>, NEW e, events' = Append(events, e)
    PROVE  Len(events') = 1 /\ events'[1] = e
<1>1. events' = <<e>>
  OBVIOUS
<1> QED BY <1>1

LEMMA StateAskedKeeps ==
    ASSUME ControlInv, NEW w \in Windows, AsksState(w)
    PROVE  ControlInv' /\ (Calm /\ CalmInv => CalmInv')
<1> DEFINE enter == ~fullscreen[w]
           e == [kind |-> "state", window |-> w, value |-> enter]
<1>1. /\ life[w] = "mapped"
      /\ \/ May("message") /\ Sends("state", w, enter)
         \/ May("reassert") /\ Sends("state", w, TRUE)
      /\ UNCHANGED <<life, fullscreen, draws, mode, wanted, control>>
  BY DEF AsksState, Mapped
<1>2. enter \in BOOLEAN
  OBVIOUS
<1> HIDE DEF enter
<1>3. ControlInv'
  BY <1>1, <1>2, SendKeeps
<1>4. ASSUME Calm, CalmInv
      PROVE  CalmInv'
  <2>1. May("message") /\ events' = Append(events, e)
    BY <1>1, <1>4 DEF Calm, May, Sends
  <2>2. events = <<>> /\ \A t \in control.timers : t.due # 0 \/ t.kind = "retry"
    BY <1>4, <2>1, MayWhen
  <2>3. e.kind = "state" /\ e.window = w /\ e.value = enter
    OBVIOUS
  <2> HIDE DEF e
  <2>4. Len(events') = 1 /\ events'[1] = e /\ 1..Len(events') = {1}
    BY <2>1, <2>2, OnlyOne
  <2>5. ~fullscreen[w] => control.requests[w] = NoRequest
    <3>1. Timer("apply", w, 0, 0).due = 0 /\ Timer("apply", w, 0, 0).kind = "apply"
      BY DEF Timer
    <3>2. Timer("apply", w, 0, 0) \notin control.timers
      BY <2>2, <3>1
    <3> QED BY <1>4, <3>2 DEF CalmInv, LookedAt
  <2>6. EntersBare'
    <3>1. \A i \in 1..Len(events') : events'[i] = e
      BY <2>4
    <3>2. e.value => ~fullscreen'[e.window] /\ control'.requests[e.window] = NoRequest
      BY <1>1, <2>3, <2>5 DEF enter
    <3> QED BY <3>1, <3>2 DEF EntersBare
  <2>7. OneState'
    BY <2>4 DEF OneState
  <2>8. NothingAskedMeanwhile' /\ LookedAt'
    BY <1>1, <1>4 DEF CalmInv, NothingAskedMeanwhile, LookedAt, Timer
  <2> QED BY <2>6, <2>7, <2>8 DEF CalmInv
<1> QED BY <1>3, <1>4

LEMMA SizeAskedKeeps ==
    ASSUME ControlInv, NEW w \in Windows, AsksSize(w)
    PROVE  ControlInv' /\ (Calm /\ CalmInv => CalmInv')
<1> DEFINE e == [kind |-> "resize", window |-> w, value |-> FALSE]
<1>1. /\ life[w] = "mapped" /\ May("resize") /\ Sends("resize", w, FALSE)
      /\ UNCHANGED <<life, fullscreen, draws, mode, wanted, control>>
  BY DEF AsksSize, Mapped
<1>2. ControlInv'
  BY <1>1, SendKeeps
<1>3. ASSUME Calm, CalmInv
      PROVE  CalmInv'
  <2>1. events = <<>> /\ events' = Append(events, e) /\ e.kind # "state"
    BY <1>1, <1>3, MayWhen DEF Sends
  <2> HIDE DEF e
  <2>2. Len(events') = 1 /\ events'[1] = e /\ 1..Len(events') = {1}
    BY <2>1, OnlyOne
  <2>3. EntersBare' /\ OneState'
    BY <2>1, <2>2 DEF EntersBare, OneState
  <2>4. NothingAskedMeanwhile' /\ LookedAt'
    BY <1>1, <1>3 DEF CalmInv, NothingAskedMeanwhile, LookedAt, Timer
  <2> QED BY <2>3, <2>4 DEF CalmInv
<1> QED BY <1>2, <1>3

LEMMA ChoiceKeeps ==
    ASSUME ControlInv, ChoosesMode
    PROVE  ControlInv' /\ (CalmInv => CalmInv')
<1>1. PICK m \in Sizes \cup {NoSize} : SetsMode(m)
  BY DEF ChoosesMode
<1>2. UNCHANGED <<life, fullscreen, draws, wanted, control>> /\ mode' = m
  BY <1>1 DEF ChoosesMode, SetsMode
<1>3. EventsOK' /\ (OneState => OneState')
      /\ \A i \in 1..Len(events') : events'[i].kind = "state" =>
            i \in 1..Len(events) /\ events'[i] = events[i]
  BY <1>1, <1>2, ModeSet DEF ControlInv
<1>4. WorldOK' /\ ControlOK' /\ SizesOK'
  BY <1>1, <1>2 DEF ControlInv, WorldOK, ControlOK, SizesOK, Mapped
<1>5. ASSUME CalmInv
      PROVE  CalmInv'
  <2>1. NothingAskedMeanwhile' /\ LookedAt'
    BY <1>2, <1>5 DEF CalmInv, NothingAskedMeanwhile, LookedAt, Timer
  <2>2. Quietly(control, control')
    BY <1>2, OneAtATime, QuietAtAll
  <2>3. EntersBare'
    BY <1>2, <1>3, <1>5, <2>2, BareStays DEF CalmInv, ControlInv
  <2> QED BY <1>3, <1>5, <2>1, <2>3 DEF CalmInv
<1> QED BY <1>3, <1>4, <1>5 DEF ControlInv

-----------------------------------------------------------------------------
(* The theorems.                                                           *)

LEMMA ControlStarts ==
    ASSUME Init
    PROVE  ControlInv /\ CalmInv
<1> DEFINE requests == [w \in Windows |-> NoRequest]
           fresh == Fresh
           none == [w \in Windows |-> 0]
           size == [w \in Windows |-> NoSize]
           told == [w \in Windows |-> <<>>]
<1>1. /\ life = [w \in Windows |-> "none"] /\ fullscreen = [w \in Windows |-> FALSE]
      /\ draws = size /\ mode = NoSize /\ events = <<>> /\ wanted \in Sizes
      /\ control = [requests |-> requests, negotiation |-> fresh, waiting |-> {},
                    withdrawals |-> none, overdue |-> {}, releases |-> none, timers |-> {},
                    generation |-> 0, stretched |-> {}, size |-> size, told |-> told]
  BY DEF Init
<1>2. /\ requests \in [Windows -> Requests] /\ fresh \in Negotiations
      /\ none \in [Windows -> Nat] /\ size \in [Windows -> AnySize]
      /\ told \in [Windows -> Seq(RealSize)] /\ fresh.validation = 0
      /\ \A w \in Windows : requests[w] = NoRequest
  BY NoRequestParts DEF Fresh, Negotiations, AnySize
<1> HIDE DEF requests, fresh, none, size, told
<1>3. control \in Controls
  BY <1>1, <1>2 DEF Controls
<1>4. /\ control.requests = requests /\ control.negotiation = fresh
      /\ control.timers = {} /\ control.stretched = {}
  BY <1>1
<1>5. Numbered(control)
  <2>1. \A w \in Windows : control.requests[w].verdict = 0
    BY <1>2, <1>4, NoRequestParts
  <2>2. control.negotiation.validation = 0
    BY <1>2, <1>4
  <2>3. \E b \in Nat : b = 0
    OBVIOUS
  <2>4. 0 <= 0
    OBVIOUS
  <2> QED BY <1>4, <2>1, <2>2, <2>3, <2>4 DEF Numbered
<1>6. ControlOK
  BY <1>2, <1>3, <1>4, <1>5 DEF ControlOK, Sound
<1>7. WorldOK /\ SizesOK
  BY <1>1, <1>2 DEF WorldOK, SizesOK, Mapped
<1>8. events \in Seq(Events) /\ 1..Len(events) = {}
  BY <1>1
<1>9. EventsOK /\ EntersBare /\ OneState
  BY <1>8 DEF EventsOK, EntersBare, OneState
<1>10. NothingAskedMeanwhile /\ LookedAt
  BY <1>2, <1>4 DEF NothingAskedMeanwhile, LookedAt
<1> QED BY <1>6, <1>7, <1>9, <1>10 DEF ControlInv, CalmInv

LEMMA ControlStep ==
    ASSUME ControlInv, [Next]_vars
    PROVE  ControlInv' /\ (Calm /\ CalmInv => CalmInv')
<1>1. CASE UNCHANGED vars
  <2>1. UNCHANGED <<life, fullscreen, draws, mode, events, wanted, control>>
    BY <1>1 DEF vars
  <2> QED BY <2>1, OneAtATime, QuietAtAll, QuietStep
<1>2. ASSUME NEW w \in Windows, Map(w) \/ Close(w) \/ KWinToggles(w)
      PROVE  ControlInv' /\ (Calm /\ CalmInv => CalmInv')
  BY <1>2, MapKeeps, CloseKeeps, ToggleKeeps
<1>3. ASSUME NEW w \in Windows, Client(w) \/ AsksState(w) \/ AsksSize(w)
      PROVE  ControlInv' /\ (Calm /\ CalmInv => CalmInv')
  BY <1>3, ReadKeeps, CommitKeeps, StateAskedKeeps, SizeAskedKeeps DEF Client
<1>4. CASE SaveSettings \/ ChoosesMode
  BY <1>4, SaveKeeps, ChoiceKeeps
<1>5. CASE XEvent
  BY <1>5, ModeKeeps, LeaveKeeps, FullscreenKeeps, ResizeKeeps DEF XEvent
<1>6. ASSUME NEW t \in control.timers, Callback(t)
      PROVE  ControlInv' /\ (Calm /\ CalmInv => CalmInv')
  BY <1>6, LookKeeps, ReleaseEndKeeps, WithdrawalEndKeeps, JudgeKeeps, AskAgainKeeps,
     ExpireKeeps DEF Callback
<1> QED BY <1>1, <1>2, <1>3, <1>4, <1>5, <1>6 DEF Next

\* At most one window is mapped, only a mapped window stands under a request or
\* has events in the queue, and what the handlers number is numbered past
\* everything that is pending (++m_nextWait, x11resolution_events.cpp:175).
THEOREM ControlInvariance == Spec => []ControlInv
<1>1. Init => ControlInv
  BY ControlStarts
<1>2. ControlInv /\ [Next]_vars => ControlInv'
  BY ControlStep
<1> QED BY <1>1, <1>2, PTL DEF Spec

\* A surface this control sized has a request that was presented: every way a
\* request ends puts the surface back before (restore() and forget()), whatever
\* the client, the user and KWin do meanwhile.
THEOREM NoPictureOutlivesItsRequest == Spec => []StretchedByRequest
<1>1. ControlInv => StretchedByRequest
  BY DEF ControlInv, ControlOK, Sound, StretchedByRequest
<1> QED BY <1>1, ControlInvariance, PTL

\* "Nothing is asked of the client until it has withdrawn the emulated mode of
\* the request before this one" (x11resolution.cpp:453), as long as no client asks
\* again for the fullscreen it has and nobody acts before KWin handled what came
\* before.  Otherwise a message that asks for fullscreen can find a request that
\* stands: fullscreenRequest() restores it, which begins a wait, and asks again in
\* the same call, as the run x11_reassert shows.
THEOREM CalmlyAsked == Calm /\ Spec => []NothingAskedMeanwhile
<1> SUFFICES ASSUME Calm
             PROVE  Spec => []NothingAskedMeanwhile
  OBVIOUS
<1>1. Init => CalmInv
  BY ControlStarts
<1>2. ControlInv /\ CalmInv /\ [Next]_vars => CalmInv'
  BY ControlStep
<1>3. CalmInv => NothingAskedMeanwhile
  BY DEF CalmInv
<1> QED BY <1>1, <1>2, <1>3, ControlInvariance, PTL DEF Spec

-----------------------------------------------------------------------------
(* The answer to a request is awaited.                                     *)

\* A callback that ends the release of a request which stands.
EndsRelease(c, t) ==
    /\ t.kind \in {"release", "answer"}
    /\ c.releases[t.window] = t.token /\ c.requests[t.window] # NoRequest

\* The verdict on a request comes no more.
Over(c, verdict) == \A t \in c.timers : t.kind = "validate" => t.due # verdict

\* A verdict is of the request whose number it has, and a release ends with the
\* answer or with the verdict of the request it releases.
EndsInTime(c, t) ==
    /\ t.kind = "answer" => c.requests[t.window].answered
    /\ t.kind = "release" => \/ t.due = c.requests[t.window].verdict
                             \/ Over(c, c.requests[t.window].verdict)

Orderly(c) ==
    /\ \A t \in c.timers : t.kind \in {"validate", "release", "answer"} => t.token # 0
    /\ \A t \in c.timers : t.kind = "validate" => t.due = t.token
    /\ \A w \in Windows : c.requests[w] # NoRequest =>
          c.negotiation.validation \in {c.requests[w].verdict, 0}
    /\ \A t \in c.timers : EndsRelease(c, t) => EndsInTime(c, t)

\* Nothing new is asked, released or judged.
SameOrLess(c, d, w) ==
    \/ d.requests[w] = NoRequest
    \/ /\ c.requests[w] # NoRequest
       /\ d.requests[w].verdict = c.requests[w].verdict
       /\ c.requests[w].answered => d.requests[w].answered

Subsides(c, d) ==
    /\ \A w \in Windows : SameOrLess(c, d, w) /\ d.releases[w] \in {c.releases[w], 0}
    /\ d.negotiation.validation \in {c.negotiation.validation, 0}
    /\ \A t \in d.timers :
          t \in c.timers \/ t.kind \notin {"validate", "release", "answer"}

LEMMA SubsidesAtAll ==
    ASSUME NEW c
    PROVE  Subsides(c, c)
BY DEF Subsides, SameOrLess

LEMMA SubsidesOn ==
    ASSUME NEW c, NEW d, NEW e, Subsides(c, d), Subsides(d, e)
    PROVE  Subsides(c, e)
<1>1. ASSUME NEW w \in Windows
      PROVE  SameOrLess(c, e, w) /\ e.releases[w] \in {c.releases[w], 0}
  BY DEF Subsides, SameOrLess
<1>2. e.negotiation.validation \in {c.negotiation.validation, 0}
  BY DEF Subsides
<1>3. \A t \in e.timers : t \in c.timers \/ t.kind \notin {"validate", "release", "answer"}
  BY DEF Subsides
<1> QED BY <1>1, <1>2, <1>3 DEF Subsides

LEMMA StaysOrderly ==
    ASSUME NEW c \in Controls, Orderly(c), NEW d, Subsides(c, d)
    PROVE  Orderly(d)
<1>1. \A t \in d.timers : t \in c.timers \/ t.kind \notin {"validate", "release", "answer"}
  BY DEF Subsides
<1>2. /\ \A t \in d.timers : t.kind \in {"validate", "release", "answer"} => t.token # 0
      /\ \A t \in d.timers : t.kind = "validate" => t.due = t.token
  BY <1>1 DEF Orderly
<1>3. ASSUME NEW w \in Windows, d.requests[w] # NoRequest
      PROVE  d.negotiation.validation \in {d.requests[w].verdict, 0}
  BY <1>3 DEF Orderly, Subsides, SameOrLess
<1>4. ASSUME NEW t \in d.timers, EndsRelease(d, t)
      PROVE  EndsInTime(d, t)
  <2>1. t \in c.timers /\ t.token # 0 /\ t.kind \in {"release", "answer"}
    BY <1>1, <1>2, <1>4 DEF EndsRelease
  <2>2. t.window \in Windows
    BY <2>1, ControlParts, TimerParts
  <2> DEFINE w == t.window
  <2>3. d.releases[w] = t.token /\ d.requests[w] # NoRequest
    BY <1>4 DEF EndsRelease
  <2>4. /\ c.requests[w] # NoRequest /\ d.requests[w].verdict = c.requests[w].verdict
        /\ c.requests[w].answered => d.requests[w].answered
        /\ c.releases[w] = t.token
    BY <2>1, <2>2, <2>3 DEF Subsides, SameOrLess
  <2>5. EndsInTime(c, t)
    BY <2>1, <2>4 DEF EndsRelease, Orderly
  <2>6. Over(c, c.requests[w].verdict) => Over(d, d.requests[w].verdict)
    BY <1>1, <2>4 DEF Over
  <2> QED BY <2>4, <2>5, <2>6 DEF EndsInTime
<1> QED BY <1>2, <1>3, <1>4 DEF Orderly

\* What leaves the requests alone.
LEMMA LessWaits ==
    ASSUME NEW c, NEW d, d.requests = c.requests, d.releases = c.releases,
           d.negotiation.validation \in {c.negotiation.validation, 0},
           \A t \in d.timers : t \in c.timers
               \/ t.kind \notin {"validate", "release", "answer"}
    PROVE  Subsides(c, d)
BY DEF Subsides, SameOrLess

LEMMA SizeSubsides ==
    ASSUME NEW c, NEW d, SizeOnly(c, d)
    PROVE  Subsides(c, d) /\ d.requests = c.requests /\ d.negotiation = c.negotiation
BY LessWaits DEF SizeOnly

LEMMA LookSubsides ==
    ASSUME NEW c \in Controls, NEW w \in Windows
    PROVE  /\ Subsides(c, Schedule(c, w)) /\ Schedule(c, w).requests = c.requests
           /\ Schedule(c, w).negotiation = c.negotiation
<1> DEFINE look == Timer("apply", w, 0, 0)
           d == Schedule(c, w)
<1>1. look.kind = "apply"
  BY DEF Timer
<1> HIDE DEF look
<1>2. /\ d.requests = c.requests /\ d.releases = c.releases
      /\ d.negotiation = c.negotiation /\ d.timers = c.timers \cup {look}
  BY DEF Schedule, Controls, look
<1> HIDE DEF d
<1>3. Subsides(c, d)
  BY <1>1, <1>2, LessWaits
<1> QED BY <1>2, <1>3 DEF d

LEMMA WithdrawalSubsides ==
    ASSUME NEW c \in Controls, NEW w \in Windows
    PROVE  /\ Subsides(c, AwaitWithdrawal(c, w))
           /\ AwaitWithdrawal(c, w).negotiation = c.negotiation
<1> DEFINE n == Number(c)
           wait == Timer("withdraw", w, n, n)
           d == AwaitWithdrawal(c, w)
<1>1. wait.kind = "withdraw"
  BY DEF Timer
<1>2. d = [c EXCEPT !.withdrawals[w] = n, !.overdue = @ \ {w}, !.timers = @ \cup {wait}]
  BY DEF AwaitWithdrawal
<1> HIDE DEF n, wait, d
<1>3. /\ d.requests = c.requests /\ d.releases = c.releases
      /\ d.negotiation = c.negotiation /\ d.timers = c.timers \cup {wait}
  BY <1>2 DEF Controls
<1>4. Subsides(c, d)
  BY <1>1, <1>3, LessWaits
<1> QED BY <1>3, <1>4 DEF d

\* A window is given back.
LEMMA RestoreSubsides ==
    ASSUME NEW c, Sound(c), NEW w \in Windows
    PROVE  Subsides(c, Restore(c, w)) /\ Restore(c, w).negotiation = c.negotiation
<1> DEFINE e == Unstretch(c, w)
           ended == [e EXCEPT !.waiting = @ \ {w}, !.releases[w] = 0, !.requests[w] = NoRequest]
           handed == Configure(ended, w, NormalSize(w))
<1>1. c \in Controls
  BY DEF Sound
<1>2. /\ e \in Controls /\ e.requests = c.requests
      /\ e.timers = c.timers /\ e.negotiation = c.negotiation
  BY Unstretched
<1>3. e.releases = c.releases
  BY <1>1 DEF Unstretch, Controls
<1>4. Quietly(c, ended)
  BY Ended DEF GivenBack
<1>5. /\ c.requests[w] = NoRequest => Restore(c, w) = ended
      /\ c.requests[w] # NoRequest /\ mode # NoSize => Restore(c, w) = AwaitWithdrawal(handed, w)
      /\ c.requests[w] # NoRequest /\ mode = NoSize => Restore(c, w) = handed
  BY DEF Restore
<1> HIDE DEF e
<1>6. RequestEnded(e, ended, w)
  BY <1>2, EndedParts
<1>7. /\ ended.requests = [e.requests EXCEPT ![w] = NoRequest]
      /\ ended.timers = e.timers /\ ended.negotiation = e.negotiation
      /\ ended.releases = [e.releases EXCEPT ![w] = 0]
  BY <1>2 DEF Controls
<1> HIDE DEF ended
<1>8. Subsides(c, ended)
  <2>1. ASSUME NEW v \in Windows
        PROVE  SameOrLess(c, ended, v) /\ ended.releases[v] \in {c.releases[v], 0}
    <3>1. c.requests \in [Windows -> Requests] /\ c.releases \in [Windows -> Nat]
      BY <1>1 DEF Controls
    <3>2. ended.requests[v] \in {NoRequest, c.requests[v]}
      BY <1>2, <1>7, <3>1
    <3>3. ended.releases[v] \in {c.releases[v], 0}
      BY <1>3, <1>7, <3>1
    <3> QED BY <3>2, <3>3 DEF SameOrLess
  <2> QED BY <1>2, <1>7, <2>1 DEF Subsides
<1>9. NormalSize(w) \in RealSize /\ Sound(ended)
  BY <1>4 DEF NormalSize, RealSize, Quietly
<1>10. SizeOnly(ended, handed)
  BY <1>9, Configured
<1> HIDE DEF handed
<1>11. Subsides(c, handed) /\ handed \in Controls /\ handed.negotiation = c.negotiation
  BY <1>2, <1>7, <1>8, <1>10, SizeSubsides, SubsidesOn DEF SizeOnly, Sound
<1>12. /\ Subsides(c, AwaitWithdrawal(handed, w))
       /\ AwaitWithdrawal(handed, w).negotiation = c.negotiation
  BY <1>11, WithdrawalSubsides, SubsidesOn
<1> QED BY <1>2, <1>5, <1>7, <1>8, <1>11, <1>12

LEMMA AllSubside ==
    ASSUME NEW c, Sound(c), OneRequested(c)
    PROVE  /\ Subsides(c, RestoreEach(c, Requested(c)))
           /\ RestoreEach(c, Requested(c)).negotiation = c.negotiation
<1>1. CASE Requested(c) = {}
  BY <1>1, RestoreNone, SubsidesAtAll
<1>2. ASSUME NEW w \in Windows, Requested(c) = {w}
      PROVE  /\ Subsides(c, RestoreEach(c, Requested(c)))
             /\ RestoreEach(c, Requested(c)).negotiation = c.negotiation
  BY <1>2, RestoreOne, RestoreSubsides
<1> QED BY <1>1, <1>2, OneOrNone

LEMMA NegotiationSubsides ==
    ASSUME NEW c, Sound(c), NEW N \in Negotiations,
           N.validation \in {c.negotiation.validation, 0},
           NEW d, d = [c EXCEPT !.negotiation = N]
    PROVE  Subsides(c, d)
<1>1. /\ d.requests = c.requests /\ d.releases = c.releases /\ d.timers = c.timers
      /\ d.negotiation = N
  BY NegotiationSet
<1> QED BY <1>1, LessWaits

LEMMA RefusalSubsides ==
    ASSUME NEW c, Sound(c), OneRequested(c)
    PROVE  Subsides(c, Refuse(c)) /\ Refuse(c).negotiation.failed
<1> DEFINE N == [c.negotiation EXCEPT !.failed = TRUE]
           d == [c EXCEPT !.negotiation = N]
<1>1. c.negotiation \in Negotiations
  BY ControlParts DEF Sound
<1>2. N \in Negotiations /\ N.validation = c.negotiation.validation /\ N.failed
  BY <1>1 DEF Negotiations
<1>3. Refuse(c) = RestoreEach(d, Requested(c))
  BY DEF Refuse
<1> HIDE DEF N
<1>4. Quietly(c, d) /\ d.requests = c.requests /\ Subsides(c, d) /\ d.negotiation = N
  BY <1>2, NegotiationSet, NegotiationSubsides
<1> HIDE DEF d
<1>5. Requested(d) = Requested(c) /\ Sound(d) /\ OneRequested(d)
  BY <1>4 DEF Requested, OneRequested, Quietly
<1> QED BY <1>2, <1>3, <1>4, <1>5, AllSubside, SubsidesOn

\* A request which stands and has no answer yet.
Unanswered(c, w) ==
    /\ c.requests[w] # NoRequest /\ ~c.requests[w].answered
    /\ mode # c.requests[w].size

LEMMA ReleaseSet ==
    ASSUME NEW c, Sound(c), Orderly(c), NEW w \in Windows, NEW n, n = Number(c),
           NEW due, due = c.requests[w].verdict \/ Over(c, c.requests[w].verdict),
           NEW d, d.requests = c.requests, d.negotiation = c.negotiation,
           d.releases = [c.releases EXCEPT ![w] = n],
           d.timers = c.timers \cup {Timer("release", w, n, due)}
    PROVE  Orderly(d)
<1> DEFINE wait == Timer("release", w, n, due)
<1>1. c \in Controls /\ n # 0 /\ \A t \in c.timers : t.token # n
  BY NumberIsNew DEF Sound
<1>2. wait.kind = "release" /\ wait.token = n /\ wait.window = w /\ wait.due = due
  BY DEF Timer
<1> HIDE DEF wait
<1>3. d.timers = c.timers \cup {wait}
  BY DEF wait
<1>4. c.releases \in [Windows -> Nat]
  BY <1>1 DEF Controls
<1>5. d.releases[w] = n /\ \A v \in Windows \ {w} : d.releases[v] = c.releases[v]
  BY <1>4
<1>6. /\ \A t \in d.timers : t.kind \in {"validate", "release", "answer"} => t.token # 0
      /\ \A t \in d.timers : t.kind = "validate" => t.due = t.token
  BY <1>1, <1>2, <1>3 DEF Orderly
<1>7. ASSUME NEW v \in Windows, d.requests[v] # NoRequest
      PROVE  d.negotiation.validation \in {d.requests[v].verdict, 0}
  BY <1>7 DEF Orderly
<1>8. ASSUME NEW verdict, Over(c, verdict)
      PROVE  Over(d, verdict)
  BY <1>2, <1>3, <1>8 DEF Over
<1>9. ASSUME NEW t \in d.timers, EndsRelease(d, t)
      PROVE  EndsInTime(d, t)
  <2>1. CASE t = wait
    BY <1>2, <1>8, <2>1 DEF EndsInTime
  <2>2. CASE t \in c.timers
    <3>1. t.window \in Windows
      BY <1>1, <1>9, <2>2, ControlParts, TimerParts DEF EndsRelease
    <3>2. t.window # w
      BY <1>1, <1>5, <1>9, <2>2 DEF EndsRelease
    <3>3. EndsRelease(c, t)
      BY <1>5, <1>9, <3>1, <3>2 DEF EndsRelease
    <3>4. EndsInTime(c, t)
      BY <2>2, <3>3 DEF Orderly
    <3> QED BY <1>8, <3>4 DEF EndsInTime
  <2> QED BY <1>3, <2>1, <2>2
<1> QED BY <1>6, <1>7, <1>9 DEF Orderly

LEMMA ReleaseAwaits ==
    ASSUME NEW c, Sound(c), Orderly(c), NEW w \in Windows
    PROVE  LET d == Release(c, w)
           IN  /\ Orderly(d)
               /\ Unanswered(c, w) => d.requests = c.requests /\ d.releases[w] # 0
<1> DEFINE verdict == c.requests[w].verdict
           n == Number(c)
           remaining == IF \E t \in c.timers : t.due = verdict THEN verdict ELSE 0
           wait == Timer("release", w, n, remaining)
           d == Release(c, w)
<1>1. c \in Controls /\ n \in Nat /\ n # 0
  BY NumberIsNew DEF Sound
<1>2. /\ ~Unanswered(c, w) => d = Restore(c, w)
      /\ Unanswered(c, w) => d = [c EXCEPT !.releases[w] = n, !.timers = @ \cup {wait}]
  BY DEF Release, Unanswered
<1>3. CASE ~Unanswered(c, w)
  <2>1. Subsides(c, d)
    BY <1>2, <1>3, RestoreSubsides
  <2> HIDE DEF d
  <2>2. Orderly(d)
    BY <1>1, <2>1, StaysOrderly
  <2> QED BY <1>3, <2>2 DEF d
<1>4. CASE Unanswered(c, w)
  <2>1. remaining = verdict \/ Over(c, verdict)
    BY DEF Over
  <2> HIDE DEF remaining, n, d
  <2>2. /\ d.requests = c.requests /\ d.negotiation = c.negotiation
        /\ d.releases = [c.releases EXCEPT ![w] = n] /\ d.timers = c.timers \cup {wait}
    BY <1>1, <1>2, <1>4 DEF Controls
  <2>3. d.releases[w] = n
    BY <1>1, <2>2 DEF Controls
  <2>4. Orderly(d)
    BY <2>1, <2>2, ReleaseSet DEF n
  <2> QED BY <1>1, <2>2, <2>3, <2>4 DEF d
<1> QED BY <1>3, <1>4

\* A window is asked.
LEMMA MadeOrderly ==
    ASSUME NEW c, Sound(c), Orderly(c), NEW w \in Windows, NEW s \in Sizes,
           Requested(c) = {}, c.releases[w] = 0,
           NEW N \in Negotiations, NEW n \in Nat, n # 0, N.validation = n,
           NEW answered \in BOOLEAN
    PROVE  LET d == Made(c, w, s, N, n, answered)
           IN  Orderly(d) /\ d.requests[w].size = s
<1> DEFINE request == [size |-> s, answered |-> answered, presented |-> FALSE, verdict |-> n]
           judge == Timer("validate", NoWindow, n, n)
           d == Made(c, w, s, N, n, answered)
<1>1. c \in Controls /\ \A v \in Windows : c.requests[v] = NoRequest
  BY DEF Sound, Requested
<1>2. request.verdict = n /\ request.size = s
  OBVIOUS
<1>3. judge.kind = "validate" /\ judge.token = n /\ judge.due = n
  BY DEF Timer
<1>4. d = [c EXCEPT !.negotiation = N, !.requests[w] = request, !.timers = @ \cup {judge}]
  BY DEF Made
<1> HIDE DEF request, judge, d
<1>5. /\ d.negotiation = N /\ d.timers = c.timers \cup {judge} /\ d.releases = c.releases
      /\ d.requests[w] = request /\ \A v \in Windows \ {w} : d.requests[v] = NoRequest
  BY <1>1, <1>4 DEF Controls
<1>6. /\ \A t \in d.timers : t.kind \in {"validate", "release", "answer"} => t.token # 0
      /\ \A t \in d.timers : t.kind = "validate" => t.due = t.token
  BY <1>3, <1>5 DEF Orderly
<1>7. ASSUME NEW v \in Windows, d.requests[v] # NoRequest
      PROVE  d.negotiation.validation \in {d.requests[v].verdict, 0}
  BY <1>2, <1>5, <1>7
<1>8. ASSUME NEW t \in d.timers, EndsRelease(d, t)
      PROVE  FALSE
  <2>1. t \in c.timers /\ t.token # 0 /\ t.window \in Windows
    BY <1>1, <1>3, <1>5, <1>6, <1>8, ControlParts, TimerParts DEF EndsRelease
  <2>2. t.window = w
    BY <1>5, <1>8, <2>1 DEF EndsRelease
  <2> QED BY <1>5, <1>8, <2>1, <2>2 DEF EndsRelease
<1> QED BY <1>2, <1>5, <1>6, <1>7, <1>8 DEF Orderly, d

LEMMA BegunOrderly ==
    ASSUME NEW c, Sound(c), Orderly(c), NEW w \in Windows, NEW s \in Sizes,
           Requested(c) = {}, c.releases[w] = 0
    PROVE  LET d == Begun(c, w, s)
           IN  Orderly(d) /\ (d.negotiation.failed \/ d.requests[w].size = s)
<1> DEFINE tried == IF c.negotiation.window = w THEN c.negotiation
                    ELSE [c.negotiation EXCEPT !.window = w, !.count = @ + 1]
           n == Number(c)
           N == [tried EXCEPT !.validation = n]
           answered == (mode = s)
           d == [c EXCEPT !.negotiation = tried]
           e == Made(c, w, s, N, n, answered)
<1>1. /\ s \notin Available => Begun(c, w, s) = Refuse(c)
      /\ s \in Available /\ tried.count > MaxAttempts => Begun(c, w, s) = Refuse(d)
      /\ s \in Available /\ ~(tried.count > MaxAttempts) => Begun(c, w, s) = e
  BY DEF Begun, Made
<1>2. /\ c \in Controls /\ c.negotiation \in Negotiations /\ n \in Nat /\ n # 0
      /\ OneRequested(c)
  BY ControlParts, NumberIsNew DEF Sound, OneRequested
<1>3. tried \in Negotiations /\ tried.validation = c.negotiation.validation
  <2> DEFINE other == [c.negotiation EXCEPT !.window = w, !.count = @ + 1]
  <2>1. other \in Negotiations /\ other.validation = c.negotiation.validation
    BY <1>2, WindowTried
  <2> HIDE DEF other
  <2>2. tried \in {c.negotiation, other}
    BY DEF other
  <2> QED BY <1>2, <2>1, <2>2
<1> HIDE DEF n, tried
<1>4. N \in Negotiations /\ N.validation = n
  BY <1>2, <1>3 DEF Negotiations
<1>5. Orderly(Refuse(c)) /\ Refuse(c).negotiation.failed
  BY <1>2, RefusalSubsides, StaysOrderly
<1>6. Orderly(Refuse(d)) /\ Refuse(d).negotiation.failed
  <2>1. Quietly(c, d) /\ d.requests = c.requests /\ Subsides(c, d)
    BY <1>3, NegotiationSet, NegotiationSubsides
  <2> HIDE DEF d
  <2>2. Sound(d) /\ OneRequested(d)
    BY <1>2, <2>1 DEF OneRequested, Requested, Quietly
  <2>3. Subsides(c, Refuse(d)) /\ Refuse(d).negotiation.failed
    BY <2>1, <2>2, RefusalSubsides, SubsidesOn
  <2> QED BY <1>2, <2>3, StaysOrderly
<1>7. Orderly(e) /\ e.requests[w].size = s
  <2>1. answered \in BOOLEAN
    OBVIOUS
  <2> HIDE DEF N, answered
  <2> QED BY <1>2, <1>4, <2>1, MadeOrderly
<1> HIDE DEF d, e
<1> QED BY <1>1, <1>5, <1>6, <1>7

LEMMA AloneIsOne ==
    ASSUME NEW c, NEW w, Requested(c) \subseteq {w}
    PROVE  OneRequested(c)
BY DEF OneRequested

LEMMA StaysAlone ==
    ASSUME NEW c, NEW d, NEW w, Requested(c) \subseteq {w}, Touching(c, d, w)
    PROVE  Requested(d) \subseteq {w}
BY DEF Touching, Requested

LEMMA BeginOrderly ==
    ASSUME NEW c, Sound(c), Orderly(c), NEW w \in Windows, NEW s \in Sizes,
           Requested(c) \subseteq {w}
    PROVE  LET d == Begin(c, w, s)
           IN  Orderly(d) /\ (d.negotiation.failed \/ d.requests[w].size = s)
<1> DEFINE given == Restore(c, w)
<1>1. /\ c.requests[w].size = s => Begin(c, w, s) = c
      /\ c.requests[w].size # s => Begin(c, w, s) = Begun(given, w, s)
  BY DEF Begin
<1>2. GivenBack(c, given, w) /\ Subsides(c, given)
  BY Restored, RestoreSubsides
<1> HIDE DEF given
<1>3. /\ Sound(given) /\ given.requests[w] = NoRequest /\ given.releases[w] = 0
      /\ \A v \in Windows \ {w} : given.requests[v] = c.requests[v]
  BY <1>2, BackForEach
<1>4. Requested(given) = {}
  BY <1>3 DEF Requested
<1>5. Orderly(given)
  BY <1>2, StaysOrderly DEF Sound
<1>6. LET d == Begun(given, w, s)
      IN  Orderly(d) /\ (d.negotiation.failed \/ d.requests[w].size = s)
  BY <1>3, <1>4, <1>5, BegunOrderly
<1> QED BY <1>1, <1>6

LEMMA SizeAskedOrderly ==
    ASSUME NEW c, Sound(c), Orderly(c), NEW w \in Windows, NEW s \in Sizes,
           Requested(c) \subseteq {w}
    PROVE  Orderly(AskSize(c, w, s))
<1> DEFINE begun == Begin(c, w, s)
<1>1. Orderly(begun)
  BY BeginOrderly
<1>2. Sound(begun) /\ begun \in Controls /\ s \in RealSize
  BY AloneIsOne, BeginTouches DEF Touching, Sound, RealSize
<1>3. AskSize(c, w, s) \in {begun, Configure(begun, w, s)}
  BY DEF AskSize
<1> HIDE DEF begun
<1>4. Subsides(begun, Configure(begun, w, s))
  BY <1>2, Configured, SizeSubsides
<1> QED BY <1>1, <1>2, <1>3, <1>4, StaysOrderly

LEMMA AskOrderly ==
    ASSUME NEW c, Sound(c), Orderly(c), NEW w \in Windows, NEW s \in Sizes,
           Requested(c) \subseteq {w}
    PROVE  Orderly(Ask(c, w, s))
<1> DEFINE e == [c EXCEPT !.overdue = @ \ {w}]
<1>1. Ask(c, w, s) \in {c, AwaitWithdrawal(c, w), AskSize(e, w, s)}
  BY DEF Ask
<1>2. c \in Controls /\ Numbered(c)
  BY DEF Sound
<1>3. Orderly(AwaitWithdrawal(c, w))
  BY <1>2, WithdrawalSubsides, StaysOrderly
<1>4. e \in Controls
  BY <1>2 DEF Controls
<1>5. /\ e.requests = c.requests /\ e.releases = c.releases
      /\ e.withdrawals = c.withdrawals /\ e.size = c.size
      /\ e.timers = c.timers /\ e.negotiation = c.negotiation /\ e.stretched = c.stretched
  BY <1>2 DEF Controls
<1> HIDE DEF e
<1>6. Sound(e)
  BY <1>4, <1>5, NothingTouched DEF Quietly
<1>7. Orderly(e) /\ Requested(e) \subseteq {w}
  <2>1. Subsides(c, e)
    BY <1>5, LessWaits
  <2> QED BY <1>2, <1>5, <2>1, StaysOrderly DEF Requested
<1>8. Orderly(AskSize(e, w, s))
  BY <1>6, <1>7, SizeAskedOrderly
<1> QED BY <1>1, <1>3, <1>8

\* A look gives back a fullscreen window only once its request was answered.
LEMMA LookOrderly ==
    ASSUME NEW c, Sound(c), Orderly(c), OneRequested(c), NEW w \in Windows,
           fullscreen[w] => Requested(c) \subseteq {w}, wanted \in Sizes \cup {NoSize}
    PROVE  LET d == Apply(c, w)
           IN  /\ Orderly(d)
               /\ fullscreen[w] /\ Unanswered(c, w) => d.requests = c.requests
               /\ ~fullscreen[w] => \A v \in Windows \ {w} : d.requests[v] = c.requests[v]
<1> DEFINE s == AskedSize(c)
           released == Release(c, w)
           waiting == [c EXCEPT !.waiting = @ \cup {w}]
           d == Apply(c, w)
<1>1. /\ ~fullscreen[w] => d = Restore(c, w)
      /\ fullscreen[w] =>
            \/ d \in {c, released, waiting}
            \/ s # NoSize /\ c.requests[w] = NoRequest /\ d = Ask(c, w, s)
            \/ s # NoSize /\ released.releases[w] = 0 /\ d = Ask(released, w, s)
  BY DEF Apply
<1>2. s \in Sizes \cup {NoSize} /\ c \in Controls
  BY DEF AskedSize, Sound
<1>3. /\ Orderly(released)
      /\ Unanswered(c, w) => released.requests = c.requests /\ released.releases[w] # 0
  BY ReleaseAwaits
<1>4. Quietly(c, released)
  BY Released
<1>5. waiting.requests = c.requests /\ Orderly(waiting)
  <2>1. /\ waiting.requests = c.requests /\ waiting.releases = c.releases
        /\ waiting.timers = c.timers /\ waiting.negotiation = c.negotiation
    BY <1>2 DEF Controls
  <2> HIDE DEF waiting
  <2>2. Subsides(c, waiting)
    BY <2>1, LessWaits
  <2> QED BY <1>2, <2>1, <2>2, StaysOrderly
<1> HIDE DEF d, s, released, waiting
<1>6. CASE ~fullscreen[w]
  <2>1. Orderly(d)
    BY <1>1, <1>2, <1>6, RestoreSubsides, StaysOrderly
  <2>2. \A v \in Windows \ {w} : d.requests[v] = c.requests[v]
    BY <1>1, <1>6, Restored, BackForEach
  <2> QED BY <1>6, <2>1, <2>2 DEF d
<1>7. CASE fullscreen[w] /\ d \in {c, released, waiting}
  BY <1>3, <1>5, <1>7 DEF d
<1>8. CASE fullscreen[w] /\ s # NoSize /\ c.requests[w] = NoRequest /\ d = Ask(c, w, s)
  <2>1. Orderly(d)
    BY <1>2, <1>8, AskOrderly
  <2> QED BY <1>8, <2>1 DEF d, Unanswered
<1>9. CASE fullscreen[w] /\ s # NoSize /\ released.releases[w] = 0 /\ d = Ask(released, w, s)
  <2>1. Sound(released) /\ Requested(released) \subseteq {w}
    BY <1>4, <1>9, StaysOne DEF Quietly
  <2>2. Orderly(d)
    BY <1>2, <1>3, <1>9, <2>1, AskOrderly
  <2> QED BY <1>3, <1>9, <2>2 DEF d
<1> QED BY <1>1, <1>6, <1>7, <1>8, <1>9

LEMMA ToggleSubsides ==
    ASSUME NEW c, Sound(c), NEW w \in Windows, NEW enter \in BOOLEAN
    PROVE  LET d == Toggled(c, w, enter)
           IN  Subsides(c, d) /\ d.requests = c.requests /\ d.negotiation = c.negotiation
<1> DEFINE s == IF enter THEN Full ELSE Windowed
           sized == Configure(c, w, s)
<1>1. s \in RealSize
  BY DEF RealSize
<1>2. Toggled(c, w, enter) = Schedule(sized, w)
  BY DEF Toggled
<1> HIDE DEF s
<1>3. SizeOnly(c, sized)
  BY <1>1, Configured
<1> HIDE DEF sized
<1>4. sized \in Controls
  BY <1>3 DEF SizeOnly, Sound
<1> QED BY <1>2, <1>3, <1>4, SizeSubsides, LookSubsides, SubsidesOn

LEMMA FullscreenOrderly ==
    ASSUME NEW c, Sound(c), Orderly(c), NEW w \in Windows, Requested(c) \subseteq {w},
           wanted \in Sizes \cup {NoSize}
    PROVE  LET d == FullscreenAsked(c, w)
           IN  /\ Orderly(d)
               /\ c.requests[w] # NoRequest =>
                    d.negotiation.failed \/ d.requests[w] # NoRequest
<1> DEFINE s == AskedSize(c)
           begun == Begin(c, w, s)
           sized == Configure(begun, w, s)
           d == FullscreenAsked(c, w)
<1>1. \/ d \in {c, Toggled(c, w, TRUE)}
      \/ s # NoSize /\ d \in {begun, Toggled(begun, w, TRUE), sized, Schedule(sized, w)}
  BY DEF FullscreenAsked
<1>2. s \in Sizes \cup {NoSize} /\ c \in Controls
  BY DEF AskedSize, Sound
<1> HIDE DEF d, s
<1>3. CASE d \in {c, Toggled(c, w, TRUE)}
  <2>1. Subsides(c, d) /\ d.requests = c.requests
    BY <1>3, SubsidesAtAll, ToggleSubsides
  <2> QED BY <1>2, <2>1, StaysOrderly DEF d
<1>4. CASE s # NoSize /\ d \in {begun, Toggled(begun, w, TRUE), sized, Schedule(sized, w)}
  <2>1. s \in Sizes /\ s \in RealSize
    BY <1>2, <1>4 DEF RealSize
  <2>2. /\ Orderly(begun) /\ Sound(begun) /\ begun \in Controls
        /\ begun.negotiation.failed \/ begun.requests[w].size = s
    BY <2>1, AloneIsOne, BeginOrderly, BeginTouches DEF Touching, Sound
  <2> HIDE DEF begun
  <2>3. SizeOnly(begun, sized)
    BY <2>1, <2>2, Configured
  <2> HIDE DEF sized
  <2>4. /\ Subsides(begun, sized) /\ sized \in Controls
        /\ sized.requests = begun.requests /\ sized.negotiation = begun.negotiation
    BY <2>3, SizeSubsides DEF SizeOnly, Sound
  <2> DEFINE Same(e) == /\ Subsides(begun, e) /\ e.requests = begun.requests
                        /\ e.negotiation = begun.negotiation
  <2>5. Same(Schedule(sized, w))
    BY <2>4, LookSubsides, SubsidesOn
  <2>6. Same(begun) /\ Same(Toggled(begun, w, TRUE))
    BY <2>2, SubsidesAtAll, ToggleSubsides
  <2>7. Same(d)
    BY <1>4, <2>4, <2>5, <2>6
  <2>8. d.negotiation.failed \/ d.requests[w] # NoRequest
    BY <2>1, <2>2, <2>7, NoRequestParts, ConstantsAssumption
  <2> QED BY <2>2, <2>7, <2>8, StaysOrderly DEF d
<1> QED BY <1>1, <1>3, <1>4

LEMMA PresentSubsides ==
    ASSUME NEW c, Sound(c), NEW w \in Windows, NEW size \in RealSize
    PROVE  Subsides(c, Present(c, w, size))
<1> DEFINE request == c.requests[w]
           r == [request EXCEPT !.presented = TRUE]
           d == Present(c, w, size)
<1>1. c \in Controls /\ request \in Requests
  BY ControlParts DEF Sound
<1>2. \/ d = c
      \/ /\ request.size = size
         /\ d = [c EXCEPT !.requests[w] = r, !.stretched = @ \cup {w}]
  BY DEF Present
<1>3. CASE d = c
  BY <1>3, SubsidesAtAll
<1>4. CASE d # c
  <2>1. request # NoRequest
    BY <1>2, <1>4, NoRequestParts, ConstantsAssumption DEF RealSize
  <2> HIDE DEF request, d
  <2>2. r.verdict = request.verdict /\ (request.answered => r.answered)
    <3>1. request \in Asked
      BY <1>1, <2>1, RequestParts
    <3> QED BY <3>1 DEF Asked
  <2> HIDE DEF r
  <2>3. /\ d.releases = c.releases /\ d.timers = c.timers /\ d.negotiation = c.negotiation
        /\ d.requests[w] = r /\ \A v \in Windows \ {w} : d.requests[v] = c.requests[v]
    <3>1. d = [c EXCEPT !.requests[w] = r, !.stretched = @ \cup {w}]
      BY <1>2, <1>4
    <3> QED BY <1>1, <3>1 DEF Controls
  <2>4. ASSUME NEW v \in Windows
        PROVE  SameOrLess(c, d, v)
    BY <2>1, <2>2, <2>3 DEF SameOrLess, request
  <2> QED BY <2>3, <2>4 DEF Subsides, d
<1> QED BY <1>3, <1>4

LEMMA DamageSubsides ==
    ASSUME NEW c, Sound(c), NEW w \in Windows, NEW s \in RealSize
    PROVE  /\ Subsides(c, Damaged(c, w, s))
           /\ Requested(Damaged(c, w, s)) = Requested(c)
<1> DEFINE noted == [c EXCEPT !.waiting = @ \ {w}]
           seen == IF w \in c.waiting THEN Schedule(noted, w) ELSE c
           bare == [seen EXCEPT !.stretched = @ \ {w}]
<1>1. Sound(noted) /\ noted \in Controls /\ noted.requests = c.requests /\ Subsides(c, noted)
  <2>1. c \in Controls
    BY DEF Sound
  <2>2. noted \in Controls
    BY <2>1 DEF Controls
  <2>3. /\ noted.requests = c.requests /\ noted.withdrawals = c.withdrawals
        /\ noted.timers = c.timers /\ noted.size = c.size /\ noted.releases = c.releases
        /\ noted.negotiation = c.negotiation /\ noted.stretched = c.stretched
    BY <2>1 DEF Controls
  <2> HIDE DEF noted
  <2> QED BY <2>2, <2>3, NothingTouched, LessWaits DEF Quietly
<1>2. Damaged(c, w, s) = Present(bare, w, s)
  BY DEF Damaged
<1> HIDE DEF noted
<1>3. Sound(seen) /\ seen.requests = c.requests /\ Subsides(c, seen)
  BY <1>1, Scheduled, LookSubsides, SubsidesOn, SubsidesAtAll DEF Quietly
<1> HIDE DEF seen
<1>4. Sound(bare) /\ bare.requests = c.requests /\ Subsides(seen, bare)
  <2>1. seen \in Controls
    BY <1>3 DEF Sound
  <2>2. bare \in Controls
    BY <2>1 DEF Controls
  <2>3. /\ bare.requests = seen.requests /\ bare.withdrawals = seen.withdrawals
        /\ bare.timers = seen.timers /\ bare.size = seen.size /\ bare.releases = seen.releases
        /\ bare.negotiation = seen.negotiation /\ bare.stretched \subseteq seen.stretched
    BY <2>1 DEF Controls
  <2> HIDE DEF bare
  <2> QED BY <1>3, <2>2, <2>3, NothingTouched, LessWaits DEF Quietly
<1> HIDE DEF bare
<1>5. Subsides(bare, Present(bare, w, s)) /\ Requested(Present(bare, w, s)) = Requested(bare)
  BY <1>4, Presented, PresentSubsides
<1> QED BY <1>2, <1>3, <1>4, <1>5, SubsidesOn DEF Requested

LEMMA JudgedSubsides ==
    ASSUME NEW c, Sound(c), NEW judged,
           judged = [c EXCEPT !.requests =
               [w \in Windows |-> IF w \in Requested(c)
                                  THEN [c.requests[w] EXCEPT !.answered = TRUE]
                                  ELSE c.requests[w]]]
    PROVE  Subsides(c, judged)
<1> DEFINE R == [w \in Windows |-> IF w \in Requested(c)
                                   THEN [c.requests[w] EXCEPT !.answered = TRUE]
                                   ELSE c.requests[w]]
<1>1. c \in Controls
  BY DEF Sound
<1>2. ASSUME NEW w \in Windows
      PROVE  \/ R[w] = NoRequest
             \/ /\ c.requests[w] # NoRequest
                /\ R[w].verdict = c.requests[w].verdict
                /\ c.requests[w].answered => R[w].answered
  <2> DEFINE request == c.requests[w]
             answered == [request EXCEPT !.answered = TRUE]
  <2>1. request \in Requests
    BY <1>1, ControlParts
  <2>2. R[w] = IF request # NoRequest THEN answered ELSE request
    BY DEF Requested
  <2> HIDE DEF request, R
  <2>3. CASE request = NoRequest
    BY <2>2, <2>3
  <2>4. CASE request # NoRequest
    <3>1. request \in Asked
      BY <2>1, <2>4, RequestParts
    <3>2. answered.verdict = request.verdict /\ answered.answered = TRUE
      BY <3>1 DEF Asked
    <3> HIDE DEF answered
    <3> QED BY <2>2, <2>4, <3>2 DEF request
  <2> QED BY <2>3, <2>4
<1>3. judged = [c EXCEPT !.requests = R]
  OBVIOUS
<1> HIDE DEF R
<1>4. /\ judged.requests = R /\ judged.releases = c.releases /\ judged.timers = c.timers
      /\ judged.negotiation = c.negotiation
  BY <1>1, <1>3 DEF Controls
<1> QED BY <1>2, <1>4 DEF Subsides, SameOrLess

LEMMA RetrySubsides ==
    ASSUME NEW c, Sound(c), OneRequested(c)
    PROVE  Subsides(c, RetryOrRefuse(c))
<1> DEFINE N == [c.negotiation EXCEPT !.retried = TRUE]
           noted == [c EXCEPT !.negotiation = N]
           again == RestoreEach(noted, Requested(c))
           later == {Timer("retry", w, c.generation, 0) : w \in Requested(c)}
           d == [again EXCEPT !.timers = @ \cup later]
<1>1. RetryOrRefuse(c) \in {Refuse(c), d}
  BY DEF RetryOrRefuse
<1>2. Subsides(c, Refuse(c))
  BY RefusalSubsides
<1>3. c \in Controls /\ c.negotiation \in Negotiations
  BY ControlParts DEF Sound
<1>4. N \in Negotiations /\ N.validation = c.negotiation.validation
  BY <1>3 DEF Negotiations
<1> HIDE DEF N
<1>5. Quietly(c, noted) /\ noted.requests = c.requests /\ Subsides(c, noted)
  BY <1>4, NegotiationSet, NegotiationSubsides
<1> HIDE DEF noted
<1>6. Requested(noted) = Requested(c) /\ Sound(noted) /\ OneRequested(noted)
  BY <1>5 DEF Requested, OneRequested, Quietly
<1>7. Subsides(c, again) /\ again \in Controls
  BY <1>5, <1>6, AllRestored, AllSubside, SubsidesOn DEF Quietly, Sound
<1> HIDE DEF again
<1>8. \A t \in later : t.kind = "retry"
  BY DEF Timer
<1> HIDE DEF later
<1>9. Subsides(again, d)
  <2>1. /\ d.requests = again.requests /\ d.negotiation = again.negotiation
        /\ d.releases = again.releases /\ d.timers = again.timers \cup later
    BY <1>7 DEF Controls
  <2> HIDE DEF d
  <2> QED BY <1>8, <2>1, LessWaits
<1> HIDE DEF d
<1> QED BY <1>1, <1>2, <1>7, <1>9, SubsidesOn

LEMMA ValidateSubsides ==
    ASSUME NEW c, Sound(c), OneRequested(c)
    PROVE  Subsides(c, Validate(c))
<1> DEFINE judged == [c EXCEPT !.requests =
               [w \in Windows |-> IF w \in Requested(c)
                                  THEN [c.requests[w] EXCEPT !.answered = TRUE]
                                  ELSE c.requests[w]]]
           N == [judged.negotiation EXCEPT !.window = NoWindow, !.count = 0]
           stands == [judged EXCEPT !.negotiation = N]
<1>1. Validate(c) \in {RetryOrRefuse(judged), c, stands}
  BY DEF Validate
<1>2. Quietly(c, judged) /\ OneRequested(judged) /\ Subsides(c, judged)
  BY Judged, JudgedSubsides
<1> HIDE DEF judged
<1>3. Sound(judged)
  BY <1>2 DEF Quietly
<1>4. Subsides(judged, RetryOrRefuse(judged))
  BY <1>2, <1>3, RetrySubsides
<1>5. Subsides(judged, stands)
  <2> DEFINE M == judged.negotiation
  <2>1. M \in Negotiations
    BY <1>3, ControlParts DEF Sound
  <2> HIDE DEF M
  <2>2. N = [M EXCEPT !.window = NoWindow, !.count = 0]
    BY DEF M
  <2> HIDE DEF N
  <2>3. N \in Negotiations /\ N.validation = M.validation
    BY <2>1, <2>2 DEF Negotiations
  <2> QED BY <1>3, <2>3, NegotiationSubsides DEF M
<1> HIDE DEF stands
<1> QED BY <1>1, <1>2, <1>4, <1>5, SubsidesAtAll, SubsidesOn

LEMMA ReconfiguredOrderly ==
    ASSUME NEW c, Sound(c), Orderly(c), OneRequested(c)
    PROVE  /\ Orderly(Reconfigured(c))
           /\ \A w \in Windows :
                Unanswered(c, w) => Reconfigured(c).requests[w] # NoRequest
<1> DEFINE released == ReleaseEach(c, Requested(c))
           looks == {Timer("apply", w, 0, 0) : w \in Mapped}
           fresh == Fresh
           d == Reconfigured(c)
<1>1. d = [released EXCEPT !.generation = @ + 1, !.negotiation = fresh, !.waiting = {},
                           !.overdue = {}, !.timers = @ \cup looks]
  BY DEF Reconfigured, ReleaseEach
<1>2. released \in Controls
  BY AllReleased DEF Quietly, Sound
<1>3. /\ Orderly(released)
      /\ \A w \in Windows : Unanswered(c, w) => released.requests[w] # NoRequest
  <2>1. CASE Requested(c) = {}
    BY <2>1, ReleaseNone DEF Unanswered
  <2>2. ASSUME NEW w \in Windows, Requested(c) = {w}
        PROVE  /\ Orderly(released)
               /\ \A v \in Windows : Unanswered(c, v) => released.requests[v] # NoRequest
    <3>1. released = Release(c, w)
      BY <2>2, ReleaseOne
    <3>2. /\ Orderly(released)
          /\ Unanswered(c, w) => released.requests = c.requests
      BY <3>1, ReleaseAwaits
    <3>3. \A v \in Windows : Unanswered(c, v) => v = w
      BY <2>2 DEF Unanswered, Requested
    <3> QED BY <3>2, <3>3 DEF Unanswered
  <2> QED BY <2>1, <2>2, OneOrNone
<1> HIDE DEF released
<1>4. fresh.validation = 0
  BY DEF Fresh
<1>5. \A t \in looks : t.kind = "apply"
  BY DEF Timer
<1> HIDE DEF fresh, looks, d
<1>6. /\ d.requests = released.requests /\ d.negotiation = fresh
      /\ d.releases = released.releases /\ d.timers = released.timers \cup looks
  BY <1>1, <1>2 DEF Controls
<1>7. Subsides(released, d)
  BY <1>4, <1>5, <1>6, LessWaits
<1> QED BY <1>2, <1>3, <1>6, <1>7, StaysOrderly DEF d

\* The answer a request waits for is noted.
LEMMA NotedOrderly ==
    ASSUME NEW c, Sound(c), Orderly(c), NEW w \in Windows, NEW new \in BOOLEAN
    PROVE  LET d == ModeNoted(c, w, new)
           IN  /\ Orderly(d)
               /\ \A v \in Windows : c.requests[v] # NoRequest => d.requests[v] # NoRequest
<1> DEFINE request == c.requests[w]
           answer == request # NoRequest /\ ~request.answered /\ new /\ mode = request.size
           r == [request EXCEPT !.answered = @ \/ answer]
           answers == IF answer /\ c.releases[w] # 0
                      THEN {Timer("answer", w, c.releases[w], 0)} ELSE {}
           ends == IF c.withdrawals[w] # 0
                   THEN {Timer("withdrawn", w, c.withdrawals[w], 0)} ELSE {}
           d == ModeNoted(c, w, new)
<1>1. c \in Controls /\ request \in Requests
  BY ControlParts DEF Sound
<1>2. \/ d = c
      \/ d = [c EXCEPT !.requests[w].answered = @ \/ answer,
                       !.timers = (@ \cup answers) \cup ends]
  BY DEF ModeNoted
<1>3. CASE d = c
  BY <1>3
<1>4. CASE d # c
  <2>1. /\ \A t \in answers : t.kind = "answer" /\ t.window = w
                              /\ t.token = c.releases[w] /\ t.token # 0 /\ answer
        /\ \A t \in ends : t.kind = "withdrawn"
    BY DEF Timer
  <2>2. answer \in BOOLEAN /\ (answer => request # NoRequest)
    OBVIOUS
  <2> HIDE DEF answers, ends, answer, d
  <2>3. /\ d.requests = [c.requests EXCEPT ![w] = r] /\ d.releases = c.releases
        /\ d.negotiation = c.negotiation /\ d.timers = (c.timers \cup answers) \cup ends
    BY <1>1, <1>2, <1>4 DEF Controls
  <2>4. d.requests[w] = r /\ \A v \in Windows \ {w} : d.requests[v] = c.requests[v]
    BY <1>1, <2>3 DEF Controls
  <2>5. /\ request # NoRequest =>
              /\ r # NoRequest /\ r.verdict = request.verdict
              /\ request.answered => r.answered
              /\ answer => r.answered
        /\ request = NoRequest => r = NoRequest
    <3> HIDE DEF request
    <3>1. CASE request = NoRequest
      <4>1. (request.answered \/ answer) = FALSE
        BY <2>2, <3>1, NoRequestParts
      <4>2. r = [NoRequest EXCEPT !.answered = FALSE]
        BY <3>1, <4>1
      <4>3. [NoRequest EXCEPT !.answered = FALSE] = NoRequest
        <5> DEFINE bare == NoRequest
        <5>1. bare \in [size : {NoSize}, answered : BOOLEAN, presented : BOOLEAN, verdict : Nat]
          BY DEF NoRequest
        <5>2. bare.answered = FALSE
          BY NoRequestParts
        <5> HIDE DEF bare
        <5>3. [bare EXCEPT !.answered = FALSE] = bare
          BY <5>1, <5>2
        <5> QED BY <5>3 DEF bare
      <4> QED BY <3>1, <4>2, <4>3
    <3>2. CASE request # NoRequest
      <4> DEFINE b == request.answered \/ answer
      <4>1. request \in Asked
        BY <1>1, <3>2, RequestParts
      <4>2. b \in BOOLEAN
        BY <2>2, <4>1 DEF Asked
      <4>3. r = [request EXCEPT !.answered = b]
        OBVIOUS
      <4> HIDE DEF b, r
      <4>4. r # NoRequest /\ r.verdict = request.verdict
        BY <4>1, <4>2, <4>3, RequestAnswered
      <4>5. r.answered = b
        BY <4>1, <4>3 DEF Asked
      <4> QED BY <3>2, <4>4, <4>5 DEF b
    <3> QED BY <3>1, <3>2
  <2> HIDE DEF r
  <2>6. \A v \in Windows : c.requests[v] # NoRequest => d.requests[v] # NoRequest
    BY <2>4, <2>5
  <2>7. \A v \in Windows : d.requests[v] # NoRequest =>
            /\ c.requests[v] # NoRequest /\ d.requests[v].verdict = c.requests[v].verdict
            /\ c.requests[v].answered => d.requests[v].answered
    <3>1. ASSUME NEW v \in Windows, d.requests[v] # NoRequest
          PROVE  /\ c.requests[v] # NoRequest
                 /\ d.requests[v].verdict = c.requests[v].verdict
                 /\ c.requests[v].answered => d.requests[v].answered
      <4>1. CASE v = w
        BY <2>4, <2>5, <3>1, <4>1
      <4>2. CASE v # w
        BY <2>4, <3>1, <4>2
      <4> QED BY <4>1, <4>2
    <3> QED BY <3>1
  <2>8. /\ \A t \in d.timers : t.kind \in {"validate", "release", "answer"} => t.token # 0
        /\ \A t \in d.timers : t.kind = "validate" => t.due = t.token
    BY <2>1, <2>3 DEF Orderly
  <2>9. ASSUME NEW v \in Windows, d.requests[v] # NoRequest
        PROVE  d.negotiation.validation \in {d.requests[v].verdict, 0}
    BY <2>3, <2>7, <2>9 DEF Orderly
  <2>10. ASSUME NEW t \in d.timers, EndsRelease(d, t)
         PROVE  EndsInTime(d, t)
    <3>1. CASE t \in answers
      <4>1. t.kind = "answer" /\ t.window = w /\ answer
        BY <2>1, <3>1
      <4>2. d.requests[w].answered
        BY <2>2, <2>4, <2>5, <4>1
      <4> QED BY <4>1, <4>2 DEF EndsInTime
    <3>2. CASE t \in c.timers
      <4>1. t.window \in Windows
        BY <1>1, <2>10, <3>2, ControlParts, TimerParts DEF EndsRelease
      <4>2. EndsRelease(c, t)
        BY <2>3, <2>7, <2>10, <4>1 DEF EndsRelease
      <4>3. EndsInTime(c, t)
        BY <3>2, <4>2 DEF Orderly
      <4>4. \A n : Over(c, n) => Over(d, n)
        BY <2>1, <2>3 DEF Over
      <4>5. d.requests[t.window] # NoRequest
        BY <2>10 DEF EndsRelease
      <4> QED BY <2>7, <4>1, <4>3, <4>4, <4>5 DEF EndsInTime
    <3> QED BY <2>1, <2>3, <2>10, <3>1, <3>2 DEF EndsRelease
  <2> QED BY <2>6, <2>8, <2>9, <2>10 DEF Orderly, d
<1> QED BY <1>3, <1>4

\* What excuses that an unanswered request is given back, see AnswerIsAwaited.
Excused(w) ==
    LET verdict == control.requests[w].verdict
    IN  \/ \A t \in control'.timers : t.kind = "validate" => t.due # verdict
        \/ \E t \in control.timers \ control'.timers : t.due = verdict
        \/ ~fullscreen[w] \/ ~fullscreen'[w]
        \/ life'[w] = "gone"
        \/ control'.negotiation.failed

Patient ==
    \A w \in Mapped :
        Unanswered(control, w) /\ control'.requests[w] = NoRequest => Excused(w)

LEMMA NoneGiven ==
    ASSUME \A w \in Windows : Unanswered(control, w) => control'.requests[w] # NoRequest
    PROVE  Patient
BY DEF Patient, Mapped

LEMMA ControlIs ==
    ASSUME ControlInv
    PROVE  /\ control \in Controls /\ Sound(control) /\ OneRequested(control)
           /\ \A w \in Windows : life[w] = "mapped" => Requested(control) \subseteq {w}
           /\ \A v, w \in Mapped : v = w
           /\ wanted \in Sizes \cup {NoSize}
<1>1. ASSUME NEW w \in Windows, life[w] = "mapped", NEW v \in Requested(control)
      PROVE  v = w
  BY <1>1 DEF ControlInv, ControlOK, WorldOK, Mapped, Requested
<1> QED BY <1>1, OneAtATime DEF Sound, ControlInv, WorldOK

LEMMA SameControl ==
    ASSUME Orderly(control), UNCHANGED control
    PROVE  Orderly(control') /\ Patient
BY NoneGiven DEF Unanswered

LEMMA MapAwaits ==
    ASSUME ControlInv, Orderly(control), NEW w \in Windows, Map(w)
    PROVE  Orderly(control') /\ Patient
<1> DEFINE sized == [control EXCEPT !.size[w] = Windowed]
<1>1. PICK entered \in BOOLEAN :
        control' = Schedule(Configure(sized, w, IF entered THEN Full ELSE Windowed), w)
  BY DEF Map
<1> DEFINE s == IF entered THEN Full ELSE Windowed
           told == Configure(sized, w, s)
<1>2. control \in Controls /\ Mapped = {}
  BY ControlIs DEF Map
<1>3. s \in RealSize /\ Windowed \in AnySize /\ Windowed # NoSize
  BY ConstantsAssumption DEF RealSize, AnySize
<1>4. control' = Schedule(told, w)
  BY <1>1
<1> HIDE DEF s
<1>5. Subsides(control, sized) /\ Sound(sized)
  <2>1. sized \in Controls
    BY <1>2, <1>3 DEF Controls
  <2>2. /\ sized.requests = control.requests /\ sized.withdrawals = control.withdrawals
        /\ sized.releases = control.releases
        /\ sized.timers = control.timers /\ sized.negotiation = control.negotiation
        /\ sized.stretched = control.stretched
    BY <1>2 DEF Controls
  <2>3. sized.size[w] = Windowed /\ \A v \in Windows \ {w} : sized.size[v] = control.size[v]
    BY <1>2 DEF Controls
  <2>4. Sound(control)
    BY ControlIs
  <2> HIDE DEF sized
  <2>5. Quietly(control, sized)
    BY <1>3, <2>1, <2>2, <2>3, <2>4, NothingTouched
  <2> QED BY <2>2, <2>5, LessWaits DEF Quietly
<1> HIDE DEF sized
<1>6. SizeOnly(sized, told)
  BY <1>3, <1>5, Configured
<1> HIDE DEF told
<1>7. Subsides(sized, told) /\ told \in Controls
  BY <1>6, SizeSubsides DEF SizeOnly, Sound
<1>8. Subsides(told, control')
  BY <1>4, <1>7, LookSubsides
<1>9. Subsides(control, control')
  BY <1>5, <1>7, <1>8, SubsidesOn
<1> QED BY <1>2, <1>9, StaysOrderly DEF Patient

LEMMA CloseAwaits ==
    ASSUME ControlInv, Orderly(control), NEW w \in Windows, Close(w)
    PROVE  Orderly(control') /\ Patient
<1> DEFINE expiry == Timer("expire", NoWindow, 0, Number(control))
           left == {t \in control.timers : t.window # w /\ t.kind # "expire"}
           timers == left \cup {expiry}
           bare == NoRequest
           d == control'
<1>1. life[w] = "mapped" /\ life' = [life EXCEPT ![w] = "gone"]
  BY DEF Close
<1>2. d = [control EXCEPT
            !.requests[w] = bare, !.waiting = @ \ {w}, !.withdrawals[w] = 0,
            !.overdue = @ \ {w}, !.releases[w] = 0, !.stretched = @ \ {w},
            !.size[w] = NoSize, !.told[w] = <<>>, !.timers = timers]
  BY DEF Close
<1>3. control \in Controls
  BY ControlIs
<1>4. expiry.kind = "expire" /\ left \subseteq control.timers
  BY DEF Timer
<1> HIDE DEF expiry, left, bare, d
<1>5. /\ d.negotiation = control.negotiation /\ d.timers = left \cup {expiry}
      /\ d.requests[w] = bare /\ d.releases[w] = 0
      /\ \A v \in Windows \ {w} : d.requests[v] = control.requests[v]
  BY <1>2, <1>3 DEF Controls
<1>6. \A v \in Windows \ {w} : d.releases[v] = control.releases[v]
  BY <1>2, <1>3 DEF Controls
<1>7. \A v \in Windows : SameOrLess(control, d, v) /\ d.releases[v] \in {control.releases[v], 0}
  BY <1>5, <1>6 DEF SameOrLess, bare
<1>8. Subsides(control, d)
  BY <1>4, <1>5, <1>7 DEF Subsides
<1>9. Patient
  BY <1>1, ControlIs DEF Patient, Excused, Mapped, ControlInv, WorldOK
<1> QED BY <1>3, <1>8, <1>9, StaysOrderly DEF d

LEMMA ToggleAwaits ==
    ASSUME ControlInv, Orderly(control), NEW w \in Windows, KWinToggles(w)
    PROVE  Orderly(control') /\ Patient
<1> DEFINE enter == ~fullscreen[w]
<1>1. control' = Toggled(control, w, enter) /\ enter \in BOOLEAN
  BY DEF KWinToggles
<1> HIDE DEF enter
<1>2. Subsides(control, control') /\ control'.requests = control.requests
  BY <1>1, ControlIs, ToggleSubsides, ToggledQuietly
<1> QED BY <1>2, ControlIs, StaysOrderly, NoneGiven DEF Unanswered

LEMMA SaveAwaits ==
    ASSUME ControlInv, Orderly(control), SaveSettings
    PROVE  Orderly(control') /\ Patient
BY ControlIs, ReconfiguredOrderly, NoneGiven DEF SaveSettings

LEMMA ReadAwaits ==
    ASSUME ControlInv, Orderly(control), NEW w \in Windows, ReadsResize(w)
    PROVE  Orderly(control') /\ Patient
<1> DEFINE left == Tail(control.told[w])
           d == [control EXCEPT !.told[w] = left]
<1>1. control' = d /\ control \in Controls
  BY ControlIs DEF ReadsResize
<1> HIDE DEF left
<1>2. /\ d.requests = control.requests /\ d.releases = control.releases
      /\ d.timers = control.timers /\ d.negotiation = control.negotiation
  BY <1>1 DEF Controls
<1> HIDE DEF d
<1>3. Subsides(control, d)
  BY <1>2, LessWaits
<1>4. Orderly(d)
  BY <1>1, <1>3, StaysOrderly
<1> QED BY <1>1, <1>2, <1>4, NoneGiven DEF Unanswered

LEMMA CommitAwaits ==
    ASSUME ControlInv, Orderly(control), NEW w \in Windows, Commits(w)
    PROVE  Orderly(control') /\ Patient
<1>1. life[w] = "mapped" /\ control' = Damaged(control, w, draws[w])
  BY DEF Commits, Mapped
<1>2. draws[w] \in RealSize
  BY <1>1 DEF ControlInv, WorldOK, SizesOK, AnySize
<1>3. Subsides(control, control') /\ Requested(control') = Requested(control)
  BY <1>1, <1>2, ControlIs, DamageSubsides DEF Requested
<1>4. Orderly(control')
  BY <1>3, ControlIs, StaysOrderly
<1>5. \A v \in Windows : control.requests[v] # NoRequest => control'.requests[v] # NoRequest
  BY <1>3 DEF Requested
<1> QED BY <1>4, <1>5, NoneGiven DEF Unanswered

-----------------------------------------------------------------------------
(* KWin handles an event.                                                  *)

LEMMA ModeAwaits ==
    ASSUME ControlInv, Orderly(control), ModeChanged
    PROVE  Orderly(control') /\ Patient
<1> DEFINE w == Head(events).window
           new == Head(events).value
           noted == ModeNoted(control, w, new)
           s == IF mode = NoSize THEN Full ELSE mode
<1>1. /\ Arrives("mode")
      /\ control' \in {noted, Configure(noted, w, s)}
  BY DEF ModeChanged, SizedByMode
<1>2. w \in Windows /\ new \in BOOLEAN /\ s \in RealSize
  BY <1>1, Arrived DEF RealSize, ControlInv, WorldOK
<1> HIDE DEF w, new, s
<1>3. /\ Sound(noted) /\ Orderly(noted)
      /\ \A v \in Windows : control.requests[v] # NoRequest => noted.requests[v] # NoRequest
  BY <1>2, ControlIs, NotedQuietly, NotedOrderly DEF Quietly
<1> HIDE DEF noted
<1>4. Subsides(noted, control') /\ control'.requests = noted.requests
  BY <1>1, <1>2, <1>3, Configured, SizeSubsides, SubsidesAtAll
<1>5. Orderly(control')
  BY <1>3, <1>4, StaysOrderly DEF Sound
<1> QED BY <1>3, <1>4, <1>5, NoneGiven DEF Unanswered

LEMMA ResizeAwaits ==
    ASSUME ControlInv, Orderly(control), ResizeRequested
    PROVE  Orderly(control') /\ Patient
<1>1. \E w \in Windows, s \in RealSize : control' = Announce(control, w, s)
  <2> DEFINE w == Head(events).window
             request == control.requests[w]
             s == IF fullscreen[w] /\ request # NoRequest THEN request.size
                  ELSE IF fullscreen[w] /\ control.withdrawals[w] # 0 THEN NormalSize(w)
                  ELSE control.size[w]
  <2>1. Arrives("resize") /\ control' = Announce(control, w, s)
    BY DEF ResizeRequested
  <2>2. w \in Windows /\ life[w] = "mapped"
    BY <2>1, Arrived
  <2>3. s \in RealSize
    <3>1. NormalSize(w) \in RealSize
      BY DEF NormalSize, RealSize
    <3>2. request \in Requests /\ control.size[w] \in AnySize /\ control.size[w] # NoSize
      BY <2>2, ControlParts DEF ControlInv, ControlOK, Sound, SizesOK
    <3>3. request # NoRequest => request.size \in RealSize
      BY <3>2, RequestParts DEF Asked, RealSize
    <3> QED BY <3>1, <3>2, <3>3 DEF AnySize
  <2> HIDE DEF w, s
  <2> QED BY <2>1, <2>2, <2>3
<1>2. Subsides(control, control') /\ control'.requests = control.requests
  BY <1>1, ControlIs, Announced, SizeSubsides
<1> QED BY <1>2, ControlIs, StaysOrderly, NoneGiven DEF Unanswered

LEMMA LeaveAwaits ==
    ASSUME ControlInv, Orderly(control), LeaveRequested
    PROVE  Orderly(control') /\ Patient
<1> DEFINE w == Head(events).window
           restored == Restore(control, w)
<1>1. /\ Arrives("state")
      /\ control' \in {restored, Toggled(restored, w, FALSE)}
      /\ fullscreen' = [fullscreen EXCEPT ![w] = FALSE]
  BY DEF LeaveRequested
<1>2. w \in Windows /\ life[w] = "mapped"
  BY <1>1, Arrived
<1> HIDE DEF w
<1>3. Subsides(control, restored)
  BY <1>2, ControlIs, RestoreSubsides
<1>4. Sound(restored)
  BY <1>2, ControlIs, Restored, BackForEach
<1> HIDE DEF restored
<1>5. Subsides(restored, control')
  <2>1. FALSE \in BOOLEAN
    OBVIOUS
  <2>2. Subsides(restored, Toggled(restored, w, FALSE))
    BY <1>2, <1>4, <2>1, ToggleSubsides
  <2> QED BY <1>1, <2>2, SubsidesAtAll
<1>6. Orderly(control')
  BY <1>3, <1>5, SubsidesOn, ControlIs, StaysOrderly
<1>7. \A v \in Mapped : ~fullscreen'[v]
  BY <1>1, <1>2 DEF ControlInv, WorldOK, Mapped
<1> QED BY <1>6, <1>7 DEF Patient, Excused

LEMMA EnterAwaits ==
    ASSUME ControlInv, Orderly(control), FullscreenRequested
    PROVE  Orderly(control') /\ Patient
<1> DEFINE w == Head(events).window
<1>1. Arrives("state") /\ control' = FullscreenAsked(control, w)
  BY DEF FullscreenRequested
<1>2. w \in Windows /\ life[w] = "mapped"
  BY <1>1, Arrived
<1> HIDE DEF w
<1>3. /\ Orderly(control')
      /\ control.requests[w] # NoRequest =>
            control'.negotiation.failed \/ control'.requests[w] # NoRequest
  BY <1>1, <1>2, ControlIs, FullscreenOrderly
<1>4. Patient
  BY <1>2, <1>3, ControlIs DEF Patient, Excused, Mapped, Unanswered
<1> QED BY <1>3, <1>4

-----------------------------------------------------------------------------
(* Callbacks.                                                              *)

LEMMA CallbackSubsides ==
    ASSUME NEW t, NEW c \in Controls, Comes(t, c)
    PROVE  /\ Subsides(c, control') /\ control'.requests = c.requests
           /\ control'.timers = c.timers \ {t}
<1>1. control' = [c EXCEPT !.timers = @ \ {t}]
  BY DEF Comes
<1>2. /\ control'.requests = c.requests /\ control'.releases = c.releases
      /\ control'.negotiation = c.negotiation /\ control'.timers = c.timers \ {t}
  BY <1>1 DEF Controls
<1> QED BY <1>2, LessWaits

LEMMA ReleaseEndAwaits ==
    ASSUME ControlInv, Orderly(control), NEW t \in control.timers, ReleaseEnds(t)
    PROVE  Orderly(control') /\ Patient
<1> DEFINE w == t.window
           restored == Restore(control, w)
           looked == Schedule(restored, w)
           c == IF control.releases[w] = t.token THEN looked ELSE control
<1>1. t.kind \in {"answer", "release"} /\ Comes(t, c)
  BY DEF ReleaseEnds
<1>2. w \in Windows
  BY <1>1, ControlIs, ControlParts, TimerParts
<1> HIDE DEF w
<1>3. /\ Sound(restored) /\ restored \in Controls
      /\ Subsides(control, restored)
      /\ \A v \in Windows \ {w} : restored.requests[v] = control.requests[v]
  BY <1>2, ControlIs, Restored, BackForEach, RestoreSubsides DEF Sound
<1> HIDE DEF restored
<1>4. /\ looked \in Controls /\ Subsides(control, looked)
      /\ looked.requests = restored.requests
  BY <1>2, <1>3, Scheduled, LookSubsides, SubsidesOn DEF Quietly, Sound
<1> HIDE DEF looked
<1>5. c \in Controls /\ Subsides(control, c)
  BY <1>4, ControlIs, SubsidesAtAll
<1>6. /\ c = control \/ control.releases[w] = t.token
      /\ \A v \in Windows \ {w} : c.requests[v] = control.requests[v]
  BY <1>3, <1>4
<1> HIDE DEF c
<1>7. /\ Subsides(control, control') /\ control'.requests = c.requests
      /\ t \notin control'.timers
  BY <1>1, <1>5, CallbackSubsides, SubsidesOn
<1>8. Orderly(control')
  BY <1>7, ControlIs, StaysOrderly
<1>9. ASSUME NEW v \in Mapped, Unanswered(control, v), control'.requests[v] = NoRequest
      PROVE  Excused(v)
  <2> DEFINE verdict == control.requests[v].verdict
  <2>1. v = w /\ control.releases[w] = t.token
    BY <1>6, <1>7, <1>9 DEF Unanswered, Mapped
  <2>2. EndsInTime(control, t)
    <3>1. EndsRelease(control, t)
      BY <1>1, <1>9, <2>1 DEF EndsRelease, Unanswered, w
    <3> QED BY <3>1 DEF Orderly
  <2>3. t.due = verdict \/ Over(control, verdict)
    BY <1>1, <1>9, <2>1, <2>2 DEF EndsInTime, Unanswered, w
  <2>4. Over(control, verdict) =>
            \A u \in control'.timers : u.kind = "validate" => u.due # verdict
    BY <1>7 DEF Over, Subsides
  <2> QED BY <1>7, <2>3, <2>4 DEF Excused
<1> QED BY <1>8, <1>9 DEF Patient

LEMMA WithdrawalEndAwaits ==
    ASSUME ControlInv, Orderly(control), NEW t \in control.timers,
           WithdrawalEnds(t) \/ WithdrawalOverdue(t)
    PROVE  Orderly(control') /\ Patient
<1> DEFINE w == t.window
           ended == [control EXCEPT !.withdrawals[w] = 0]
           overdue == [control EXCEPT !.withdrawals[w] = 0, !.overdue = @ \cup {w}]
<1>1. \E c \in {Schedule(ended, w), Schedule(overdue, w), control} : Comes(t, c)
  BY DEF WithdrawalEnds, WithdrawalOverdue
<1>2. w \in Windows
  <2>1. t.kind \notin {"validate", "expire"}
    BY DEF WithdrawalEnds, WithdrawalOverdue
  <2> QED BY <2>1, ControlIs, ControlParts, TimerParts
<1> HIDE DEF w
<1>3. control \in Controls
  BY ControlIs
<1>4. /\ ended \in Controls /\ overdue \in Controls
  BY <1>2, <1>3 DEF Controls
<1>5. /\ ended.requests = control.requests /\ ended.releases = control.releases
      /\ ended.timers = control.timers /\ ended.negotiation = control.negotiation
      /\ overdue.requests = control.requests /\ overdue.releases = control.releases
      /\ overdue.timers = control.timers /\ overdue.negotiation = control.negotiation
  BY <1>3 DEF Controls
<1> HIDE DEF ended, overdue
<1>6. Subsides(control, ended) /\ Subsides(control, overdue)
  BY <1>5, LessWaits
<1>7. ASSUME NEW c \in {ended, overdue}
      PROVE  /\ Schedule(c, w) \in Controls /\ Subsides(control, Schedule(c, w))
             /\ Schedule(c, w).requests = control.requests
  <2>1. Sound(c)
    <3>1. Sound(control)
      BY ControlIs
    <3>2. Numbered(c) /\ c.stretched = control.stretched
      BY <1>3, <1>5, <3>1 DEF Numbered, Sound, Controls, ended, overdue
    <3> QED BY <1>4, <1>5, <3>1, <3>2 DEF Sound
  <2>2. Schedule(c, w) \in Controls
    BY <1>2, <2>1, Scheduled DEF Quietly, Sound
  <2> QED BY <1>2, <1>4, <1>5, <1>6, <2>2, LookSubsides, SubsidesOn
<1>8. \E c \in Controls : /\ Comes(t, c) /\ Subsides(control, c)
                          /\ c.requests = control.requests
  BY <1>1, <1>3, <1>7, SubsidesAtAll
<1>9. Subsides(control, control') /\ control'.requests = control.requests
  BY <1>8, CallbackSubsides, SubsidesOn
<1> QED BY <1>3, <1>9, StaysOrderly, NoneGiven DEF Unanswered

\* A verdict that takes a request back is the one on that request.
LEMMA JudgeAwaits ==
    ASSUME ControlInv, Orderly(control), NEW t \in control.timers, Judge(t)
    PROVE  Orderly(control') /\ Patient
<1> DEFINE c == IF control.negotiation.validation = t.token /\ ~control.negotiation.failed
                THEN Validate(control) ELSE control
<1>1. t.kind = "validate" /\ Comes(t, c)
  BY DEF Judge
<1>2. Subsides(control, c) /\ c \in Controls
  BY ControlIs, Validated, ValidateSubsides, SubsidesAtAll DEF Quietly, Sound
<1>3. c = control \/ control.negotiation.validation = t.token
  OBVIOUS
<1> HIDE DEF c
<1>4. /\ Subsides(control, control') /\ control'.requests = c.requests
      /\ t \notin control'.timers
  BY <1>1, <1>2, CallbackSubsides, SubsidesOn
<1>5. Orderly(control')
  BY <1>4, ControlIs, StaysOrderly
<1>6. ASSUME NEW v \in Mapped, Unanswered(control, v), control'.requests[v] = NoRequest
      PROVE  Excused(v)
  <2>1. control.negotiation.validation = t.token
    BY <1>3, <1>4, <1>6 DEF Unanswered
  <2>2. t.token # 0 /\ t.due = t.token
    BY <1>1 DEF Orderly
  <2>3. control.negotiation.validation \in {control.requests[v].verdict, 0}
    BY <1>6 DEF Orderly, Unanswered, Mapped
  <2>4. t.due = control.requests[v].verdict
    BY <2>1, <2>2, <2>3
  <2> QED BY <1>4, <2>4 DEF Excused
<1> QED BY <1>5, <1>6 DEF Patient

LEMMA AskAgainAwaits ==
    ASSUME ControlInv, Orderly(control), NEW t \in control.timers, AskAgain(t)
    PROVE  Orderly(control') /\ Patient
<1>1. t.kind = "retry" /\ \E c \in {Schedule(control, t.window), control} : Comes(t, c)
  BY DEF AskAgain
<1>2. t.window \in Windows /\ control \in Controls
  BY <1>1, ControlIs, ControlParts, TimerParts
<1>3. ASSUME NEW c \in {Schedule(control, t.window), control}
      PROVE  c \in Controls /\ Subsides(control, c) /\ c.requests = control.requests
  BY <1>2, <1>3, ControlIs, Scheduled, LookSubsides, SubsidesAtAll DEF Quietly, Sound
<1>4. Subsides(control, control') /\ control'.requests = control.requests
  BY <1>1, <1>3, CallbackSubsides, SubsidesOn
<1> QED BY <1>2, <1>4, StaysOrderly, NoneGiven DEF Unanswered

LEMMA ExpireAwaits ==
    ASSUME ControlInv, Orderly(control), NEW t \in control.timers, Expire(t)
    PROVE  Orderly(control') /\ Patient
<1> DEFINE fresh == Fresh
           c == [control EXCEPT !.negotiation = fresh]
<1>1. \E d \in {c, control} : Comes(t, d)
  BY DEF Expire
<1>2. fresh \in Negotiations /\ fresh.validation = 0
  BY DEF Fresh, Negotiations
<1> HIDE DEF fresh
<1>3. /\ Sound(c) /\ c \in Controls /\ Subsides(control, c) /\ c.requests = control.requests
  BY <1>2, ControlIs, NegotiationSet, NegotiationSubsides DEF Quietly, Sound
<1> HIDE DEF c
<1>4. Subsides(control, control') /\ control'.requests = control.requests
  BY <1>1, <1>3, ControlIs, CallbackSubsides, SubsidesAtAll, SubsidesOn
<1> QED BY <1>4, ControlIs, StaysOrderly, NoneGiven DEF Unanswered

LEMMA LookAwaits ==
    ASSUME ControlInv, Orderly(control), NEW t \in control.timers, LookAt(t)
    PROVE  Orderly(control') /\ Patient
<1> DEFINE w == t.window
           c == [control EXCEPT !.timers = @ \ {t}]
<1>1. t.kind = "apply" /\ control' = Apply(c, w)
  BY DEF LookAt
<1>2. w \in Windows /\ control \in Controls
  BY <1>1, ControlIs, ControlParts, TimerParts
<1>3. /\ Sound(c) /\ c.requests = control.requests
      /\ c.timers = control.timers \ {t}
  BY ControlIs, TimerGone
<1>4. c.releases = control.releases /\ c.negotiation = control.negotiation
  BY <1>2 DEF Controls
<1> HIDE DEF c, w
<1>5. Orderly(c)
  <2>1. Subsides(control, c)
    BY <1>3, <1>4, LessWaits
  <2> QED BY <1>2, <2>1, StaysOrderly
<1>6. OneRequested(c) /\ (fullscreen[w] => Requested(c) \subseteq {w})
  <2>1. fullscreen[w] => life[w] = "mapped"
    BY <1>2 DEF ControlInv, WorldOK
  <2>2. Requested(c) = Requested(control)
    BY <1>3 DEF Requested
  <2> QED BY <1>2, <2>1, <2>2, ControlIs DEF OneRequested
<1>7. /\ Orderly(control')
      /\ fullscreen[w] /\ Unanswered(c, w) => control'.requests = c.requests
      /\ ~fullscreen[w] => \A v \in Windows \ {w} : control'.requests[v] = c.requests[v]
  BY <1>1, <1>2, <1>3, <1>5, <1>6, ControlIs, LookOrderly
<1>8. ASSUME NEW v \in Mapped, Unanswered(control, v), control'.requests[v] = NoRequest
      PROVE  Excused(v)
  <2>1. CASE ~fullscreen[w]
    <3>1. v = w
      BY <1>3, <1>7, <1>8, <2>1 DEF Unanswered, Mapped
    <3> QED BY <2>1, <3>1 DEF Excused
  <2>2. CASE fullscreen[w]
    <3>1. v = w
      BY <1>2, <1>8, <2>2, ControlIs DEF Mapped, ControlInv, WorldOK
    <3>2. Unanswered(c, w)
      BY <1>3, <1>8, <3>1 DEF Unanswered
    <3> QED BY <1>3, <1>7, <1>8, <2>2, <3>1, <3>2 DEF Unanswered
  <2> QED BY <2>1, <2>2
<1> QED BY <1>7, <1>8 DEF Patient

LEMMA AwaitsStep ==
    ASSUME ControlInv, Orderly(control), [Next]_vars
    PROVE  Orderly(control') /\ Patient
<1>1. CASE UNCHANGED vars
  BY <1>1, SameControl DEF vars
<1>2. ASSUME NEW w \in Windows, Map(w) \/ Close(w) \/ KWinToggles(w)
      PROVE  Orderly(control') /\ Patient
  BY <1>2, MapAwaits, CloseAwaits, ToggleAwaits
<1>3. ASSUME NEW w \in Windows, Client(w) \/ AsksState(w) \/ AsksSize(w)
      PROVE  Orderly(control') /\ Patient
  BY <1>3, ReadAwaits, CommitAwaits, SameControl DEF Client, AsksState, AsksSize
<1>4. CASE SaveSettings \/ ChoosesMode
  BY <1>4, SaveAwaits, SameControl DEF ChoosesMode
<1>5. CASE XEvent
  BY <1>5, ModeAwaits, LeaveAwaits, EnterAwaits, ResizeAwaits DEF XEvent
<1>6. ASSUME NEW t \in control.timers, Callback(t)
      PROVE  Orderly(control') /\ Patient
  BY <1>6, LookAwaits, ReleaseEndAwaits, WithdrawalEndAwaits, JudgeAwaits, AskAgainAwaits,
     ExpireAwaits DEF Callback
<1> QED BY <1>1, <1>2, <1>3, <1>4, <1>5, <1>6 DEF Next

\* A request is not given back before its answer or its verdict (release(),
\* x11resolution_events.cpp:149), whatever the client, the user and KWin do
\* meanwhile: the verdict that takes a request back is its own, and a release
\* ends with the answer, with the verdict, or once the verdict has come.
THEOREM AnswersAwaited == Spec => AnswerIsAwaited
<1>1. Init => Orderly(control)
  <2>1. ASSUME Init
        PROVE  control.timers = {} /\ \A w \in Windows : control.requests[w] = NoRequest
    <3> DEFINE bare == NoRequest
    <3>1. control.timers = {} /\ control.requests = [w \in Windows |-> bare]
      BY <2>1 DEF Init
    <3> HIDE DEF bare
    <3> QED BY <3>1 DEF bare
  <2> QED BY <2>1 DEF Orderly
<1>2. ControlInv /\ Orderly(control) /\ [Next]_vars => Orderly(control)'
  BY AwaitsStep
<1>3. ControlInv /\ Orderly(control) /\ [Next]_vars =>
        [\A w \in Mapped :
          LET request == control.requests[w]
          IN  /\ request # NoRequest /\ ~request.answered /\ mode # request.size
              /\ control'.requests[w] = NoRequest
              => \/ \A t \in control'.timers :
                        t.kind = "validate" => t.due # request.verdict
                 \/ \E t \in control.timers \ control'.timers :
                        t.due = request.verdict
                 \/ ~fullscreen[w] \/ ~fullscreen'[w]
                 \/ life'[w] = "gone"
                 \/ control'.negotiation.failed]_vars
  <2>1. ControlInv /\ Orderly(control) /\ [Next]_vars => Patient
    BY AwaitsStep
  <2> QED BY <2>1 DEF Patient, Excused, Unanswered
<1> QED BY <1>1, <1>2, <1>3, ControlInvariance, PTL DEF Spec, AnswerIsAwaited

-----------------------------------------------------------------------------
(* Windows end as asked.                                                   *)

\* Where the program of a client is one that selects what it is told: the mode
\* it has once it read a size, and what it comes to once it read all.
Emulated(s) == IF s \in Sizes THEN s ELSE NoSize

Leads(q, m, goal) == IF q = <<>> THEN m = goal ELSE Emulated(q[Len(q)]) = goal

\* Its mode turns to the goal once, and stays.
Once(q, m, goal) ==
    /\ \A i \in 1..Len(q) : Emulated(q[i]) \in {m, goal}
    /\ \A i, j \in 1..Len(q) : i < j /\ Emulated(q[i]) = goal => Emulated(q[j]) = goal

LEMMA LeadsOnward ==
    ASSUME NEW q \in Seq(RealSize), q # <<>>, NEW m, NEW goal, Leads(q, m, goal)
    PROVE  Leads(Tail(q), Emulated(Head(q)), goal)
<1> DEFINE r == Tail(q)
<1>1. /\ r \in Seq(RealSize) /\ Len(r) = Len(q) - 1 /\ Len(q) \in Nat /\ Len(q) # 0
      /\ Head(q) = q[1] /\ \A i \in 1..Len(r) : r[i] = q[i + 1]
  OBVIOUS
<1> HIDE DEF r
<1>2. CASE Len(q) = 1
  <2>1. r = <<>> /\ Head(q) = q[Len(q)]
    BY <1>1, <1>2
  <2> QED BY <2>1 DEF Leads, r
<1>3. CASE Len(q) # 1
  <2>1. Len(r) \in 1..Len(r) /\ Len(r) + 1 = Len(q) /\ Len(r) # 0
    BY <1>1, <1>3
  <2>2. r # <<>> /\ r[Len(r)] = q[Len(q)]
    BY <1>1, <2>1
  <2> QED BY <2>2 DEF Leads, r
<1> QED BY <1>2, <1>3

LEMMA OnceOnward ==
    ASSUME NEW q \in Seq(RealSize), q # <<>>, NEW m, NEW goal, Once(q, m, goal)
    PROVE  LET k == Emulated(Head(q))
           IN  Once(Tail(q), k, goal) /\ k \in {m, goal} /\ (m = goal => k = goal)
<1> DEFINE k == Emulated(Head(q))
           r == Tail(q)
<1>1. /\ Head(q) = q[1] /\ 1 \in 1..Len(q)
      /\ \A i \in 1..Len(r) : r[i] = q[i + 1] /\ i + 1 \in 1..Len(q) /\ 1 < i + 1
  OBVIOUS
<1>2. k = Emulated(q[1]) /\ k \in {m, goal}
  BY <1>1 DEF Once
<1>3. \A i \in 1..Len(q) : Emulated(q[i]) \in {m, goal}
  BY DEF Once
<1>4. \A i, j \in 1..Len(q) : i < j /\ Emulated(q[i]) = goal => Emulated(q[j]) = goal
  BY DEF Once
<1> HIDE DEF r, k
<1>5. ASSUME NEW i \in 1..Len(r)
      PROVE  Emulated(r[i]) \in {k, goal}
  <2>1. r[i] = q[i + 1] /\ i + 1 \in 1..Len(q) /\ 1 < i + 1
    BY <1>1
  <2>2. k = goal => Emulated(q[i + 1]) = goal
    BY <1>1, <1>2, <1>4, <2>1
  <2> QED BY <1>2, <1>3, <2>1, <2>2
<1>6. ASSUME NEW i \in 1..Len(r), NEW j \in 1..Len(r), i < j, Emulated(r[i]) = goal
      PROVE  Emulated(r[j]) = goal
  <2>1. /\ r[i] = q[i + 1] /\ i + 1 \in 1..Len(q) /\ r[j] = q[j + 1] /\ j + 1 \in 1..Len(q)
        /\ i + 1 < j + 1
    BY <1>1, <1>6
  <2> QED BY <1>4, <1>6, <2>1
<1>7. Once(r, k, goal)
  BY <1>5, <1>6 DEF Once
<1> QED BY <1>2, <1>7 DEF r, k

LEMMA LeadsThere ==
    ASSUME NEW q \in Seq(RealSize), NEW s \in RealSize, NEW m
    PROVE  Leads(Append(q, s), m, Emulated(s))
<1>1. Append(q, s) # <<>> /\ Append(q, s)[Len(Append(q, s))] = s
  OBVIOUS
<1> QED BY <1>1 DEF Leads

\* More of what it comes to, or a new goal once the one before was reached.
LEMMA OnceMore ==
    ASSUME NEW q \in Seq(RealSize), NEW s \in RealSize, NEW m, NEW goal, Once(q, m, goal),
           Emulated(s) = goal \/ m = goal
    PROVE  Once(Append(q, s), m, Emulated(s))
<1> DEFINE r == Append(q, s)
           e == Emulated(s)
<1>1. /\ Len(r) = Len(q) + 1 /\ r[Len(q) + 1] = s
      /\ \A i \in 1..Len(r) : i = Len(q) + 1 \/ (i \in 1..Len(q) /\ r[i] = q[i])
      /\ Len(q) \in Nat
  OBVIOUS
<1>2. /\ \A i \in 1..Len(q) : Emulated(q[i]) \in {m, goal}
      /\ \A i, j \in 1..Len(q) : i < j /\ Emulated(q[i]) = goal => Emulated(q[j]) = goal
  BY DEF Once
<1> HIDE DEF r, e
<1>3. e = goal \/ m = goal
  BY DEF e
<1>4. Emulated(r[Len(q) + 1]) = e
  BY <1>1 DEF e
<1>5. \A i \in 1..Len(r) : Emulated(r[i]) \in {m, e}
  BY <1>1, <1>2, <1>3, <1>4
<1>6. ASSUME NEW i \in 1..Len(r), NEW j \in 1..Len(r), i < j, Emulated(r[i]) = e
      PROVE  Emulated(r[j]) = e
  <2>1. CASE j = Len(q) + 1
    BY <1>4, <2>1
  <2>2. CASE j # Len(q) + 1
    <3>1. j \in 1..Len(q) /\ r[j] = q[j]
      BY <1>1, <2>2
    <3>2. i # Len(q) + 1
      BY <1>1, <1>6, <3>1
    <3>3. i \in 1..Len(q) /\ r[i] = q[i]
      BY <1>1, <3>2
    <3> QED BY <1>2, <1>3, <1>6, <3>1, <3>3
  <2> QED BY <2>1, <2>2
<1> QED BY <1>5, <1>6 DEF Once, r, e

LEMMA EmulatedSizes ==
    /\ Emulated(Full) = NoSize /\ Emulated(Windowed) = NoSize
    /\ \A s \in Sizes : Emulated(s) = s /\ s # NoSize /\ s # Full /\ s # Windowed
BY ConstantsAssumption DEF Emulated

\* Nothing is under way but for window w, and no wait for a withdrawal is due at once.
Only(c, w) ==
    /\ \A v \in Windows \ {w} : c.told[v] = <<>> /\ c.requests[v] = NoRequest
    /\ \A t \in c.timers : t.window \in {w, NoWindow}

Dated(c) == \A t \in c.timers : t.kind = "withdraw" => t.due # 0

Sized(c, w, full) ==
    c.size[w] = IF ~full THEN Windowed
                ELSE IF c.requests[w] = NoRequest THEN Full ELSE c.requests[w].size

\* A request that is not being released asks for what is wanted.
Standing(c, w, want) ==
    c.requests[w] # NoRequest /\ c.releases[w] = 0
        => ~c.negotiation.failed /\ c.requests[w].size = want

Shaped(c, w, full) == Sound(c) /\ Only(c, w) /\ Dated(c) /\ Sized(c, w, full)

Proper(c, w, full, want) == Shaped(c, w, full) /\ (full => Standing(c, w, want))

\* KWin was told of a change of mode the window waits for, and that was handled.
Noticed(c, w) ==
    \E t \in c.timers : t.kind = "withdrawn" /\ t.window = w /\ t.token = c.withdrawals[w]

Withdrawing(c, w) == c.withdrawals[w] # 0 /\ ~Noticed(c, w)

Answering(c, w, m, changing) ==
    LET r == c.requests[w]
    IN  /\ m \in {NoSize, r.size}
        /\ r.answered => m = r.size /\ ~changing
        /\ m # r.size => ~Over(c, r.verdict)
        /\ \A t \in c.timers :
              t.kind = "release" /\ t.window = w /\ t.token = c.releases[w] => t.due # 0

\* A client that has mode m, and the change of which KWin has handled or not,
\* turns once to what its fullscreen window was sized to last.
Fit(c, w, full, m, changing) ==
    LET goal == Emulated(c.size[w])
    IN  /\ Leads(c.told[w], m, goal)
        /\ full => /\ Once(c.told[w], m, goal)
                   /\ changing => m = goal
                   /\ c.requests[w] = NoRequest /\ (changing \/ m # NoSize) => Withdrawing(c, w)
                   /\ c.requests[w] # NoRequest => Answering(c, w, m, changing)

\* What a call leaves of the other windows and of what is awaited.
Beside(c, d, w) ==
    /\ Sound(d)
    /\ \A v \in Windows \ {w} : /\ d.told[v] = c.told[v]
                                /\ c.requests[v] = NoRequest => d.requests[v] = NoRequest
    /\ \A t \in c.timers : t.kind = "validate" => t \in d.timers
    /\ \A t \in d.timers :
          \/ t \in c.timers
          \/ /\ t.window \in {w, NoWindow} /\ t.kind \in {"apply", "retry", "withdraw", "validate"}
             /\ t.kind = "withdraw" => t.due # 0

SameRequest(r, q) ==
    /\ r = NoRequest <=> q = NoRequest
    /\ q.size = r.size /\ q.verdict = r.verdict /\ q.answered = r.answered

\* And the window is as it was.
Same(c, d, w) ==
    /\ Beside(c, d, w) /\ SameRequest(c.requests[w], d.requests[w])
    /\ d.size[w] = c.size[w] /\ d.told[w] = c.told[w]
    /\ d.withdrawals[w] = c.withdrawals[w] /\ d.releases[w] = c.releases[w]

LEMMA BesideOn ==
    ASSUME NEW c, NEW d, NEW e, NEW w, Beside(c, d, w), Beside(d, e, w)
    PROVE  Beside(c, e, w)
BY DEF Beside

LEMMA BesideAtAll ==
    ASSUME NEW c, Sound(c), NEW w
    PROVE  Beside(c, c, w)
BY DEF Beside

LEMMA SameAtAll ==
    ASSUME NEW c, Sound(c), NEW w
    PROVE  Same(c, c, w)
BY BesideAtAll DEF Same, SameRequest

LEMMA SameOn ==
    ASSUME NEW c, NEW d, NEW e, NEW w, Same(c, d, w), Same(d, e, w)
    PROVE  Same(c, e, w)
BY BesideOn DEF Same, SameRequest

LEMMA OnlyStays ==
    ASSUME NEW c, NEW d, NEW w, Only(c, w), Dated(c), Beside(c, d, w)
    PROVE  Only(d, w) /\ Dated(d)
BY DEF Only, Dated, Beside

LEMMA VerdictKept ==
    ASSUME NEW c, NEW d, NEW w, Beside(c, d, w), NEW verdict, ~Over(c, verdict)
    PROVE  ~Over(d, verdict)
BY DEF Beside, Over

LEMMA SameShaped ==
    ASSUME NEW c, NEW d, NEW w, NEW full \in BOOLEAN, Shaped(c, w, full), Same(c, d, w)
    PROVE  Shaped(d, w, full)
<1>1. Only(d, w) /\ Dated(d) /\ Sound(d)
  BY OnlyStays DEF Shaped, Same, Beside
<1>2. Sized(d, w, full)
  BY DEF Shaped, Sized, Same, SameRequest
<1> QED BY <1>1, <1>2 DEF Shaped

LEMMA SameProper ==
    ASSUME NEW c, NEW d, NEW w, NEW full \in BOOLEAN, NEW want, Proper(c, w, full, want),
           Same(c, d, w), d.negotiation.failed => c.negotiation.failed
    PROVE  Proper(d, w, full, want)
<1>1. Shaped(d, w, full)
  BY SameShaped DEF Proper
<1>2. full => Standing(d, w, want)
  BY DEF Proper, Standing, Same, SameRequest
<1> QED BY <1>1, <1>2 DEF Proper

\* The waits of the window go on as they were.
LEMMA WaitsKept ==
    ASSUME NEW c, NEW d, NEW w, Beside(c, d, w), d.withdrawals[w] = c.withdrawals[w]
    PROVE  Withdrawing(c, w) => Withdrawing(d, w)
BY DEF Beside, Withdrawing, Noticed

LEMMA AnswersKept ==
    ASSUME NEW c, NEW d, NEW w, Beside(c, d, w), SameRequest(c.requests[w], d.requests[w]),
           d.releases[w] = c.releases[w], NEW m, NEW changing \in BOOLEAN,
           Answering(c, w, m, changing)
    PROVE  Answering(d, w, m, changing)
<1>1. m # d.requests[w].size => ~Over(d, d.requests[w].verdict)
  BY VerdictKept DEF Answering, SameRequest
<1>2. \A t \in d.timers :
         t.kind = "release" /\ t.window = w /\ t.token = d.releases[w] => t.due # 0
  BY DEF Beside, Answering
<1> QED BY <1>1, <1>2 DEF Answering, SameRequest

LEMMA SameFits ==
    ASSUME NEW c, NEW d, NEW w, NEW full \in BOOLEAN, NEW m, NEW changing \in BOOLEAN,
           Fit(c, w, full, m, changing), Same(c, d, w)
    PROVE  Fit(d, w, full, m, changing)
<1>1. /\ Withdrawing(c, w) => Withdrawing(d, w)
      /\ Answering(c, w, m, changing) => Answering(d, w, m, changing)
  BY WaitsKept, AnswersKept DEF Same
<1> QED BY <1>1 DEF Fit, Same, SameRequest

-----------------------------------------------------------------------------
(* What the calls are made of does to a window.                            *)

ToldOf(c, w, s) == IF c.size[w] = s THEN c.told[w] ELSE Append(c.told[w], s)

\* The window is sized.
Resized(c, d, w, s, queue) ==
    /\ Beside(c, d, w) /\ d.size[w] = s /\ d.told[w] = queue
    /\ d.requests = c.requests /\ d.withdrawals = c.withdrawals /\ d.releases = c.releases
    /\ d.timers = c.timers /\ d.negotiation = c.negotiation

LEMMA ToldParts ==
    ASSUME NEW c, Sound(c), NEW w \in Windows, NEW s \in RealSize, NEW queue \in Seq(RealSize),
           NEW d, d = [c EXCEPT !.size[w] = s, !.told[w] = queue]
    PROVE  Resized(c, d, w, s, queue)
<1>1. SizeOnly(c, d) /\ c \in Controls
  BY SizeTold DEF Sound
<1>2. d.size[w] = s /\ d.told[w] = queue /\ \A v \in Windows \ {w} : d.told[v] = c.told[v]
  BY <1>1 DEF Controls
<1> QED BY <1>1, <1>2 DEF SizeOnly, Resized, Beside

LEMMA ConfigureParts ==
    ASSUME NEW c, Sound(c), NEW w \in Windows, NEW s \in RealSize
    PROVE  Resized(c, Configure(c, w, s), w, s, ToldOf(c, w, s))
<1>1. c.told[w] \in Seq(RealSize)
  BY ControlParts DEF Sound
<1>2. ToldOf(c, w, s) \in Seq(RealSize)
  BY <1>1 DEF ToldOf
<1>3. Configure(c, w, s) = [c EXCEPT !.size[w] = s, !.told[w] = ToldOf(c, w, s)]
  BY DEF Configure, ToldOf
<1> QED BY <1>2, <1>3, ToldParts

LEMMA AnnounceParts ==
    ASSUME NEW c, Sound(c), NEW w \in Windows, NEW s \in RealSize
    PROVE  Resized(c, Announce(c, w, s), w, s, Append(c.told[w], s))
<1>1. Append(c.told[w], s) \in Seq(RealSize)
  BY ControlParts DEF Sound
<1>2. Announce(c, w, s) = [c EXCEPT !.size[w] = s, !.told[w] = Append(c.told[w], s)]
  BY DEF Announce
<1> QED BY <1>1, <1>2, ToldParts

LEMMA LookSame ==
    ASSUME NEW c, Sound(c), NEW w \in Windows
    PROVE  /\ Same(c, Schedule(c, w), w) /\ Schedule(c, w).requests = c.requests
           /\ Schedule(c, w).negotiation = c.negotiation
<1> DEFINE look == Timer("apply", w, 0, 0)
           d == Schedule(c, w)
<1>1. c \in Controls /\ Sound(d)
  BY Scheduled DEF Sound, Quietly
<1>2. look.kind = "apply" /\ look.window = w
  BY DEF Timer
<1> HIDE DEF look
<1>3. d = [c EXCEPT !.timers = @ \cup {look}]
  BY DEF Schedule, look
<1> HIDE DEF d
<1>4. /\ d.requests = c.requests /\ d.negotiation = c.negotiation /\ d.told = c.told
      /\ d.withdrawals = c.withdrawals /\ d.timers = c.timers \cup {look} /\ d.size = c.size
      /\ d.releases = c.releases
  BY <1>1, <1>3 DEF Controls
<1>5. Beside(c, d, w)
  BY <1>1, <1>2, <1>4 DEF Beside
<1> QED BY <1>4, <1>5 DEF Same, SameRequest, d

\* A withdrawal is awaited.
Waits(c, d, w) ==
    /\ Beside(c, d, w) /\ Withdrawing(d, w)
    /\ d.requests = c.requests /\ d.size = c.size /\ d.told = c.told
    /\ d.releases = c.releases /\ d.negotiation = c.negotiation

LEMMA AwaitParts ==
    ASSUME NEW c, Sound(c), NEW w \in Windows, c.requests[w] = NoRequest
    PROVE  Waits(c, AwaitWithdrawal(c, w), w)
<1> DEFINE n == Number(c)
           wait == Timer("withdraw", w, n, n)
           d == AwaitWithdrawal(c, w)
<1>1. c \in Controls /\ n # 0 /\ \A t \in c.timers : t.token # n
  BY NumberIsNew DEF Sound
<1>2. Sound(d)
  BY WithdrawalAwaited DEF Quietly
<1>3. wait.kind = "withdraw" /\ wait.window = w /\ wait.due = n
  BY DEF Timer
<1>4. d = [c EXCEPT !.withdrawals[w] = n, !.overdue = @ \ {w}, !.timers = @ \cup {wait}]
  BY DEF AwaitWithdrawal
<1> HIDE DEF n, wait, d
<1>5. /\ d.requests = c.requests /\ d.size = c.size /\ d.told = c.told
      /\ d.releases = c.releases /\ d.negotiation = c.negotiation
      /\ d.timers = c.timers \cup {wait} /\ d.withdrawals[w] = n
  BY <1>1, <1>4 DEF Controls
<1>6. Beside(c, d, w)
  BY <1>1, <1>2, <1>3, <1>5 DEF Beside
<1>7. Withdrawing(d, w)
  BY <1>1, <1>3, <1>5 DEF Withdrawing, Noticed
<1> QED BY <1>5, <1>6, <1>7 DEF Waits, d

\* The request of the window is gone.
Returned(c, d, w) ==
    /\ Beside(c, d, w) /\ d.requests[w] = NoRequest /\ d.releases[w] = 0
    /\ d.negotiation = c.negotiation
    /\ c.requests[w] = NoRequest => /\ d.size[w] = c.size[w] /\ d.told[w] = c.told[w]
                                    /\ d.withdrawals[w] = c.withdrawals[w]
    /\ c.requests[w] # NoRequest => /\ d.size[w] = NormalSize(w)
                                    /\ d.told[w] = ToldOf(c, w, NormalSize(w))
                                    /\ mode # NoSize => Withdrawing(d, w)

LEMMA RestoreParts ==
    ASSUME NEW c, Sound(c), NEW w \in Windows
    PROVE  Returned(c, Restore(c, w), w)
<1> DEFINE e == Unstretch(c, w)
           ended == [e EXCEPT !.waiting = @ \ {w}, !.releases[w] = 0, !.requests[w] = NoRequest]
           handed == Configure(ended, w, NormalSize(w))
           waited == AwaitWithdrawal(handed, w)
<1>1. c \in Controls
  BY DEF Sound
<1>2. /\ e \in Controls /\ e.requests = c.requests /\ e.withdrawals = c.withdrawals
      /\ e.timers = c.timers /\ e.negotiation = c.negotiation /\ e.size = c.size
  BY Unstretched
<1>3. e.told = c.told /\ e.releases = c.releases
  BY <1>1 DEF Unstretch, Controls
<1>4. Quietly(c, ended)
  BY Ended DEF GivenBack
<1>5. /\ c.requests[w] = NoRequest => Restore(c, w) = ended
      /\ c.requests[w] # NoRequest /\ mode # NoSize => Restore(c, w) = waited
      /\ c.requests[w] # NoRequest /\ mode = NoSize => Restore(c, w) = handed
  BY DEF Restore
<1> HIDE DEF e
<1>6. /\ ended.requests = [e.requests EXCEPT ![w] = NoRequest]
      /\ ended.releases = [e.releases EXCEPT ![w] = 0]
      /\ ended.withdrawals = e.withdrawals /\ ended.timers = e.timers
      /\ ended.negotiation = e.negotiation /\ ended.size = e.size /\ ended.told = e.told
  BY <1>2 DEF Controls
<1> HIDE DEF ended
<1>7. /\ ended.requests[w] = NoRequest /\ ended.releases[w] = 0
      /\ \A v \in Windows \ {w} : ended.requests[v] = c.requests[v]
  BY <1>1, <1>2, <1>3, <1>6 DEF Controls
<1>8. Beside(c, ended, w) /\ Sound(ended)
  BY <1>2, <1>3, <1>4, <1>6, <1>7 DEF Beside, Quietly
<1>9. NormalSize(w) \in RealSize
  BY DEF NormalSize, RealSize
<1>10. Resized(ended, handed, w, NormalSize(w), ToldOf(ended, w, NormalSize(w)))
  BY <1>8, <1>9, ConfigureParts
<1>11. ToldOf(ended, w, NormalSize(w)) = ToldOf(c, w, NormalSize(w))
  BY <1>2, <1>3, <1>6 DEF ToldOf
<1> HIDE DEF handed
<1>12. Beside(c, handed, w) /\ Sound(handed) /\ handed.requests[w] = NoRequest
  BY <1>7, <1>8, <1>10, BesideOn DEF Resized, Beside
<1>13. Waits(handed, waited, w)
  BY <1>12, AwaitParts
<1> HIDE DEF waited
<1>14. CASE c.requests[w] = NoRequest
  BY <1>2, <1>3, <1>5, <1>6, <1>7, <1>8, <1>14 DEF Returned
<1>15. CASE c.requests[w] # NoRequest /\ mode = NoSize
  BY <1>2, <1>5, <1>6, <1>7, <1>10, <1>11, <1>12, <1>15 DEF Returned, Resized
<1>16. CASE c.requests[w] # NoRequest /\ mode # NoSize
  <2>1. Beside(c, waited, w) /\ Withdrawing(waited, w)
    BY <1>12, <1>13, BesideOn DEF Waits
  <2>2. waited.size[w] = NormalSize(w) /\ waited.told[w] = ToldOf(c, w, NormalSize(w))
    BY <1>10, <1>11, <1>13 DEF Resized, Waits
  <2>3. handed.releases = ended.releases /\ handed.negotiation = c.negotiation
    BY <1>2, <1>6, <1>10 DEF Resized
  <2>4. /\ waited.requests[w] = NoRequest /\ waited.releases[w] = 0
        /\ waited.negotiation = c.negotiation
    BY <1>7, <1>12, <1>13, <2>3 DEF Waits
  <2>5. Returned(c, waited, w)
    BY <1>16, <2>1, <2>2, <2>4 DEF Returned
  <2> QED BY <1>5, <1>16, <2>5
<1> QED BY <1>14, <1>15, <1>16

\* What the client was told goes on leading to the window's size.
Ends(c, w) == Leads(c.told[w], mode, Emulated(c.size[w]))

LEMMA ToldLeads ==
    ASSUME NEW c, Sound(c), NEW w \in Windows, NEW s \in RealSize, Ends(c, w)
    PROVE  Leads(ToldOf(c, w, s), mode, Emulated(s))
<1>1. c.told[w] \in Seq(RealSize)
  BY ControlParts DEF Sound
<1>2. Leads(Append(c.told[w], s), mode, Emulated(s))
  BY <1>1, LeadsThere
<1> QED BY <1>2 DEF ToldOf, Ends

LEMMA NormalReal ==
    ASSUME NEW w
    PROVE  /\ NormalSize(w) \in RealSize /\ Emulated(NormalSize(w)) = NoSize
           /\ fullscreen[w] => NormalSize(w) = Full
           /\ ~fullscreen[w] => NormalSize(w) = Windowed
BY EmulatedSizes DEF NormalSize, RealSize

LEMMA RestoreEnds ==
    ASSUME NEW c, Sound(c), NEW w \in Windows, Ends(c, w)
    PROVE  Ends(Restore(c, w), w)
<1>1. Returned(c, Restore(c, w), w)
  BY RestoreParts
<1>2. Leads(ToldOf(c, w, NormalSize(w)), mode, Emulated(NormalSize(w)))
  BY NormalReal, ToldLeads
<1> QED BY <1>1, <1>2 DEF Returned, Ends

LEMMA RestoreProper ==
    ASSUME NEW c, NEW w \in Windows, Shaped(c, w, fullscreen[w]), fullscreen[w] \in BOOLEAN,
           NEW want
    PROVE  Proper(Restore(c, w), w, fullscreen[w], want)
<1> DEFINE d == Restore(c, w)
<1>1. Returned(c, d, w)
  BY RestoreParts DEF Shaped
<1> HIDE DEF d
<1>2. Sound(d) /\ Only(d, w) /\ Dated(d)
  BY <1>1, OnlyStays DEF Shaped, Returned, Beside
<1>3. Sized(d, w, fullscreen[w])
  BY <1>1, NormalReal DEF Shaped, Sized, Returned
<1> QED BY <1>1, <1>2, <1>3 DEF Proper, Shaped, Standing, Returned, d

\* A fullscreen window is given back once its client has the mode it was asked for.
LEMMA RestoreFits ==
    ASSUME NEW c, NEW w \in Windows, Shaped(c, w, fullscreen[w]), fullscreen[w] \in BOOLEAN,
           NEW changing \in BOOLEAN, Fit(c, w, fullscreen[w], mode, changing),
           fullscreen[w] /\ c.requests[w] # NoRequest =>
               mode = c.requests[w].size /\ ~changing
    PROVE  Fit(Restore(c, w), w, fullscreen[w], mode, changing)
<1> DEFINE d == Restore(c, w)
<1>1. Returned(c, d, w) /\ Sound(c)
  BY RestoreParts DEF Shaped
<1>2. Ends(d, w)
  BY <1>1, RestoreEnds DEF Fit, Ends
<1> HIDE DEF d
<1>3. CASE ~fullscreen[w]
  BY <1>2, <1>3 DEF Fit, Ends, d
<1>4. CASE fullscreen[w] /\ c.requests[w] = NoRequest
  <2>1. /\ d.size[w] = c.size[w] /\ d.told[w] = c.told[w] /\ d.requests[w] = NoRequest
        /\ Withdrawing(c, w) => Withdrawing(d, w)
    BY <1>1, <1>4, WaitsKept DEF Returned
  <2> QED BY <1>4, <2>1 DEF Fit, d
<1>5. CASE fullscreen[w] /\ c.requests[w] # NoRequest
  <2> DEFINE s == c.requests[w].size
  <2>1. c.requests[w] \in Requests
    BY <1>1, ControlParts DEF Sound
  <2>2. s \in Sizes /\ c.size[w] = s /\ mode = s /\ ~changing
    BY <1>5, <2>1, RequestParts DEF Asked, Shaped, Sized
  <2>3. Emulated(s) = s /\ s # NoSize /\ s # Full /\ Emulated(Full) = NoSize /\ Full \in RealSize
    BY <2>2, EmulatedSizes DEF RealSize
  <2>4. /\ d.size[w] = Full /\ d.told[w] = Append(c.told[w], Full) /\ Withdrawing(d, w)
        /\ d.requests[w] = NoRequest
    BY <1>1, <1>5, <2>2, <2>3, NormalReal DEF Returned, ToldOf
  <2>5. c.told[w] \in Seq(RealSize)
    BY <1>1, ControlParts DEF Sound
  <2>6. Once(c.told[w], mode, s)
    BY <1>5, <2>2, <2>3 DEF Fit
  <2>7. Once(Append(c.told[w], Full), mode, Emulated(Full))
    BY <2>2, <2>3, <2>5, <2>6, OnceMore
  <2> QED BY <1>2, <1>5, <2>2, <2>3, <2>4, <2>7 DEF Fit, Ends, d
<1> QED BY <1>3, <1>4, <1>5

LEMMA OnlyOneRequested ==
    ASSUME NEW c, NEW w, Only(c, w)
    PROVE  Requested(c) \subseteq {w} /\ OneRequested(c)
BY DEF Only, Requested, OneRequested

\* All requests are given back: the window's, if there is one.
LEMMA EachRestored ==
    ASSUME NEW c, NEW w \in Windows, Shaped(c, w, fullscreen[w]), fullscreen[w] \in BOOLEAN,
           NEW want
    PROVE  LET d == RestoreEach(c, Requested(c))
           IN  /\ Proper(d, w, fullscreen[w], want) /\ Beside(c, d, w) /\ d.requests[w] = NoRequest
               /\ d.negotiation = c.negotiation
               /\ c.requests[w] = NoRequest => d = c
               /\ \A changing \in BOOLEAN :
                    /\ Fit(c, w, fullscreen[w], mode, changing)
                    /\ fullscreen[w] /\ c.requests[w] # NoRequest =>
                         mode = c.requests[w].size /\ ~changing
                    => Fit(d, w, fullscreen[w], mode, changing)
<1>1. Requested(c) \subseteq {w} /\ Sound(c)
  BY OnlyOneRequested DEF Shaped
<1>2. CASE c.requests[w] = NoRequest
  <2>1. Requested(c) = {}
    BY <1>1, <1>2 DEF Requested
  <2>2. RestoreEach(c, Requested(c)) = c
    BY <2>1, RestoreNone
  <2> QED BY <1>1, <1>2, <2>2, BesideAtAll DEF Proper, Standing
<1>3. CASE c.requests[w] # NoRequest
  <2>1. Requested(c) = {w}
    BY <1>1, <1>3 DEF Requested
  <2>2. RestoreEach(c, Requested(c)) = Restore(c, w)
    BY <2>1, RestoreOne
  <2>3. /\ Proper(Restore(c, w), w, fullscreen[w], want)
        /\ Returned(c, Restore(c, w), w)
    BY <1>1, RestoreProper, RestoreParts
  <2>4. \A changing \in BOOLEAN :
           /\ Fit(c, w, fullscreen[w], mode, changing)
           /\ fullscreen[w] /\ c.requests[w] # NoRequest =>
                mode = c.requests[w].size /\ ~changing
           => Fit(Restore(c, w), w, fullscreen[w], mode, changing)
    BY RestoreFits
  <2> QED BY <1>3, <2>2, <2>3, <2>4 DEF Returned
<1> QED BY <1>2, <1>3

LEMMA NegotiationSame ==
    ASSUME NEW c, Sound(c), NEW w \in Windows, NEW N \in Negotiations,
           N.validation \in {c.negotiation.validation, 0},
           NEW d, d = [c EXCEPT !.negotiation = N]
    PROVE  /\ Same(c, d, w) /\ d.requests = c.requests /\ d.negotiation = N
           /\ d.timers = c.timers /\ d.releases = c.releases
<1>1. Sound(d) /\ d.requests = c.requests /\ d.timers = c.timers
  BY NegotiationSet DEF Quietly
<1>2. c \in Controls
  BY DEF Sound
<1>3. /\ d.told = c.told /\ d.size = c.size /\ d.withdrawals = c.withdrawals
      /\ d.releases = c.releases /\ d.negotiation = N
  BY <1>2 DEF Controls
<1> QED BY <1>1, <1>3 DEF Same, Beside, SameRequest

LEMMA RefuseKeeps ==
    ASSUME NEW c, NEW w \in Windows, Shaped(c, w, fullscreen[w]), fullscreen[w] \in BOOLEAN,
           NEW want
    PROVE  LET d == Refuse(c)
           IN  /\ Proper(d, w, fullscreen[w], want) /\ Beside(c, d, w) /\ d.requests[w] = NoRequest
               /\ c.requests[w] = NoRequest => Same(c, d, w)
               /\ \A changing \in BOOLEAN :
                    /\ Fit(c, w, fullscreen[w], mode, changing)
                    /\ fullscreen[w] /\ c.requests[w] # NoRequest =>
                         mode = c.requests[w].size /\ ~changing
                    => Fit(d, w, fullscreen[w], mode, changing)
<1> DEFINE N == [c.negotiation EXCEPT !.failed = TRUE]
           e == [c EXCEPT !.negotiation = N]
           d == RestoreEach(e, Requested(e))
<1>1. c.negotiation \in Negotiations /\ Sound(c)
  BY ControlParts DEF Sound, Shaped
<1>2. N \in Negotiations /\ N.validation = c.negotiation.validation
  BY <1>1 DEF Negotiations
<1>3. Refuse(c) = RestoreEach(e, Requested(c))
  BY DEF Refuse
<1> HIDE DEF N
<1>4. Same(c, e, w) /\ e.requests = c.requests
  BY <1>1, <1>2, NegotiationSame
<1> HIDE DEF e
<1>5. Refuse(c) = d
  BY <1>3, <1>4 DEF Requested
<1>6. Shaped(e, w, fullscreen[w])
  BY <1>4, SameShaped
<1>7. /\ Proper(d, w, fullscreen[w], want) /\ Beside(e, d, w) /\ d.requests[w] = NoRequest
      /\ e.requests[w] = NoRequest => d = e
      /\ \A changing \in BOOLEAN :
           /\ Fit(e, w, fullscreen[w], mode, changing)
           /\ fullscreen[w] /\ e.requests[w] # NoRequest =>
                mode = e.requests[w].size /\ ~changing
           => Fit(d, w, fullscreen[w], mode, changing)
  BY <1>6, EachRestored
<1>8. \A changing \in BOOLEAN : Fit(c, w, fullscreen[w], mode, changing)
                                   => Fit(e, w, fullscreen[w], mode, changing)
  BY <1>4, SameFits
<1> HIDE DEF d
<1>9. Beside(c, d, w)
  BY <1>4, <1>7, BesideOn DEF Same
<1> QED BY <1>4, <1>5, <1>7, <1>8, <1>9

\* A release keeps the request of a client that has not answered.
LEMMA ReleaseKeeps ==
    ASSUME NEW c, NEW w \in Windows,
           Shaped(c, w, fullscreen[w]), fullscreen[w] \in BOOLEAN, Orderly(c), NEW want
    PROVE  LET d == Release(c, w)
           IN  /\ Proper(d, w, fullscreen[w], want)
               /\ Fit(c, w, fullscreen[w], mode, FALSE) => Fit(d, w, fullscreen[w], mode, FALSE)
<1> DEFINE verdict == c.requests[w].verdict
           n == Number(c)
           remaining == IF \E t \in c.timers : t.due = verdict THEN verdict ELSE 0
           wait == Timer("release", w, n, remaining)
           d == Release(c, w)
<1>1. c \in Controls /\ Sound(c) /\ n \in Nat /\ n # 0 /\ \A t \in c.timers : t.token # n
  BY NumberIsNew DEF Sound, Shaped
<1>2. /\ ~Unanswered(c, w) => d = Restore(c, w)
      /\ Unanswered(c, w) => d = [c EXCEPT !.releases[w] = n, !.timers = @ \cup {wait}]
  BY DEF Release, Unanswered
<1>3. CASE ~Unanswered(c, w)
  <2>1. Proper(Restore(c, w), w, fullscreen[w], want)
    BY RestoreProper
  <2>2. ASSUME Fit(c, w, fullscreen[w], mode, FALSE)
        PROVE  Fit(Restore(c, w), w, fullscreen[w], mode, FALSE)
    <3>1. fullscreen[w] /\ c.requests[w] # NoRequest => mode = c.requests[w].size
      BY <1>3, <2>2 DEF Unanswered, Fit, Answering
    <3> QED BY <2>2, <3>1, RestoreFits
  <2> QED BY <1>2, <1>3, <2>1, <2>2
<1>4. CASE Unanswered(c, w)
  <2>1. Sound(d)
    BY <1>1, Released DEF Quietly
  <2>2. /\ wait.kind = "release" /\ wait.window = w /\ wait.token = n /\ wait.due = remaining
    BY DEF Timer
  <2>3. ASSUME ~Over(c, verdict)
        PROVE  remaining # 0
    <3>1. PICK t \in c.timers : t.kind = "validate" /\ t.due = verdict
      BY <2>3 DEF Over
    <3>2. t.due = t.token /\ t.token # 0
      BY <3>1 DEF Orderly
    <3> QED BY <3>1, <3>2
  <2> HIDE DEF remaining, wait, n, d
  <2>4. /\ d.releases[w] = n /\ d.timers = c.timers \cup {wait}
        /\ d.requests = c.requests /\ d.withdrawals = c.withdrawals /\ d.size = c.size
        /\ d.told = c.told /\ d.negotiation = c.negotiation
    BY <1>1, <1>2, <1>4 DEF Controls
  <2>5. Only(d, w) /\ Dated(d)
    BY <2>2, <2>4 DEF Only, Dated, Shaped
  <2>6. Sized(d, w, fullscreen[w])
    BY <2>4 DEF Sized, Shaped
  <2>7. Proper(d, w, fullscreen[w], want)
    BY <1>1, <2>1, <2>4, <2>5, <2>6 DEF Proper, Shaped, Standing
  <2>8. ASSUME fullscreen[w], Answering(c, w, mode, FALSE)
        PROVE  Answering(d, w, mode, FALSE)
    <3>1. remaining # 0
      BY <1>4, <2>3, <2>8 DEF Answering, Unanswered
    <3>2. \A t \in d.timers :
             t.kind = "release" /\ t.window = w /\ t.token = d.releases[w] => t.due # 0
      BY <1>1, <2>2, <2>4, <3>1
    <3>3. mode # d.requests[w].size => ~Over(d, d.requests[w].verdict)
      BY <2>4, <2>8 DEF Answering, Over
    <3> QED BY <2>4, <2>8, <3>2, <3>3 DEF Answering
  <2>9. Fit(c, w, fullscreen[w], mode, FALSE) => Fit(d, w, fullscreen[w], mode, FALSE)
    BY <1>4, <2>4, <2>8 DEF Fit, Unanswered
  <2> QED BY <2>7, <2>9 DEF d
<1> QED BY <1>3, <1>4

\* A window that has no request is asked, or the negotiation is refused.
AskedOf(c, d, w, s) ==
    /\ d.requests[w].size = s /\ d.requests[w] # NoRequest
    /\ d.requests[w].answered = (mode = s)
    /\ ~Over(d, d.requests[w].verdict) /\ d.negotiation.failed = c.negotiation.failed

\* What asking leaves of the window.
StillSized(c, d, w) ==
    /\ Beside(c, d, w) /\ d.size[w] = c.size[w] /\ d.told[w] = c.told[w]
    /\ d.withdrawals[w] = c.withdrawals[w] /\ d.releases[w] = c.releases[w]

LEMMA MadeParts ==
    ASSUME NEW c, Sound(c), NEW w \in Windows, NEW s \in Sizes, c.requests[w] = NoRequest,
           NEW N \in Negotiations, NEW n \in Nat, N.validation = n,
           N.failed = c.negotiation.failed
    PROVE  LET d == Made(c, w, s, N, n, mode = s)
           IN  StillSized(c, d, w) /\ AskedOf(c, d, w, s)
<1> DEFINE answered == (mode = s)
           request == [size |-> s, answered |-> answered, presented |-> FALSE, verdict |-> n]
           judge == Timer("validate", NoWindow, n, n)
           d == Made(c, w, s, N, n, answered)
<1>1. c \in Controls /\ answered \in BOOLEAN
  BY DEF Sound
<1>2. request.verdict = n /\ request.size = s /\ request.answered = answered
  OBVIOUS
<1>3. request # NoRequest
  BY <1>2, EmulatedSizes, NoRequestParts
<1>4. judge.kind = "validate" /\ judge.due = n /\ judge.window = NoWindow
  BY DEF Timer
<1>5. d = [c EXCEPT !.negotiation = N, !.requests[w] = request, !.timers = @ \cup {judge}]
  BY DEF Made
<1>6. Sound(d)
  <2> HIDE DEF answered, d
  <2> QED BY <1>1, RequestMade DEF Asking, Touching, d
<1> HIDE DEF request, judge, d, answered
<1>7. /\ d.negotiation = N /\ d.timers = c.timers \cup {judge} /\ d.releases = c.releases
      /\ d.requests[w] = request /\ \A v \in Windows \ {w} : d.requests[v] = c.requests[v]
      /\ d.size = c.size /\ d.told = c.told /\ d.withdrawals = c.withdrawals
  BY <1>1, <1>5 DEF Controls
<1>8. Beside(c, d, w)
  BY <1>4, <1>6, <1>7 DEF Beside
<1>9. ~Over(d, d.requests[w].verdict)
  BY <1>2, <1>4, <1>7 DEF Over
<1>10. StillSized(c, d, w)
  BY <1>7, <1>8 DEF StillSized
<1>11. d.requests[w].answered = (mode = s)
  BY <1>2, <1>7 DEF answered
<1>12. AskedOf(c, d, w, s)
  BY <1>2, <1>3, <1>7, <1>9, <1>11 DEF AskedOf
<1> QED BY <1>10, <1>12 DEF d, answered

LEMMA BegunParts ==
    ASSUME NEW c, NEW w \in Windows, Shaped(c, w, fullscreen[w]), fullscreen[w] \in BOOLEAN,
           NEW s \in Sizes, c.requests[w] = NoRequest
    PROVE  LET d == Begun(c, w, s)
           IN  StillSized(c, d, w) /\ (d.requests[w] = NoRequest \/ AskedOf(c, d, w, s))
<1> DEFINE tried == IF c.negotiation.window = w THEN c.negotiation
                    ELSE [c.negotiation EXCEPT !.window = w, !.count = @ + 1]
           n == Number(c)
           N == [tried EXCEPT !.validation = n]
           d == [c EXCEPT !.negotiation = tried]
           e == Made(c, w, s, N, n, mode = s)
<1>1. /\ s \notin Available => Begun(c, w, s) = Refuse(c)
      /\ s \in Available /\ tried.count > MaxAttempts => Begun(c, w, s) = Refuse(d)
      /\ s \in Available /\ ~(tried.count > MaxAttempts) => Begun(c, w, s) = e
  BY DEF Begun, Made
<1>2. /\ Sound(c) /\ c \in Controls /\ c.negotiation \in Negotiations /\ n \in Nat
  BY ControlParts, NumberIsNew DEF Sound, Shaped
<1>3. /\ tried \in Negotiations /\ tried.validation = c.negotiation.validation
      /\ tried.failed = c.negotiation.failed
  <2> DEFINE other == [c.negotiation EXCEPT !.window = w, !.count = @ + 1]
  <2>1. other \in Negotiations /\ other.validation = c.negotiation.validation
    BY <1>2, WindowTried
  <2>2. other.failed = c.negotiation.failed
    BY <1>2 DEF Negotiations
  <2> HIDE DEF other
  <2>3. tried \in {c.negotiation, other}
    BY DEF other
  <2> QED BY <1>2, <2>1, <2>2, <2>3
<1> HIDE DEF n, tried
<1>4. N \in Negotiations /\ N.validation = n /\ N.failed = c.negotiation.failed
  BY <1>2, <1>3 DEF Negotiations
<1>5. ASSUME NEW x, Same(c, x, w), Shaped(x, w, fullscreen[w]), x.requests[w] = NoRequest
      PROVE  StillSized(c, Refuse(x), w) /\ Refuse(x).requests[w] = NoRequest
  <2>1. Same(x, Refuse(x), w) /\ Refuse(x).requests[w] = NoRequest
    BY <1>5, RefuseKeeps
  <2>2. Same(c, Refuse(x), w)
    BY <1>5, <2>1, SameOn
  <2> QED BY <2>1, <2>2 DEF Same, StillSized
<1>6. StillSized(c, Refuse(c), w) /\ Refuse(c).requests[w] = NoRequest
  BY <1>2, <1>5, SameAtAll
<1>7. StillSized(c, Refuse(d), w) /\ Refuse(d).requests[w] = NoRequest
  <2>1. Same(c, d, w) /\ d.requests = c.requests
    BY <1>2, <1>3, NegotiationSame
  <2> HIDE DEF d
  <2> QED BY <1>5, <2>1, SameShaped
<1>8. StillSized(c, e, w) /\ AskedOf(c, e, w, s)
  <2> HIDE DEF N
  <2> QED BY <1>2, <1>4, MadeParts
<1> HIDE DEF d, e
<1> QED BY <1>1, <1>6, <1>7, <1>8

\* A window without a request that is asked for a size: the request, and the size.
LEMMA SizeAskedParts ==
    ASSUME NEW c, NEW w \in Windows, Shaped(c, w, fullscreen[w]), fullscreen[w] \in BOOLEAN,
           NEW s \in Sizes, c.requests[w] = NoRequest, NEW begun, begun = Begin(c, w, s)
    PROVE  /\ Beside(c, begun, w) /\ begun.size[w] = c.size[w] /\ begun.told[w] = c.told[w]
           /\ begun.withdrawals[w] = c.withdrawals[w] /\ begun.releases[w] = 0
           /\ begun.requests[w] = NoRequest \/ AskedOf(c, begun, w, s)
           /\ begun.requests[w] = NoRequest => begun.requests[w].size # s
<1> DEFINE given == Restore(c, w)
<1>1. Returned(c, given, w)
  BY RestoreParts DEF Shaped
<1>2. begun = Begun(given, w, s)
  BY EmulatedSizes, NoRequestParts DEF Begin
<1>3. Shaped(given, w, fullscreen[w])
  BY RestoreProper DEF Proper
<1> HIDE DEF given
<1>4. /\ StillSized(given, begun, w)
      /\ begun.requests[w] = NoRequest \/ AskedOf(given, begun, w, s)
  BY <1>1, <1>2, <1>3, BegunParts DEF Returned
<1>5. Beside(c, begun, w)
  BY <1>1, <1>4, BesideOn DEF Returned, StillSized
<1>6. begun.requests[w] = NoRequest => begun.requests[w].size # s
  BY EmulatedSizes, NoRequestParts
<1> QED BY <1>1, <1>4, <1>5, <1>6 DEF Returned, StillSized, AskedOf

\* The window fills its output.
Covers(w) == fullscreen[w]

\* What is to hold of the mapped window: a client that selects what it is told
\* turns once, and no other has a mode.
Good(c, w, changing) ==
    /\ Proper(c, w, fullscreen[w], wanted)
    /\ client = {"mode"} => Fit(c, w, fullscreen[w], mode, changing)

\* A window that is out of fullscreen with no request is left alone.
LeftAlone(c, d, w) ==
    ~fullscreen[w] /\ c.requests[w] = NoRequest =>
        d.told[w] = c.told[w] /\ d.requests[w] = NoRequest

Keeps(c, d, w, changing) == Good(d, w, changing) /\ LeftAlone(c, d, w)

LEMMA KeepsOn ==
    ASSUME NEW c, NEW d, NEW e, NEW w, NEW changing, Keeps(c, d, w, changing),
           Keeps(d, e, w, changing)
    PROVE  Keeps(c, e, w, changing)
BY DEF Keeps, LeftAlone

LEMMA SameGood ==
    ASSUME NEW c, NEW d, NEW w, fullscreen[w] \in BOOLEAN, NEW changing \in BOOLEAN,
           Good(c, w, changing), Same(c, d, w), d.negotiation.failed => c.negotiation.failed
    PROVE  Keeps(c, d, w, changing)
<1>1. Proper(d, w, fullscreen[w], wanted)
  BY SameProper DEF Good
<1>2. client = {"mode"} => Fit(d, w, fullscreen[w], mode, changing)
  BY SameFits DEF Good
<1> QED BY <1>1, <1>2 DEF Good, Keeps, LeftAlone, Same, SameRequest

LEMMA GoodParts ==
    ASSUME NEW c, NEW w, NEW changing, Good(c, w, changing)
    PROVE  /\ Shaped(c, w, fullscreen[w]) /\ Sound(c) /\ Only(c, w) /\ Dated(c)
           /\ Sized(c, w, fullscreen[w]) /\ c \in Controls
           /\ OneRequested(c) /\ Requested(c) \subseteq {w}
BY OnlyOneRequested DEF Good, Proper, Shaped, Sound

\* A callback that came is one fewer.
LEMMA TimerTaken ==
    ASSUME NEW c, Sound(c), NEW t, t.kind # "validate", NEW w,
           NEW d, d = [c EXCEPT !.timers = @ \ {t}]
    PROVE  Same(c, d, w) /\ d.negotiation = c.negotiation /\ d.requests = c.requests
           /\ d.releases = c.releases /\ d.withdrawals = c.withdrawals
<1>1. Sound(d) /\ d.requests = c.requests /\ d.withdrawals = c.withdrawals
      /\ d.size = c.size /\ d.timers = c.timers \ {t}
  BY TimerGone
<1>2. d.told = c.told /\ d.releases = c.releases /\ d.negotiation = c.negotiation
  BY DEF Sound, Controls
<1> QED BY <1>1, <1>2 DEF Same, Beside, SameRequest

\* The window is looked at: schedule().
LEMMA LookGood ==
    ASSUME NEW c, NEW w \in Windows, fullscreen[w] \in BOOLEAN, NEW changing \in BOOLEAN,
           Good(c, w, changing)
    PROVE  Keeps(c, Schedule(c, w), w, changing)
BY LookSame, SameGood, GoodParts

LEMMA RestoreGood ==
    ASSUME NEW c, NEW w \in Windows, fullscreen[w] \in BOOLEAN, NEW changing \in BOOLEAN,
           Good(c, w, changing),
           client = {"mode"} /\ fullscreen[w] /\ c.requests[w] # NoRequest =>
               mode = c.requests[w].size /\ ~changing
    PROVE  Keeps(c, Restore(c, w), w, changing)
<1>1. Proper(Restore(c, w), w, fullscreen[w], wanted)
  BY GoodParts, RestoreProper
<1>2. client = {"mode"} => Fit(Restore(c, w), w, fullscreen[w], mode, changing)
  BY GoodParts, RestoreFits DEF Good
<1>3. LeftAlone(c, Restore(c, w), w)
  BY GoodParts, RestoreParts DEF Returned, LeftAlone
<1> QED BY <1>1, <1>2, <1>3 DEF Keeps, Good

\* A window that waits for nothing is asked: its client has no mode.
LEMMA AskedWaitsNot ==
    ASSUME NEW c, NEW w, NEW changing \in BOOLEAN, Covers(w),
           Fit(c, w, fullscreen[w], mode, changing), c.requests[w] = NoRequest,
           c.withdrawals[w] = 0, Sized(c, w, fullscreen[w])
    PROVE  /\ mode = NoSize /\ ~changing /\ c.size[w] = Full
           /\ Once(c.told[w], NoSize, NoSize)
           /\ Leads(c.told[w], NoSize, NoSize)
BY EmulatedSizes DEF Fit, Withdrawing, Sized, Covers

LEMMA AskSizeGood ==
    ASSUME NEW c, NEW w \in Windows, fullscreen[w] \in BOOLEAN, Covers(w),
           NEW changing \in BOOLEAN, Good(c, w, changing), Orderly(c), c.requests[w] = NoRequest,
           c.withdrawals[w] = 0, wanted \in Sizes, ~c.negotiation.failed
    PROVE  Good(AskSize(c, w, wanted), w, changing)
<1> DEFINE s == wanted
           begun == Begin(c, w, s)
           d == Configure(begun, w, s)
<1>1. /\ Beside(c, begun, w) /\ begun.size[w] = c.size[w] /\ begun.told[w] = c.told[w]
      /\ begun.withdrawals[w] = c.withdrawals[w] /\ begun.releases[w] = 0
      /\ begun.requests[w] = NoRequest \/ AskedOf(c, begun, w, s)
      /\ begun.requests[w] = NoRequest => begun.requests[w].size # s
  <2>1. begun = Begin(c, w, s) /\ Shaped(c, w, fullscreen[w]) /\ s \in Sizes
    BY GoodParts
  <2> HIDE DEF begun, s
  <2> QED BY <2>1, SizeAskedParts
<1>2. /\ begun.requests[w].size = s => AskSize(c, w, s) = d
      /\ begun.requests[w].size # s => AskSize(c, w, s) = begun
  BY DEF AskSize
<1> HIDE DEF begun
<1>3. /\ Only(begun, w) /\ Dated(begun) /\ Sound(begun) /\ Sized(c, w, fullscreen[w])
      /\ c.size[w] = Full
  <2>1. Sized(c, w, fullscreen[w])
    BY GoodParts
  <2>2. c.size[w] = Full
    BY <2>1 DEF Sized, Covers
  <2> QED BY <1>1, <2>1, <2>2, GoodParts, OnlyStays DEF Beside
<1>4. CASE begun.requests[w] = NoRequest
  <2>1. Proper(begun, w, fullscreen[w], wanted)
    BY <1>1, <1>3, <1>4 DEF Proper, Shaped, Sized, Standing, Covers
  <2>2. client = {"mode"} => Fit(begun, w, fullscreen[w], mode, changing)
    <3>1. client = {"mode"} => /\ mode = NoSize /\ ~changing /\ c.size[w] = Full
                               /\ Once(c.told[w], NoSize, NoSize)
                               /\ Leads(c.told[w], NoSize, NoSize)
      BY <1>3, AskedWaitsNot DEF Good
    <3> QED BY <1>1, <1>4, <3>1, EmulatedSizes DEF Fit
  <2> QED BY <1>1, <1>2, <1>4, <2>1, <2>2 DEF Good
<1>5. CASE begun.requests[w] # NoRequest
  <2>1. AskedOf(c, begun, w, s) /\ begun.requests[w].size = s
    BY <1>1, <1>5 DEF AskedOf
  <2>2. Resized(begun, d, w, s, ToldOf(begun, w, s))
    BY <1>3, ConfigureParts DEF RealSize
  <2>3. Beside(c, d, w)
    BY <1>1, <2>2, BesideOn DEF Resized
  <2>4. Only(d, w) /\ Dated(d) /\ Sound(d)
    BY <2>3, GoodParts, OnlyStays DEF Beside
  <2>5. Proper(d, w, fullscreen[w], wanted)
    BY <2>1, <2>2, <2>4 DEF Proper, Shaped, Sized, Standing, Resized, AskedOf, Covers
  <2>6. ASSUME client = {"mode"}
        PROVE  Fit(d, w, fullscreen[w], mode, changing)
    <3>1. /\ mode = NoSize /\ ~changing /\ Once(c.told[w], NoSize, NoSize)
          /\ c.told[w] \in Seq(RealSize)
      <4>1. c.told[w] \in Seq(RealSize)
        BY GoodParts, ControlParts
      <4> QED BY <1>3, <2>6, <4>1, AskedWaitsNot DEF Good
    <3>2. s # Full /\ s # NoSize /\ Emulated(s) = s /\ s \in RealSize
      BY EmulatedSizes DEF RealSize
    <3>3. d.told[w] = Append(c.told[w], s) /\ d.size[w] = s /\ d.requests[w] = begun.requests[w]
      BY <1>1, <1>3, <2>2, <3>2 DEF Resized, ToldOf
    <3>4. Leads(d.told[w], mode, Emulated(d.size[w]))
      BY <3>1, <3>2, <3>3, LeadsThere
    <3>5. Once(d.told[w], mode, Emulated(d.size[w]))
      BY <3>1, <3>2, <3>3, OnceMore
    <3>6. \A t \in d.timers :
             t.kind = "release" /\ t.window = w /\ t.token = d.releases[w] => t.due # 0
      <4>1. d.releases[w] = 0
        BY <1>1, <2>2 DEF Resized
      <4>2. \A t \in d.timers : t.kind = "release" => t \in c.timers
        BY <2>3 DEF Beside
      <4> QED BY <4>1, <4>2 DEF Orderly
    <3>7. ~Over(d, d.requests[w].verdict)
      BY <2>1, <2>2, <3>3 DEF AskedOf, Resized, Over
    <3>8. Answering(d, w, mode, changing)
      BY <2>1, <3>1, <3>2, <3>3, <3>6, <3>7 DEF Answering, AskedOf
    <3> QED BY <1>5, <3>1, <3>3, <3>4, <3>5, <3>8 DEF Fit
  <2> QED BY <1>2, <2>1, <2>5, <2>6 DEF Good
<1> QED BY <1>4, <1>5

\* What this control notes of a window besides its size and its request.
LEMMA NotesSame ==
    ASSUME NEW c, Sound(c), NEW w, NEW d, Sound(d), d.requests = c.requests, d.size = c.size,
           d.told = c.told, d.withdrawals = c.withdrawals, d.releases = c.releases,
           d.timers = c.timers
    PROVE  Same(c, d, w)
BY DEF Same, Beside, SameRequest

LEMMA OverdueCleared ==
    ASSUME NEW c, Sound(c), NEW w \in Windows, Orderly(c), NEW d,
           d = [c EXCEPT !.overdue = @ \ {w}]
    PROVE  /\ Same(c, d, w) /\ d.negotiation = c.negotiation /\ d.requests = c.requests
           /\ d.withdrawals = c.withdrawals /\ Orderly(d)
<1>1. c \in Controls
  BY DEF Sound
<1>2. d \in Controls
  BY <1>1 DEF Controls
<1>3. /\ d.requests = c.requests /\ d.size = c.size /\ d.told = c.told /\ d.timers = c.timers
      /\ d.withdrawals = c.withdrawals /\ d.releases = c.releases
      /\ d.negotiation = c.negotiation /\ d.stretched = c.stretched
  BY <1>1 DEF Controls
<1>4. Sound(d)
  BY <1>2, <1>3 DEF Sound, Numbered
<1>5. Orderly(d)
  BY <1>3 DEF Orderly, EndsRelease, EndsInTime, Over
<1> QED BY <1>3, <1>4, <1>5, NotesSame

LEMMA AskGood ==
    ASSUME NEW c, NEW w \in Windows, fullscreen[w] \in BOOLEAN, Covers(w),
           NEW changing \in BOOLEAN, Good(c, w, changing), Orderly(c),
           c.requests[w] = NoRequest, wanted \in Sizes, ~c.negotiation.failed
    PROVE  Good(Ask(c, w, wanted), w, changing)
<1> DEFINE waited == AwaitWithdrawal(c, w)
           e == [c EXCEPT !.overdue = @ \ {w}]
<1>1. Sound(c) /\ Sized(c, w, fullscreen[w])
  BY GoodParts
<1>2. CASE c.withdrawals[w] # 0
  BY <1>2 DEF Ask
<1>3. CASE c.withdrawals[w] = 0 /\ mode \notin {NoSize, wanted} /\ w \notin c.overdue
  <2>1. Waits(c, waited, w)
    BY <1>1, AwaitParts
  <2>2. Ask(c, w, wanted) = waited
    BY <1>3 DEF Ask
  <2> HIDE DEF waited
  <2>3. Shaped(waited, w, fullscreen[w])
    <3>1. Only(waited, w) /\ Dated(waited)
      BY <2>1, GoodParts, OnlyStays DEF Waits
    <3> QED BY <1>1, <2>1, <3>1 DEF Shaped, Sized, Waits, Beside
  <2>4. Proper(waited, w, fullscreen[w], wanted)
    BY <2>1, <2>3 DEF Proper, Standing, Waits
  <2>5. client = {"mode"} => Fit(waited, w, fullscreen[w], mode, changing)
    BY <2>1 DEF Good, Fit, Waits
  <2> QED BY <2>2, <2>4, <2>5 DEF Good
<1>4. CASE c.withdrawals[w] = 0 /\ (mode \in {NoSize, wanted} \/ w \in c.overdue)
  <2>1. Ask(c, w, wanted) = AskSize(e, w, wanted)
    BY <1>4 DEF Ask
  <2>2. /\ Same(c, e, w) /\ e.negotiation = c.negotiation /\ e.requests = c.requests
        /\ e.withdrawals = c.withdrawals /\ Orderly(e)
    BY <1>1, OverdueCleared
  <2> HIDE DEF e
  <2>3. Good(e, w, changing)
    BY <2>2, SameGood DEF Keeps
  <2> QED BY <1>4, <2>1, <2>2, <2>3, AskSizeGood
<1> QED BY <1>2, <1>3, <1>4

LEMMA WaitsForBuffer ==
    ASSUME NEW c, Sound(c), NEW w \in Windows, NEW d, d = [c EXCEPT !.waiting = @ \cup {w}]
    PROVE  Same(c, d, w) /\ d.negotiation = c.negotiation
<1>1. c \in Controls
  BY DEF Sound
<1>2. d \in Controls
  BY <1>1 DEF Controls
<1>3. /\ d.requests = c.requests /\ d.size = c.size /\ d.told = c.told /\ d.timers = c.timers
      /\ d.withdrawals = c.withdrawals /\ d.releases = c.releases
      /\ d.negotiation = c.negotiation /\ d.stretched = c.stretched
  BY <1>1 DEF Controls
<1>4. Sound(d)
  BY <1>2, <1>3 DEF Sound, Numbered
<1> QED BY <1>3, <1>4, NotesSame

\* A look at the window: what stands is what is wanted, so it gives back nothing
\* that its client has yet to answer.
LEMMA ApplyGood ==
    ASSUME NEW c, NEW w \in Windows, fullscreen[w] \in BOOLEAN,
           NEW changing \in BOOLEAN, Good(c, w, changing), Orderly(c),
           wanted \in Sizes \cup {NoSize}
    PROVE  Keeps(c, Apply(c, w), w, changing)
<1> DEFINE s == AskedSize(c)
           d == [c EXCEPT !.waiting = @ \cup {w}]
<1>1. Sound(c) /\ Keeps(c, c, w, changing)
  BY GoodParts, SameAtAll, SameGood
<1>2. CASE ~Covers(w)
  <2>1. Apply(c, w) = Restore(c, w)
    BY <1>2 DEF Apply, Covers
  <2>2. client = {"mode"} /\ fullscreen[w] /\ c.requests[w] # NoRequest =>
               mode = c.requests[w].size /\ ~changing
    BY <1>2 DEF Covers
  <2> QED BY <2>1, <2>2, RestoreGood
<1>3. CASE Covers(w)
  <2>1. c.requests[w] # NoRequest /\ c.releases[w] = 0 =>
            s = wanted /\ c.requests[w].size = s /\ s # NoSize
    <3>1. c.requests[w] # NoRequest => c.requests[w].size \in Sizes
      BY <1>1, ControlParts, RequestParts DEF Sound, Asked
    <3>2. Standing(c, w, wanted)
      BY <1>3 DEF Covers, Good, Proper
    <3> QED BY <3>1, <3>2, EmulatedSizes DEF Standing, AskedSize
  <2>2. s # NoSize => s = wanted /\ wanted \in Sizes /\ ~c.negotiation.failed
    BY DEF AskedSize
  <2>3. CASE c.releases[w] # 0
    <3>1. Apply(c, w) = c
      BY <1>3, <2>3 DEF Apply, Covers
    <3> QED BY <1>1, <3>1
  <2>4. CASE c.releases[w] = 0 /\ s = NoSize
    <3>1. c.requests[w] = NoRequest
      BY <2>1, <2>4
    <3>2. Apply(c, w) = Restore(c, w)
      BY <1>3, <2>4, <3>1 DEF Apply, Release, Covers
    <3> QED BY <3>1, <3>2, RestoreGood
  <2>5. CASE c.releases[w] = 0 /\ s # NoSize /\ buffer[w] = NoSize
    <3>1. Apply(c, w) = d
      BY <1>3, <2>5 DEF Apply, Covers
    <3>2. Same(c, d, w) /\ d.negotiation = c.negotiation
      BY <1>1, WaitsForBuffer
    <3> HIDE DEF d
    <3> QED BY <3>1, <3>2, SameGood
  <2>6. CASE c.releases[w] = 0 /\ s # NoSize /\ buffer[w] # NoSize /\ c.requests[w] # NoRequest
    <3>1. Apply(c, w) = c
      BY <1>3, <2>1, <2>6 DEF Apply, Covers
    <3> QED BY <1>1, <3>1
  <2>7. CASE c.releases[w] = 0 /\ s # NoSize /\ buffer[w] # NoSize /\ c.requests[w] = NoRequest
    <3>1. c.requests[w].size # s
      BY <2>7, NoRequestParts
    <3>2. Apply(c, w) = Ask(c, w, wanted)
      BY <1>3, <2>2, <2>7, <3>1 DEF Apply, Covers
    <3>3. Good(Ask(c, w, wanted), w, changing)
      BY <1>3, <2>2, <2>7, AskGood
    <3> QED BY <1>3, <3>2, <3>3 DEF Keeps, LeftAlone, Covers
  <2> QED BY <2>3, <2>4, <2>5, <2>6, <2>7
<1> QED BY <1>2, <1>3

\* A request that was answered, or was not.
AnsweredBy(r, q) ==
    /\ r = NoRequest <=> q = NoRequest
    /\ q.size = r.size /\ q.verdict = r.verdict

LEMMA AnswerOnly ==
    ASSUME NEW r \in Requests, NEW b \in BOOLEAN, r = NoRequest => b = FALSE,
           NEW q, q = [r EXCEPT !.answered = b]
    PROVE  AnsweredBy(r, q) /\ q.answered = b
<1>1. CASE r = NoRequest
  <2> DEFINE bare == NoRequest
  <2>1. bare \in [size : {NoSize}, answered : BOOLEAN, presented : BOOLEAN, verdict : Nat]
    BY DEF NoRequest
  <2>2. bare.answered = FALSE
    BY NoRequestParts
  <2>3. r = bare /\ b = FALSE
    BY <1>1
  <2> HIDE DEF bare
  <2>4. q = bare
    BY <2>1, <2>2, <2>3
  <2> QED BY <1>1, <2>2, <2>3, <2>4 DEF AnsweredBy, bare
<1>2. CASE r # NoRequest
  <2>1. r \in Asked
    BY <1>2, RequestParts
  <2>2. q # NoRequest /\ q.verdict = r.verdict
    BY <2>1, RequestAnswered
  <2>3. q.size = r.size /\ q.answered = b
    BY <2>1 DEF Asked
  <2> QED BY <1>2, <2>2, <2>3 DEF AnsweredBy
<1> QED BY <1>1, <1>2

\* What this control notes of a change of mode.
Noting(c, d, w) ==
    /\ Sound(d) /\ d.size = c.size /\ d.told = c.told /\ d.withdrawals = c.withdrawals
    /\ d.releases = c.releases /\ d.negotiation = c.negotiation
    /\ \A v \in Windows \ {w} : d.requests[v] = c.requests[v]
    /\ AnsweredBy(c.requests[w], d.requests[w])
    /\ d.requests[w].answered => c.requests[w].answered \/ mode = c.requests[w].size
    /\ c.timers \subseteq d.timers
    /\ \A t \in d.timers : t \in c.timers \/ (t.kind \in {"answer", "withdrawn"} /\ t.window = w)

LEMMA NotedParts ==
    ASSUME NEW c, Sound(c), NEW w \in Windows, NEW new \in BOOLEAN
    PROVE  Noting(c, ModeNoted(c, w, new), w)
<1> DEFINE request == c.requests[w]
           answer == request # NoRequest /\ ~request.answered /\ new /\ mode = request.size
           b == request.answered \/ answer
           r == [request EXCEPT !.answered = b]
           answers == IF answer /\ c.releases[w] # 0
                      THEN {Timer("answer", w, c.releases[w], 0)} ELSE {}
           ends == IF c.withdrawals[w] # 0
                   THEN {Timer("withdrawn", w, c.withdrawals[w], 0)} ELSE {}
           d == ModeNoted(c, w, new)
<1>1. c \in Controls /\ request \in Requests
  BY ControlParts DEF Sound
<1>2. \/ d = c
      \/ d = [c EXCEPT !.requests[w].answered = @ \/ answer,
                       !.timers = (@ \cup answers) \cup ends]
  BY DEF ModeNoted
<1>3. Sound(d)
  BY NotedQuietly DEF Quietly
<1>4. CASE d = c
  BY <1>3, <1>4 DEF Noting, AnsweredBy
<1>5. CASE d # c
  <2>1. /\ \A t \in answers : t.kind = "answer" /\ t.window = w
        /\ \A t \in ends : t.kind = "withdrawn" /\ t.window = w
    BY DEF Timer
  <2>2. /\ answer \in BOOLEAN /\ (answer => request # NoRequest)
        /\ answer => mode = request.size
    OBVIOUS
  <2>3. d = [c EXCEPT !.requests[w].answered = @ \/ answer,
                      !.timers = (@ \cup answers) \cup ends]
    BY <1>2, <1>5
  <2> HIDE DEF answers, ends, answer, d
  <2>4. /\ d.requests = [c.requests EXCEPT ![w] = r] /\ d.releases = c.releases
        /\ d.negotiation = c.negotiation /\ d.timers = (c.timers \cup answers) \cup ends
        /\ d.size = c.size /\ d.told = c.told /\ d.withdrawals = c.withdrawals
    BY <1>1, <2>3 DEF Controls
  <2>5. d.requests[w] = r /\ \A v \in Windows \ {w} : d.requests[v] = c.requests[v]
    BY <1>1, <2>4 DEF Controls
  <2>6. b \in BOOLEAN /\ (request = NoRequest => b = FALSE)
    <3>1. request.answered \in BOOLEAN
      BY <1>1, NoRequestParts DEF Requests, Asked
    <3>2. request = NoRequest => request.answered = FALSE
      BY NoRequestParts
    <3> HIDE DEF request
    <3> QED BY <2>2, <3>1, <3>2
  <2>7. AnsweredBy(request, r) /\ r.answered = b
    <3> HIDE DEF request, b
    <3> QED BY <1>1, <2>6, AnswerOnly
  <2> HIDE DEF r
  <2>8. d.requests[w].answered => c.requests[w].answered \/ mode = c.requests[w].size
    BY <2>2, <2>5, <2>7
  <2>9. /\ c.timers \subseteq d.timers
        /\ \A t \in d.timers :
              t \in c.timers \/ (t.kind \in {"answer", "withdrawn"} /\ t.window = w)
    BY <2>1, <2>4
  <2>10. AnsweredBy(c.requests[w], d.requests[w])
    BY <2>5, <2>7
  <2> QED BY <1>3, <2>4, <2>5, <2>8, <2>9, <2>10 DEF Noting, d
<1> QED BY <1>4, <1>5

\* A change of mode that KWin handles is the last: the client has the mode the
\* window was sized to, and KWin sizes nothing.
LEMMA ModeGood ==
    ASSUME NEW c, NEW w \in Windows, fullscreen[w] \in BOOLEAN, NEW new \in BOOLEAN,
           Good(c, w, TRUE), client = {"mode"}, mode \in Sizes \cup {NoSize},
           NEW changing \in BOOLEAN, fullscreen[w] => ~changing
    PROVE  LET d == SizedByMode(ModeNoted(c, w, new), w)
           IN  Good(d, w, changing) /\ d.told[w] = c.told[w] /\ d.size[w] = c.size[w]
<1> DEFINE n == ModeNoted(c, w, new)
           s == IF mode = NoSize THEN Full ELSE mode
           d == SizedByMode(n, w)
<1>1. Noting(c, n, w) /\ Sound(c) /\ c.requests[w] \in Requests
  BY GoodParts, NotedParts, ControlParts
<1> HIDE DEF n
<1>2. Fit(c, w, fullscreen[w], mode, TRUE) /\ Proper(c, w, fullscreen[w], wanted)
  BY DEF Good
<1>3. c.requests[w] # NoRequest => c.requests[w].size \in Sizes
  BY <1>1, RequestParts DEF Asked
<1>4. fullscreen[w] => mode = Emulated(c.size[w]) /\ c.size[w] = s
  <2>1. fullscreen[w] => mode = Emulated(c.size[w])
    BY <1>2 DEF Fit
  <2>2. fullscreen[w] => c.size[w] = Full \/ c.size[w] \in Sizes
    BY <1>2, <1>3 DEF Proper, Shaped, Sized
  <2> QED BY <2>1, <2>2, EmulatedSizes
<1>5. s \in RealSize /\ Sound(n)
  BY <1>1 DEF RealSize, Noting
<1> HIDE DEF s
<1>6. /\ Sound(d) /\ d.size[w] = c.size[w] /\ d.told = n.told /\ d.requests = n.requests
      /\ d.withdrawals = n.withdrawals /\ d.releases = n.releases /\ d.timers = n.timers
      /\ d.negotiation = n.negotiation
  <2>1. CASE SizesByMode /\ fullscreen[w]
    <3>1. d = Configure(n, w, s)
      BY <2>1 DEF SizedByMode, s
    <3>2. Resized(n, d, w, s, ToldOf(n, w, s))
      BY <1>5, <3>1, ConfigureParts
    <3>3. d.told[w] = n.told[w] /\ d.size[w] = c.size[w]
      BY <1>1, <1>4, <2>1, <3>2 DEF Resized, ToldOf, Noting
    <3>4. d.told = n.told
      <4>1. n \in Controls /\ n.size[w] = s
        BY <1>1, <1>4, <1>5, <2>1 DEF Sound, Noting
      <4>2. d.told = [n.told EXCEPT ![w] = n.told[w]]
        BY <3>1, <4>1 DEF Configure, Controls
      <4> QED BY <4>1, <4>2 DEF Controls
    <3> HIDE DEF d
    <3> QED BY <3>2, <3>3, <3>4 DEF Resized, Beside
  <2>2. CASE ~(SizesByMode /\ fullscreen[w])
    <3>1. d = n
      BY <2>2 DEF SizedByMode
    <3> HIDE DEF d
    <3> QED BY <1>1, <3>1 DEF Noting
  <2> QED BY <2>1, <2>2
<1> HIDE DEF d
<1>7. Only(d, w) /\ Dated(d) /\ Sized(d, w, fullscreen[w]) /\ Standing(d, w, wanted) <=>
      Only(d, w) /\ Dated(d) /\ Sized(d, w, fullscreen[w]) /\ Standing(c, w, wanted)
  BY <1>1, <1>6 DEF Standing, Noting, AnsweredBy
<1>8. Only(d, w) /\ Dated(d) /\ Sized(d, w, fullscreen[w])
  <2>1. Only(d, w) /\ Dated(d)
    BY <1>1, <1>2, <1>6 DEF Proper, Shaped, Only, Dated, Noting
  <2>2. Sized(d, w, fullscreen[w])
    BY <1>1, <1>2, <1>6 DEF Proper, Shaped, Sized, Noting, AnsweredBy
  <2> QED BY <2>1, <2>2
<1>9. Proper(d, w, fullscreen[w], wanted)
  BY <1>2, <1>6, <1>7, <1>8 DEF Proper, Shaped
<1>10. ASSUME fullscreen[w], d.requests[w] # NoRequest
       PROVE  Answering(d, w, mode, FALSE)
  <2>1. /\ c.requests[w] # NoRequest /\ Answering(c, w, mode, TRUE)
        /\ d.requests[w].size = c.requests[w].size
    BY <1>1, <1>2, <1>6, <1>10 DEF Fit, Noting, AnsweredBy
  <2>2. mode = d.requests[w].size
    <3>1. c.size[w] = c.requests[w].size
      BY <1>2, <1>10, <2>1 DEF Proper, Shaped, Sized
    <3> QED BY <1>3, <1>4, <1>10, <2>1, <3>1, EmulatedSizes
  <2>3. \A t \in d.timers :
            t.kind = "release" /\ t.window = w /\ t.token = d.releases[w] => t.due # 0
    BY <1>1, <1>6, <2>1 DEF Answering, Noting
  <2> QED BY <2>2, <2>3 DEF Answering
<1>11. Fit(d, w, fullscreen[w], mode, changing)
  <2>1. d.told[w] = c.told[w] /\ d.size[w] = c.size[w]
    BY <1>1, <1>6 DEF Noting
  <2>2. ASSUME fullscreen[w], d.requests[w] = NoRequest
        PROVE  mode = NoSize
    <3>1. c.requests[w] = NoRequest
      BY <1>1, <1>6, <2>2 DEF Noting, AnsweredBy
    <3>2. c.size[w] = Full
      BY <1>2, <2>2, <3>1 DEF Proper, Shaped, Sized
    <3> QED BY <1>4, <2>2, <3>2, EmulatedSizes
  <2>3. fullscreen[w] => changing = FALSE
    OBVIOUS
  <2> QED BY <1>2, <1>10, <2>1, <2>2, <2>3 DEF Fit
<1> QED BY <1>1, <1>6, <1>9, <1>11 DEF Good, Noting, d, n

\* A client that has the mode the window is asked for: what a verdict finds.
Has(c, w, changing) ==
    client = {"mode"} /\ fullscreen[w] /\ c.requests[w] # NoRequest =>
        mode = c.requests[w].size /\ ~changing

LEMMA HasStays ==
    ASSUME NEW c, NEW d, NEW w, NEW changing, Has(c, w, changing),
           AnsweredBy(c.requests[w], d.requests[w])
    PROVE  Has(d, w, changing)
BY DEF Has, AnsweredBy

LEMMA RefuseGood ==
    ASSUME NEW c, NEW w \in Windows, fullscreen[w] \in BOOLEAN, NEW changing \in BOOLEAN,
           Good(c, w, changing), Has(c, w, changing)
    PROVE  Keeps(c, Refuse(c), w, changing) /\ Beside(c, Refuse(c), w)
<1> DEFINE d == Refuse(c)
<1>1. /\ Proper(d, w, fullscreen[w], wanted) /\ Beside(c, d, w) /\ d.requests[w] = NoRequest
      /\ c.requests[w] = NoRequest => Same(c, d, w)
      /\ \A b \in BOOLEAN :
           /\ Fit(c, w, fullscreen[w], mode, b)
           /\ fullscreen[w] /\ c.requests[w] # NoRequest =>
                mode = c.requests[w].size /\ ~b
           => Fit(d, w, fullscreen[w], mode, b)
  BY GoodParts, RefuseKeeps
<1> HIDE DEF d
<1>2. client = {"mode"} => Fit(d, w, fullscreen[w], mode, changing)
  BY <1>1 DEF Good, Has
<1> QED BY <1>1, <1>2 DEF Good, Keeps, LeftAlone, Same, d

LEMMA RetryGood ==
    ASSUME NEW c, NEW w \in Windows, fullscreen[w] \in BOOLEAN, NEW changing \in BOOLEAN,
           Good(c, w, changing), Has(c, w, changing)
    PROVE  Keeps(c, RetryOrRefuse(c), w, changing) /\ RetryOrRefuse(c).requests[w] = NoRequest
<1> DEFINE N == [c.negotiation EXCEPT !.retried = TRUE]
           noted == [c EXCEPT !.negotiation = N]
           again == RestoreEach(noted, Requested(noted))
           later == {Timer("retry", v, c.generation, 0) : v \in Requested(c)}
           d == [again EXCEPT !.timers = @ \cup later]
<1>1. c.negotiation \in Negotiations /\ Sound(c) /\ c \in Controls /\ Requested(c) \subseteq {w}
      /\ OneRequested(c)
  BY GoodParts, ControlParts
<1>2. N \in Negotiations /\ N.validation = c.negotiation.validation
      /\ N.failed = c.negotiation.failed
  BY <1>1 DEF Negotiations
<1>3. RetryOrRefuse(c) = Refuse(c)
      \/ RetryOrRefuse(c) = [RestoreEach(noted, Requested(c)) EXCEPT !.timers = @ \cup later]
  BY DEF RetryOrRefuse
<1> HIDE DEF N
<1>4. Same(c, noted, w) /\ noted.requests = c.requests /\ noted.negotiation = N
  BY <1>1, <1>2, NegotiationSame
<1> HIDE DEF noted
<1>5. Requested(noted) = Requested(c)
  BY <1>4 DEF Requested
<1>6. Keeps(c, noted, w, changing) /\ Shaped(noted, w, fullscreen[w])
  BY <1>2, <1>4, SameGood, GoodParts DEF Keeps
<1>7. /\ Proper(again, w, fullscreen[w], wanted) /\ Beside(noted, again, w)
      /\ again.requests[w] = NoRequest
      /\ noted.requests[w] = NoRequest => again = noted
      /\ \A b \in BOOLEAN :
           /\ Fit(noted, w, fullscreen[w], mode, b)
           /\ fullscreen[w] /\ noted.requests[w] # NoRequest =>
                mode = noted.requests[w].size /\ ~b
           => Fit(again, w, fullscreen[w], mode, b)
  BY <1>6, EachRestored
<1> HIDE DEF again
<1>8. Keeps(noted, again, w, changing)
  <2>1. client = {"mode"} => Fit(again, w, fullscreen[w], mode, changing)
    BY <1>4, <1>6, <1>7 DEF Good, Has, Keeps
  <2> QED BY <1>7, <2>1 DEF Good, Keeps, LeftAlone
<1>9. \A t \in later : t.kind = "retry" /\ t.window = w
  BY <1>1 DEF Timer
<1>10. RetryOrRefuse(c) = Refuse(c) \/ RetryOrRefuse(c) = d
  BY <1>3, <1>5 DEF again
<1>11. again \in Controls /\ Sound(again)
  BY <1>8, GoodParts DEF Keeps
<1>12. RetryOrRefuse(c) = d => Sound(d)
  BY <1>1, RetriedOrRefused DEF Quietly
<1> HIDE DEF later
<1>13. /\ d.requests = again.requests /\ d.negotiation = again.negotiation
       /\ d.releases = again.releases /\ d.timers = again.timers \cup later
       /\ d.size = again.size /\ d.told = again.told /\ d.withdrawals = again.withdrawals
  BY <1>11 DEF Controls
<1> HIDE DEF d
<1>14. RetryOrRefuse(c) = d => Same(again, d, w)
  BY <1>9, <1>12, <1>13 DEF Same, Beside, SameRequest
<1>15. RetryOrRefuse(c) = d => Keeps(again, d, w, changing)
  BY <1>8, <1>13, <1>14, SameGood DEF Keeps
<1>16. RetryOrRefuse(c) = d => Keeps(c, d, w, changing)
  BY <1>6, <1>8, <1>15, KeepsOn
<1>17. Keeps(c, Refuse(c), w, changing) /\ Refuse(c).requests[w] = NoRequest
  BY <1>1, RefuseGood, Refused DEF Requested
<1>18. d.requests[w] = NoRequest
  BY <1>7, <1>13
<1> QED BY <1>10, <1>16, <1>17, <1>18

\* The verdict on a request: its client answered, or has the mode.
JudgedAll(c) ==
    [w \in Windows |-> IF w \in Requested(c)
                       THEN [c.requests[w] EXCEPT !.answered = TRUE]
                       ELSE c.requests[w]]

LEMMA JudgedGood ==
    ASSUME NEW c, NEW w \in Windows, fullscreen[w] \in BOOLEAN, NEW changing \in BOOLEAN,
           Good(c, w, changing), Has(c, w, changing),
           NEW d, d = [c EXCEPT !.requests = JudgedAll(c)]
    PROVE  /\ Keeps(c, d, w, changing) /\ Has(d, w, changing)
           /\ d.negotiation = c.negotiation
<1>1. c \in Controls /\ Sound(c) /\ OneRequested(c)
  BY GoodParts
<1>2. Sound(d)
  BY <1>1, Judged DEF JudgedAll, Quietly
<1>3. /\ d.requests = JudgedAll(c) /\ d.negotiation = c.negotiation /\ d.size = c.size
      /\ d.told = c.told /\ d.timers = c.timers /\ d.withdrawals = c.withdrawals
      /\ d.releases = c.releases
  BY <1>1 DEF Controls
<1>4. ASSUME NEW v \in Windows
      PROVE  AnsweredBy(c.requests[v], d.requests[v])
  <2> DEFINE r == c.requests[v]
             yes == TRUE
  <2>1. r \in Requests
    BY <1>1, ControlParts
  <2>2. d.requests[v] = IF r # NoRequest THEN [r EXCEPT !.answered = yes] ELSE r
    BY <1>3 DEF JudgedAll, Requested
  <2> HIDE DEF r
  <2>3. CASE r = NoRequest
    BY <2>2, <2>3 DEF AnsweredBy, r
  <2>4. CASE r # NoRequest
    BY <2>1, <2>2, <2>4, AnswerOnly DEF r
  <2> QED BY <2>3, <2>4
<1>5. Only(d, w) /\ Dated(d) /\ Sized(d, w, fullscreen[w])
  <2>1. Only(d, w) /\ Dated(d)
    <3>1. Only(c, w) /\ Dated(c)
      BY GoodParts
    <3> QED BY <1>3, <1>4, <3>1 DEF Only, Dated, AnsweredBy
  <2>2. Sized(c, w, fullscreen[w])
    BY GoodParts
  <2>3. Sized(d, w, fullscreen[w])
    BY <1>3, <1>4, <2>2 DEF Sized, AnsweredBy
  <2> QED BY <2>1, <2>3
<1>6. Proper(d, w, fullscreen[w], wanted)
  BY <1>2, <1>3, <1>4, <1>5 DEF Good, Proper, Shaped, Standing, AnsweredBy
<1>7. ASSUME client = {"mode"}
      PROVE  Fit(d, w, fullscreen[w], mode, changing)
  <2>1. Fit(c, w, fullscreen[w], mode, changing)
    BY <1>7 DEF Good
  <2>2. Answering(c, w, mode, changing) /\ fullscreen[w] /\ c.requests[w] # NoRequest
          => Answering(d, w, mode, changing)
    BY <1>3, <1>4, <1>7 DEF Answering, Has, AnsweredBy
  <2>3. Withdrawing(c, w) => Withdrawing(d, w)
    BY <1>3 DEF Withdrawing, Noticed
  <2> QED BY <1>3, <1>4, <2>1, <2>2, <2>3 DEF Fit, AnsweredBy
<1>8. LeftAlone(c, d, w)
  BY <1>3, <1>4 DEF LeftAlone, AnsweredBy
<1> QED BY <1>3, <1>4, <1>6, <1>7, <1>8, HasStays DEF Good, Keeps

LEMMA ValidateGood ==
    ASSUME NEW c, NEW w \in Windows, fullscreen[w] \in BOOLEAN, NEW changing \in BOOLEAN,
           Good(c, w, changing), Has(c, w, changing)
    PROVE  Keeps(c, Validate(c), w, changing) /\ Has(Validate(c), w, changing)
<1> DEFINE judged == [c EXCEPT !.requests = JudgedAll(c)]
           N == [judged.negotiation EXCEPT !.window = NoWindow, !.count = 0]
           stands == [judged EXCEPT !.negotiation = N]
<1>1. Validate(c) = RetryOrRefuse(judged) \/ Validate(c) = c
      \/ Validate(c) = [judged EXCEPT !.negotiation.window = NoWindow, !.negotiation.count = 0]
  BY DEF Validate, JudgedAll
<1>2. /\ Keeps(c, judged, w, changing) /\ Has(judged, w, changing)
      /\ judged.negotiation = c.negotiation
  BY JudgedGood
<1> HIDE DEF judged
<1>3. judged \in Controls /\ Sound(judged)
  BY <1>2, GoodParts DEF Keeps
<1>4. [judged EXCEPT !.negotiation.window = NoWindow, !.negotiation.count = 0] = stands
  OBVIOUS
<1>5. /\ N \in Negotiations /\ N.validation = judged.negotiation.validation
      /\ N.failed = judged.negotiation.failed
  <2> DEFINE M == judged.negotiation
  <2>1. M \in Negotiations
    BY <1>3, ControlParts
  <2>2. N = [M EXCEPT !.window = NoWindow, !.count = 0]
    OBVIOUS
  <2> HIDE DEF M, N
  <2>3. N \in Negotiations /\ N.validation = M.validation /\ N.failed = M.failed
    BY <2>1, <2>2 DEF Negotiations
  <2> QED BY <2>3 DEF M
<1> HIDE DEF N
<1>6. Same(judged, stands, w) /\ stands.negotiation = N
  BY <1>3, <1>5, NegotiationSame
<1> HIDE DEF stands
<1>7. Keeps(judged, stands, w, changing) /\ Has(stands, w, changing)
  <2>1. Keeps(judged, stands, w, changing)
    BY <1>2, <1>5, <1>6, SameGood DEF Keeps
  <2> QED BY <1>2, <1>6, <2>1, HasStays DEF Same, SameRequest, AnsweredBy
<1>8. /\ Keeps(judged, RetryOrRefuse(judged), w, changing)
      /\ Has(RetryOrRefuse(judged), w, changing)
  BY <1>2, RetryGood DEF Keeps, Has
<1>9. Keeps(c, c, w, changing)
  BY DEF Keeps, LeftAlone
<1> QED BY <1>1, <1>2, <1>4, <1>7, <1>8, <1>9, KeepsOn

\* What is presented of a request changes nothing of what is asked.
LEMMA PresentSame ==
    ASSUME NEW c, Sound(c), NEW w \in Windows, NEW size \in RealSize
    PROVE  LET d == Present(c, w, size)
           IN  Same(c, d, w) /\ d.negotiation = c.negotiation
<1> DEFINE request == c.requests[w]
           yes == TRUE
           r == [request EXCEPT !.presented = yes]
           d == Present(c, w, size)
<1>1. c \in Controls /\ request \in Requests
  BY ControlParts DEF Sound
<1>2. \/ d = c
      \/ /\ request.size = size
         /\ d = [c EXCEPT !.requests[w] = r, !.stretched = @ \cup {w}]
  BY DEF Present
<1>3. Sound(d)
  BY Presented DEF Quietly
<1>4. CASE d = c
  BY <1>4, SameAtAll
<1>5. CASE d # c
  <2>1. request # NoRequest
    BY <1>2, <1>5, NoRequestParts, ConstantsAssumption DEF RealSize
  <2> HIDE DEF request, d
  <2>2. SameRequest(request, r)
    <3>1. request \in Asked
      BY <1>1, <2>1, RequestParts
    <3>2. r # NoRequest /\ r.verdict = request.verdict /\ r.size = request.size
      BY <3>1, RequestShown
    <3>3. r.answered = request.answered
      BY <3>1 DEF Asked
    <3> QED BY <2>1, <3>2, <3>3 DEF SameRequest
  <2> HIDE DEF r
  <2>3. /\ d.releases = c.releases /\ d.timers = c.timers /\ d.negotiation = c.negotiation
        /\ d.requests[w] = r /\ \A v \in Windows \ {w} : d.requests[v] = c.requests[v]
        /\ d.size = c.size /\ d.told = c.told /\ d.withdrawals = c.withdrawals
    <3>1. d = [c EXCEPT !.requests[w] = r, !.stretched = @ \cup {w}]
      BY <1>2, <1>5
    <3> QED BY <1>1, <3>1 DEF Controls
  <2> QED BY <1>3, <2>2, <2>3 DEF Same, Beside, request, d
<1> QED BY <1>4, <1>5

LEMMA DamageSame ==
    ASSUME NEW c, Sound(c), NEW w \in Windows, NEW s \in RealSize
    PROVE  LET d == Damaged(c, w, s)
           IN  Same(c, d, w) /\ d.negotiation = c.negotiation
<1> DEFINE noted == [c EXCEPT !.waiting = @ \ {w}]
           seen == IF w \in c.waiting THEN Schedule(noted, w) ELSE c
           bare == [seen EXCEPT !.stretched = @ \ {w}]
<1>1. Same(c, noted, w) /\ noted.negotiation = c.negotiation /\ Sound(noted)
  <2>1. c \in Controls
    BY DEF Sound
  <2>2. noted \in Controls
    BY <2>1 DEF Controls
  <2>3. /\ noted.requests = c.requests /\ noted.withdrawals = c.withdrawals
        /\ noted.timers = c.timers /\ noted.size = c.size /\ noted.releases = c.releases
        /\ noted.negotiation = c.negotiation /\ noted.stretched = c.stretched
        /\ noted.told = c.told
    BY <2>1 DEF Controls
  <2> HIDE DEF noted
  <2>4. Sound(noted)
    BY <2>2, <2>3, NothingTouched DEF Quietly
  <2> QED BY <2>3, <2>4, NotesSame
<1>2. Damaged(c, w, s) = Present(bare, w, s)
  BY DEF Damaged
<1> HIDE DEF noted
<1>3. Sound(seen) /\ seen.negotiation = c.negotiation /\ Same(c, seen, w)
  <2>1. /\ Same(noted, Schedule(noted, w), w) /\ Sound(Schedule(noted, w))
        /\ Schedule(noted, w).negotiation = noted.negotiation
    BY <1>1, LookSame, Scheduled DEF Quietly
  <2> QED BY <1>1, <2>1, SameOn, SameAtAll
<1> HIDE DEF seen
<1>4. Same(seen, bare, w) /\ bare.negotiation = c.negotiation /\ Sound(bare)
  <2>1. seen \in Controls
    BY <1>3 DEF Sound
  <2>2. bare \in Controls
    BY <2>1 DEF Controls
  <2>3. /\ bare.requests = seen.requests /\ bare.withdrawals = seen.withdrawals
        /\ bare.timers = seen.timers /\ bare.size = seen.size /\ bare.releases = seen.releases
        /\ bare.negotiation = seen.negotiation /\ bare.stretched \subseteq seen.stretched
        /\ bare.told = seen.told
    BY <2>1 DEF Controls
  <2> HIDE DEF bare
  <2>4. Sound(bare)
    BY <1>3, <2>2, <2>3, NothingTouched DEF Quietly
  <2> QED BY <1>3, <2>3, <2>4, NotesSame
<1> HIDE DEF bare
<1>5. /\ Same(bare, Present(bare, w, s), w)
      /\ Present(bare, w, s).negotiation = bare.negotiation
  BY <1>4, PresentSame
<1> QED BY <1>2, <1>3, <1>4, <1>5, SameOn

\* Other settings: what still stands is released.
LEMMA ReconfiguredGood ==
    ASSUME NEW c, NEW w \in Windows, Mapped \subseteq {w}, fullscreen[w] \in BOOLEAN,
           Good(c, w, FALSE), Orderly(c), NEW want
    PROVE  LET d == Reconfigured(c)
           IN  /\ Proper(d, w, fullscreen[w], want)
               /\ client = {"mode"} => Fit(d, w, fullscreen[w], mode, FALSE)
<1> DEFINE released == ReleaseEach(c, Requested(c))
           looks == {Timer("apply", v, 0, 0) : v \in Mapped}
           fresh == Fresh
           d == Reconfigured(c)
<1>1. d = [released EXCEPT !.generation = @ + 1, !.negotiation = fresh, !.waiting = {},
                           !.overdue = {}, !.timers = @ \cup looks]
  BY DEF Reconfigured, ReleaseEach
<1>2. /\ Sound(c) /\ OneRequested(c) /\ Requested(c) \subseteq {w}
      /\ Shaped(c, w, fullscreen[w])
  BY GoodParts
<1>3. released \in Controls /\ Sound(d)
  BY <1>2, AllReleased, ReconfiguredQuietly DEF Quietly, Sound
<1>4. /\ Proper(released, w, fullscreen[w], want)
      /\ client = {"mode"} => Fit(released, w, fullscreen[w], mode, FALSE)
      /\ released.requests[w] # NoRequest => released.releases[w] # 0
  <2>1. CASE c.requests[w] = NoRequest
    <3>1. Requested(c) = {}
      BY <1>2, <2>1 DEF Requested
    <3>2. released = c
      BY <3>1, ReleaseNone
    <3> QED BY <1>2, <2>1, <3>2 DEF Good, Proper, Standing
  <2>2. CASE c.requests[w] # NoRequest
    <3>1. Requested(c) = {w}
      BY <1>2, <2>2 DEF Requested
    <3>2. released = Release(c, w)
      BY <3>1, ReleaseOne
    <3>3. /\ Proper(Release(c, w), w, fullscreen[w], want)
          /\ Fit(c, w, fullscreen[w], mode, FALSE)
                => Fit(Release(c, w), w, fullscreen[w], mode, FALSE)
      BY <1>2, ReleaseKeeps
    <3>4. Release(c, w).releases[w] = 0 => Release(c, w).requests[w] = NoRequest
      BY <1>2, Released
    <3> QED BY <3>2, <3>3, <3>4 DEF Good
  <2> QED BY <2>1, <2>2
<1> HIDE DEF released
<1>5. \A t \in looks : t.kind = "apply" /\ t.window = w
  BY DEF Timer
<1> HIDE DEF fresh, looks, d
<1>6. /\ d.requests = released.requests /\ d.releases = released.releases
      /\ d.timers = released.timers \cup looks /\ d.size = released.size
      /\ d.told = released.told /\ d.withdrawals = released.withdrawals
  BY <1>1, <1>3 DEF Controls
<1>7. Same(released, d, w)
  BY <1>3, <1>5, <1>6 DEF Same, Beside, SameRequest
<1>8. Shaped(d, w, fullscreen[w])
  BY <1>4, <1>7, SameShaped DEF Proper
<1>9. Proper(d, w, fullscreen[w], want)
  BY <1>4, <1>6, <1>8 DEF Proper, Standing
<1>10. client = {"mode"} => Fit(d, w, fullscreen[w], mode, FALSE)
  BY <1>4, <1>7, SameFits
<1> QED BY <1>9, <1>10 DEF d

\* The same of a window that is in fullscreen or not, under settings and a mode.
GoodAs(c, w, full, want, m, changing) ==
    /\ Proper(c, w, full, want)
    /\ client = {"mode"} => Fit(c, w, full, m, changing)

ToggleSize(enter) == IF enter THEN Full ELSE Windowed

LEMMA ToggledParts ==
    ASSUME NEW c, Sound(c), NEW w \in Windows, NEW enter \in BOOLEAN
    PROVE  LET d == Toggled(c, w, enter)
           IN  /\ Beside(c, d, w) /\ SameRequest(c.requests[w], d.requests[w])
               /\ d.size[w] = ToggleSize(enter) /\ d.told[w] = ToldOf(c, w, ToggleSize(enter))
               /\ d.withdrawals[w] = c.withdrawals[w] /\ d.releases[w] = c.releases[w]
               /\ d.negotiation = c.negotiation /\ Sound(d)
<1> DEFINE s == ToggleSize(enter)
           e == Configure(c, w, s)
           d == Schedule(e, w)
<1>1. s \in RealSize
  BY DEF ToggleSize, RealSize
<1> HIDE DEF s
<1>2. Resized(c, e, w, s, ToldOf(c, w, s)) /\ Sound(e)
  BY <1>1, ConfigureParts DEF Resized, Beside
<1> HIDE DEF e
<1>3. Same(e, d, w) /\ d.negotiation = e.negotiation /\ d.requests = e.requests
  BY <1>2, LookSame
<1> HIDE DEF d
<1>4. Beside(c, d, w) /\ Sound(d)
  BY <1>2, <1>3, BesideOn DEF Resized, Same, Beside
<1>5. Toggled(c, w, enter) = d
  BY DEF Toggled, ToggleSize, d, e, s
<1> QED BY <1>2, <1>3, <1>4, <1>5 DEF Resized, Same, SameRequest, s

\* A window that leaves fullscreen.
LEMMA LeaveGood ==
    ASSUME NEW c, NEW w \in Windows, Sound(c), Only(c, w), Dated(c),
           client = {"mode"} => Ends(c, w), NEW want, NEW changing \in BOOLEAN
    PROVE  GoodAs(Toggled(c, w, FALSE), w, FALSE, want, mode, changing)
<1> DEFINE d == Toggled(c, w, FALSE)
<1>1. /\ Beside(c, d, w) /\ SameRequest(c.requests[w], d.requests[w])
      /\ d.size[w] = Windowed /\ d.told[w] = ToldOf(c, w, Windowed) /\ Sound(d)
  <2>1. ToggleSize(FALSE) = Windowed
    BY DEF ToggleSize
  <2>2. FALSE \in BOOLEAN
    OBVIOUS
  <2> HIDE DEF d
  <2>3. /\ Beside(c, Toggled(c, w, FALSE), w)
        /\ SameRequest(c.requests[w], Toggled(c, w, FALSE).requests[w])
        /\ Toggled(c, w, FALSE).size[w] = ToggleSize(FALSE)
        /\ Toggled(c, w, FALSE).told[w] = ToldOf(c, w, ToggleSize(FALSE))
        /\ Sound(Toggled(c, w, FALSE))
    BY <2>2, ToggledParts
  <2> QED BY <2>1, <2>3 DEF d
<1> HIDE DEF d
<1>2. Only(d, w) /\ Dated(d)
  BY <1>1, OnlyStays
<1>3. Proper(d, w, FALSE, want)
  BY <1>1, <1>2 DEF Proper, Shaped, Sized
<1>4. client = {"mode"} => Fit(d, w, FALSE, mode, changing)
  <2>1. Windowed \in RealSize
    BY DEF RealSize
  <2>2. client = {"mode"} => Leads(ToldOf(c, w, Windowed), mode, Emulated(Windowed))
    BY <2>1, ToldLeads
  <2> QED BY <1>1, <2>2 DEF Fit
<1> QED BY <1>3, <1>4 DEF GoodAs, d

\* A window that enters it and is not asked for a size: its client has no mode, and
\* read what it was told.
Bare(c, w) == c.told[w] = <<>> /\ c.size[w] = Windowed /\ mode = NoSize

LEMMA OnceToldBare ==
    ASSUME NEW s \in RealSize
    PROVE  /\ Once(<<>>, NoSize, NoSize) /\ Leads(<<>>, NoSize, NoSize)
           /\ Leads(Append(<<>>, s), NoSize, Emulated(s))
           /\ Once(Append(<<>>, s), NoSize, Emulated(s))
<1>1. Once(<<>>, NoSize, NoSize) /\ Leads(<<>>, NoSize, NoSize) /\ <<>> \in Seq(RealSize)
  BY DEF Once, Leads
<1> QED BY <1>1, OnceMore, LeadsThere

LEMMA EnterGood ==
    ASSUME NEW c, NEW w \in Windows, Sound(c), Only(c, w), Dated(c),
           c.requests[w] = NoRequest, client = {"mode"} => Bare(c, w), NEW want
    PROVE  GoodAs(Toggled(c, w, TRUE), w, TRUE, want, mode, FALSE)
<1> DEFINE d == Toggled(c, w, TRUE)
<1>1. /\ Beside(c, d, w) /\ SameRequest(c.requests[w], d.requests[w])
      /\ d.size[w] = Full /\ d.told[w] = ToldOf(c, w, Full) /\ Sound(d)
  <2>1. ToggleSize(TRUE) = Full
    BY DEF ToggleSize
  <2>2. TRUE \in BOOLEAN
    OBVIOUS
  <2> HIDE DEF d
  <2>3. /\ Beside(c, Toggled(c, w, TRUE), w)
        /\ SameRequest(c.requests[w], Toggled(c, w, TRUE).requests[w])
        /\ Toggled(c, w, TRUE).size[w] = ToggleSize(TRUE)
        /\ Toggled(c, w, TRUE).told[w] = ToldOf(c, w, ToggleSize(TRUE))
        /\ Sound(Toggled(c, w, TRUE))
    BY <2>2, ToggledParts
  <2> QED BY <2>1, <2>3 DEF d
<1> HIDE DEF d
<1>2. Only(d, w) /\ Dated(d) /\ d.requests[w] = NoRequest
  BY <1>1, OnlyStays DEF SameRequest
<1>3. Proper(d, w, TRUE, want)
  BY <1>1, <1>2 DEF Proper, Shaped, Sized, Standing
<1>4. client = {"mode"} => Fit(d, w, TRUE, mode, FALSE)
  <2>1. Full \in RealSize /\ Emulated(Full) = NoSize
    BY EmulatedSizes DEF RealSize
  <2>2. client = {"mode"} => /\ mode = NoSize
                             /\ d.told[w] = <<>> \/ d.told[w] = Append(<<>>, Full)
    BY <1>1 DEF Bare, ToldOf
  <2>3. client = {"mode"} => Leads(d.told[w], mode, NoSize) /\ Once(d.told[w], mode, NoSize)
    BY <2>1, <2>2, OnceToldBare
  <2> QED BY <1>1, <1>2, <2>1, <2>2, <2>3 DEF Fit
<1> QED BY <1>3, <1>4 DEF GoodAs, d

\* A window that asks for fullscreen is asked for the size before it enters.
LEMMA EnteredGood ==
    ASSUME NEW c, NEW w \in Windows, ~Covers(w), fullscreen[w] \in BOOLEAN,
           Shaped(c, w, fullscreen[w]), Orderly(c), c.requests[w] = NoRequest,
           client = {"mode"} => Bare(c, w), wanted \in Sizes \cup {NoSize}
    PROVE  GoodAs(FullscreenAsked(c, w), w, TRUE, wanted, mode, FALSE)
<1> DEFINE s == AskedSize(c)
           begun == Begin(c, w, s)
           told == Configure(begun, w, s)
           d == Schedule(told, w)
<1>1. s = NoSize \/ (s = wanted /\ s \in Sizes /\ ~c.negotiation.failed)
  BY DEF AskedSize
<1>2. /\ c.withdrawals[w] # 0 \/ s = NoSize => FullscreenAsked(c, w) = Toggled(c, w, TRUE)
      /\ s # NoSize /\ c.withdrawals[w] = 0 /\ begun.requests[w].size # s
            => FullscreenAsked(c, w) = Toggled(begun, w, TRUE)
      /\ s # NoSize /\ c.withdrawals[w] = 0 /\ begun.requests[w].size = s
            => FullscreenAsked(c, w) = d
  BY DEF FullscreenAsked, Covers
<1>3. Sound(c) /\ Only(c, w) /\ Dated(c) /\ Sized(c, w, fullscreen[w])
  BY DEF Shaped
<1>4. CASE c.withdrawals[w] # 0 \/ s = NoSize
  BY <1>2, <1>3, <1>4, EnterGood
<1>5. CASE c.withdrawals[w] = 0 /\ s # NoSize
  <2>1. /\ Beside(c, begun, w) /\ begun.size[w] = c.size[w] /\ begun.told[w] = c.told[w]
        /\ begun.withdrawals[w] = c.withdrawals[w] /\ begun.releases[w] = 0
        /\ begun.requests[w] = NoRequest \/ AskedOf(c, begun, w, s)
        /\ begun.requests[w] = NoRequest => begun.requests[w].size # s
    <3>1. begun = Begin(c, w, s) /\ s \in Sizes
      BY <1>1, <1>5
    <3> HIDE DEF begun, s
    <3> QED BY <3>1, SizeAskedParts
  <2> HIDE DEF begun, s
  <2>2. Only(begun, w) /\ Dated(begun) /\ Sound(begun)
    BY <1>3, <2>1, OnlyStays DEF Beside
  <2>3. client = {"mode"} => Bare(begun, w)
    BY <2>1 DEF Bare
  <2>4. CASE begun.requests[w] = NoRequest
    BY <1>2, <1>5, <2>1, <2>2, <2>3, <2>4, EnterGood
  <2>5. CASE begun.requests[w] # NoRequest
    <3>1. AskedOf(c, begun, w, s) /\ begun.requests[w].size = s
      BY <2>1, <2>5 DEF AskedOf
    <3>2. s = wanted /\ s \in Sizes /\ ~c.negotiation.failed /\ s \in RealSize
      BY <1>1, <1>5 DEF RealSize
    <3>3. Resized(begun, told, w, s, ToldOf(begun, w, s)) /\ Sound(told)
      BY <2>2, <3>2, ConfigureParts DEF Resized, Beside
    <3> HIDE DEF told
    <3>4. Same(told, d, w) /\ d.negotiation = told.negotiation /\ d.requests = told.requests
      BY <3>3, LookSame
    <3>5. FullscreenAsked(c, w) = d
      BY <1>2, <1>5, <3>1
    <3> HIDE DEF d
    <3>6. Beside(begun, d, w)
      BY <3>3, <3>4, BesideOn DEF Resized, Same
    <3>7. Beside(c, d, w) /\ Sound(d)
      BY <2>1, <3>6, BesideOn DEF Beside
    <3>8. Only(d, w) /\ Dated(d)
      BY <1>3, <3>7, OnlyStays
    <3>9. /\ d.requests[w] = begun.requests[w] /\ d.size[w] = s
          /\ d.told[w] = ToldOf(begun, w, s) /\ d.releases[w] = 0
          /\ d.negotiation.failed = c.negotiation.failed
      BY <2>1, <3>1, <3>3, <3>4 DEF Resized, Same, AskedOf
    <3>10. Proper(d, w, TRUE, wanted)
      BY <2>5, <3>1, <3>2, <3>7, <3>8, <3>9 DEF Proper, Shaped, Sized, Standing
    <3>11. ASSUME client = {"mode"}
           PROVE  Fit(d, w, TRUE, mode, FALSE)
      <4>1. s # Windowed /\ s # NoSize /\ Emulated(s) = s
        BY <3>2, EmulatedSizes
      <4>2. d.told[w] = Append(<<>>, s) /\ mode = NoSize
        BY <2>3, <3>9, <3>11, <4>1 DEF Bare, ToldOf
      <4>3. Leads(d.told[w], mode, s) /\ Once(d.told[w], mode, s)
        BY <3>2, <4>1, <4>2, OnceToldBare
      <4>4. \A t \in d.timers :
               t.kind = "release" /\ t.window = w /\ t.token = d.releases[w] => t.due # 0
        <5>1. \A t \in d.timers : t.kind = "release" => t \in c.timers
          BY <3>7 DEF Beside
        <5> QED BY <3>9, <5>1 DEF Orderly
      <4>5. ~Over(d, d.requests[w].verdict)
        <5>1. ~Over(begun, begun.requests[w].verdict)
          BY <3>1 DEF AskedOf
        <5> QED BY <3>6, <3>9, <5>1, VerdictKept
      <4>6. Answering(d, w, mode, FALSE)
        BY <3>1, <3>9, <4>1, <4>2, <4>4, <4>5 DEF Answering, AskedOf
      <4> QED BY <2>5, <3>9, <4>1, <4>3, <4>6 DEF Fit
    <3> QED BY <3>5, <3>10, <3>11 DEF GoodAs
  <2> QED BY <2>4, <2>5
<1> QED BY <1>4, <1>5

\* Whatever callback came, once the client has the mode it is asked for.
LEMMA AnyTaken ==
    ASSUME NEW c, NEW w \in Windows, fullscreen[w] \in BOOLEAN, NEW changing \in BOOLEAN,
           Good(c, w, changing), Has(c, w, changing), NEW t,
           NEW d, d = [c EXCEPT !.timers = @ \ {t}]
    PROVE  Keeps(c, d, w, changing)
<1>1. c \in Controls /\ Sound(c) /\ Only(c, w) /\ Dated(c) /\ Sized(c, w, fullscreen[w])
  BY GoodParts
<1>2. Sound(d) /\ d.requests = c.requests /\ d.withdrawals = c.withdrawals
      /\ d.size = c.size /\ d.timers = c.timers \ {t}
  BY <1>1, TimerGone
<1>3. d.told = c.told /\ d.releases = c.releases /\ d.negotiation = c.negotiation
  BY <1>1 DEF Controls
<1>4. Only(d, w) /\ Dated(d) /\ Sized(d, w, fullscreen[w])
  BY <1>1, <1>2, <1>3 DEF Only, Dated, Sized
<1>5. Proper(d, w, fullscreen[w], wanted)
  BY <1>2, <1>3, <1>4 DEF Good, Proper, Shaped, Standing
<1>6. ASSUME client = {"mode"}
      PROVE  Fit(d, w, fullscreen[w], mode, changing)
  <2>1. Fit(c, w, fullscreen[w], mode, changing)
    BY <1>6 DEF Good
  <2>2. Withdrawing(c, w) => Withdrawing(d, w)
    BY <1>2 DEF Withdrawing, Noticed
  <2>3. fullscreen[w] /\ c.requests[w] # NoRequest /\ Answering(c, w, mode, changing)
          => Answering(d, w, mode, changing)
    BY <1>2, <1>3, <1>6 DEF Answering, Has
  <2> QED BY <1>2, <1>3, <2>1, <2>2, <2>3 DEF Fit
<1> QED BY <1>2, <1>3, <1>5, <1>6 DEF Good, Keeps, LeftAlone

\* Any other than a verdict.
LEMMA OtherTaken ==
    ASSUME NEW c, NEW w \in Windows, fullscreen[w] \in BOOLEAN, NEW changing \in BOOLEAN,
           Good(c, w, changing), NEW t, t.kind # "validate",
           NEW d, d = [c EXCEPT !.timers = @ \ {t}]
    PROVE  Keeps(c, d, w, changing)
<1>1. Sound(c)
  BY GoodParts
<1>2. Same(c, d, w) /\ d.negotiation = c.negotiation
  BY <1>1, TimerTaken
<1>3. ASSUME NEW x, Same(c, x, w), x.negotiation = c.negotiation
      PROVE  Keeps(c, x, w, changing)
  BY <1>3, SameGood
<1> QED BY <1>2, <1>3

-----------------------------------------------------------------------------
(* The invariant.                                                          *)

Changing(es) == \E i \in 1..Len(es) : es[i].kind = "mode"

\* A fullscreen window's client turns once, and who asks for fullscreen read what
\* it was told.
EventsFit ==
    /\ client = {"mode"} =>
          /\ \A i, j \in 1..Len(events) :
                events[i].kind = "mode" /\ events[j].kind = "mode"
                    /\ fullscreen[events[i].window] => i = j
          /\ \A i \in 1..Len(events) : events[i].kind = "state" /\ events[i].value =>
                Len(events) = 1 /\ control.told[events[i].window] = <<>>
    /\ client # {"mode"} => ~Changing(events)

WindowsFit ==
    /\ \A w \in Windows : life[w] = "mapped" =>
          GoodAs(control, w, fullscreen[w], wanted, mode, Changing(events))
    /\ (\A w \in Windows : life[w] # "mapped") => Only(control, NoWindow) /\ Dated(control)

Follows == "mode" \in client => client = {"mode"}

Steady == Follows /\ EventsFit /\ WindowsFit

\* The window that is mapped is the only one.
LEMMA OneFits ==
    ASSUME WorldOK, NEW w \in Windows, life[w] = "mapped", UNCHANGED life,
           GoodAs(control', w, fullscreen'[w], wanted', mode', Changing(events')),
           UNCHANGED client
    PROVE  WindowsFit'
<1>1. \A v \in Windows : life'[v] = "mapped" => v = w
  BY DEF WorldOK, Mapped
<1>2. life'[w] = "mapped"
  OBVIOUS
<1> QED BY <1>1, <1>2 DEF WindowsFit, GoodAs

LEMMA SameEventsFit ==
    ASSUME ControlInv, CalmInv, EventsFit,
           UNCHANGED <<client, fullscreen, events>>,
           \A w \in Windows : life[w] = "mapped" => LeftAlone(control, control', w)
    PROVE  EventsFit'
<1>1. ASSUME NEW i \in 1..Len(events), events[i].kind = "state", events[i].value,
             client = {"mode"}
      PROVE  Len(events) = 1 /\ control'.told[events[i].window] = <<>>
  <2> DEFINE w == events[i].window
  <2>1. w \in Windows /\ life[w] = "mapped"
    <3>1. events \in Seq(Events) /\ life[w] = "mapped"
      BY DEF ControlInv, EventsOK
    <3>2. events[i] \in Events
      BY <3>1
    <3> QED BY <3>1, <3>2 DEF Events
  <2>2. ~fullscreen[w] /\ control.requests[w] = NoRequest
    BY <1>1 DEF CalmInv, EntersBare
  <2>3. Len(events) = 1 /\ control.told[w] = <<>>
    BY <1>1 DEF EventsFit
  <2>4. LeftAlone(control, control', w)
    BY <2>1
  <2> HIDE DEF w
  <2>5. control'.told[w] = <<>>
    BY <2>2, <2>3, <2>4 DEF LeftAlone
  <2> QED BY <2>3, <2>5 DEF w
<1>2. UNCHANGED client /\ UNCHANGED fullscreen /\ UNCHANGED events
  OBVIOUS
<1> QED BY <1>1, <1>2 DEF EventsFit, Changing

\* A callback or a buffer that keeps the window.
LEMMA KeptSteady ==
    ASSUME ControlInv, CalmInv, Steady, NEW w \in Windows, life[w] = "mapped",
           Keeps(control, control', w, Changing(events)),
           UNCHANGED <<client, life, fullscreen, mode, events, wanted>>
    PROVE  Steady'
<1>1. GoodAs(control', w, fullscreen'[w], wanted', mode', Changing(events'))
  BY DEF Keeps, Good, GoodAs
<1>2. WindowsFit'
  BY <1>1, OneFits DEF ControlInv
<1>3. \A v \in Windows : life[v] = "mapped" => v = w
  BY DEF ControlInv, WorldOK, Mapped
<1>4. EventsFit'
  BY <1>3, SameEventsFit DEF Keeps, Steady
<1> QED BY <1>2, <1>4 DEF Steady, Follows

LEMMA MappedGood ==
    ASSUME ControlInv, Steady, NEW w \in Windows, life[w] = "mapped"
    PROVE  /\ Good(control, w, Changing(events)) /\ fullscreen[w] \in BOOLEAN
           /\ Changing(events) \in BOOLEAN
<1>1. fullscreen[w] \in BOOLEAN
  BY DEF ControlInv, WorldOK
<1> QED BY <1>1 DEF Steady, WindowsFit, Good, GoodAs, Changing

\* A client that read and answered everything has the mode it was told.
LEMMA IdleHas ==
    ASSUME ControlInv, Steady, NEW w \in Windows, life[w] = "mapped", Idle
    PROVE  /\ ~Changing(events) /\ control.told[w] = <<>>
           /\ client = {"mode"} => mode = Emulated(control.size[w])
           /\ Has(control, w, Changing(events))
<1>1. events = <<>> /\ control.told[w] = <<>>
  BY DEF Idle, Mapped
<1>2. ~Changing(events)
  BY <1>1 DEF Changing
<1>3. client = {"mode"} => mode = Emulated(control.size[w])
  BY <1>1, MappedGood DEF Good, Fit, Leads
<1>4. ASSUME client = {"mode"}, fullscreen[w], control.requests[w] # NoRequest
      PROVE  mode = control.requests[w].size
  <2>1. control.requests[w].size \in Sizes
    BY <1>4, ControlIs, ControlParts, RequestParts DEF Asked
  <2>2. control.size[w] = control.requests[w].size
    BY <1>4, MappedGood DEF Good, Proper, Shaped, Sized
  <2> QED BY <1>3, <1>4, <2>1, <2>2, EmulatedSizes
<1> QED BY <1>1, <1>2, <1>3, <1>4 DEF Has

\* A callback is of the mapped window, or of none.
LEMMA TimerMapped ==
    ASSUME ControlInv, Steady, NEW t \in control.timers, t.kind \notin {"validate", "expire"}
    PROVE  t.window \in Windows /\ life[t.window] = "mapped"
<1>1. t.window \in Windows /\ NoWindow \notin Windows
  BY ControlIs, ControlParts, TimerParts, ConstantsAssumption
<1>2. ASSUME \A w \in Windows : life[w] # "mapped"
      PROVE  FALSE
  BY <1>1, <1>2 DEF Steady, WindowsFit, Only
<1>3. PICK w \in Windows : life[w] = "mapped"
  BY <1>2
<1>4. Only(control, w)
  BY <1>3, MappedGood, GoodParts
<1> QED BY <1>1, <1>3, <1>4 DEF Only

-----------------------------------------------------------------------------
(* Every step keeps it.                                                    *)

Strict == Calm /\ Prompt /\ "mode" \notin Moves

FitInv == ControlInv /\ CalmInv /\ Orderly(control) /\ Steady

LEMMA CallbackOf ==
    ASSUME NEW t, NEW c, Comes(t, c)
    PROVE  /\ control' = [c EXCEPT !.timers = @ \ {t}] /\ Ready(t)
           /\ UNCHANGED <<client, life, fullscreen, mode, events, wanted>>
BY DEF Comes

\* What waits for a deadline comes once the client did what it had to.
LEMMA DueIsIdle ==
    ASSUME Prompt, NEW t, t.due # 0, Ready(t)
    PROVE  Idle
BY DEF Ready

\* The handler keeps the window, and the callback is done.
LEMMA CameSteady ==
    ASSUME FitInv, NEW t, t.kind # "validate", NEW c, Comes(t, c),
           NEW w \in Windows, life[w] = "mapped", Keeps(control, c, w, Changing(events))
    PROVE  Steady'
<1>1. control' = [c EXCEPT !.timers = @ \ {t}]
      /\ UNCHANGED <<client, life, fullscreen, mode, events, wanted>>
  BY CallbackOf
<1>2. Keeps(c, control', w, Changing(events))
  BY <1>1, MappedGood, OtherTaken DEF FitInv, Keeps
<1>3. Keeps(control, control', w, Changing(events))
  BY <1>2, KeepsOn
<1> QED BY <1>1, <1>3, KeptSteady DEF FitInv

LEMMA LookSteady ==
    ASSUME FitInv, NEW t \in control.timers, LookAt(t)
    PROVE  Steady'
<1> DEFINE w == t.window
           c == [control EXCEPT !.timers = @ \ {t}]
<1>1. /\ t.kind = "apply" /\ control' = Apply(c, w)
      /\ UNCHANGED <<client, life, fullscreen, mode, events, wanted>>
  BY DEF LookAt
<1>2. w \in Windows /\ life[w] = "mapped"
  BY <1>1, TimerMapped DEF FitInv
<1>3. /\ Good(control, w, Changing(events)) /\ fullscreen[w] \in BOOLEAN
      /\ Changing(events) \in BOOLEAN /\ wanted \in Sizes \cup {NoSize}
  BY <1>2, MappedGood, ControlIs DEF FitInv
<1> HIDE DEF w
<1>4. Keeps(control, c, w, Changing(events))
  BY <1>1, <1>2, <1>3, OtherTaken
<1>5. Sound(control) /\ control \in Controls
  BY ControlIs DEF FitInv
<1>6. /\ c.requests = control.requests /\ c.releases = control.releases
      /\ c.negotiation = control.negotiation /\ c.timers = control.timers \ {t}
  BY <1>5 DEF Controls
<1> HIDE DEF c
<1>7. Orderly(c)
  <2>1. Subsides(control, c)
    BY <1>6, LessWaits
  <2> QED BY <1>5, <2>1, StaysOrderly DEF FitInv
<1>8. Keeps(c, Apply(c, w), w, Changing(events))
  BY <1>2, <1>3, <1>4, <1>7, ApplyGood DEF Keeps
<1>9. Keeps(control, control', w, Changing(events))
  BY <1>1, <1>4, <1>8, KeepsOn
<1> QED BY <1>1, <1>2, <1>9, KeptSteady DEF FitInv

LEMMA ReleaseEndSteady ==
    ASSUME FitInv, Prompt, NEW t \in control.timers, ReleaseEnds(t)
    PROVE  Steady'
<1> DEFINE w == t.window
           restored == Restore(control, w)
           looked == Schedule(restored, w)
           c == IF control.releases[w] = t.token THEN looked ELSE control
<1>1. t.kind \in {"answer", "release"} /\ Comes(t, c)
  BY DEF ReleaseEnds
<1>2. w \in Windows /\ life[w] = "mapped"
  BY <1>1, TimerMapped DEF FitInv
<1>3. /\ Good(control, w, Changing(events)) /\ fullscreen[w] \in BOOLEAN
      /\ Changing(events) \in BOOLEAN
  BY <1>2, MappedGood DEF FitInv
<1>4. ASSUME control.releases[w] = t.token
      PROVE  Has(control, w, Changing(events))
  <2>1. CASE t.kind = "answer"
    <3>1. control.requests[w] # NoRequest => control.requests[w].answered
      BY <1>4, <2>1 DEF FitInv, Orderly, EndsRelease, EndsInTime
    <3> QED BY <1>3, <3>1 DEF Has, Good, Fit, Answering
  <2>2. CASE t.kind = "release"
    <3>1. ASSUME client = {"mode"}, fullscreen[w], control.requests[w] # NoRequest
          PROVE  mode = control.requests[w].size /\ ~Changing(events)
      <4>1. Answering(control, w, mode, Changing(events))
        BY <1>3, <3>1 DEF Good, Fit
      <4>2. t.due # 0
        BY <1>4, <2>2, <4>1 DEF Answering
      <4>3. Idle
        BY <1>1, <4>2, CallbackOf, DueIsIdle
      <4> QED BY <1>2, <3>1, <4>3, IdleHas DEF FitInv, Has
    <3> QED BY <3>1 DEF Has
  <2> QED BY <1>1, <2>1, <2>2
<1> HIDE DEF w
<1>5. ASSUME control.releases[w] = t.token
      PROVE  Keeps(control, restored, w, Changing(events))
  BY <1>2, <1>3, <1>4, <1>5, RestoreGood DEF Has
<1> HIDE DEF restored
<1>6. ASSUME control.releases[w] = t.token
      PROVE  Keeps(control, looked, w, Changing(events))
  <2>1. Keeps(restored, looked, w, Changing(events))
    BY <1>2, <1>3, <1>5, <1>6, LookGood DEF Keeps
  <2> QED BY <1>5, <1>6, <2>1, KeepsOn
<1>7. Keeps(control, c, w, Changing(events))
  BY <1>3, <1>6 DEF Keeps, LeftAlone
<1> HIDE DEF c
<1> QED BY <1>1, <1>2, <1>7, CameSteady

\* The wait for a withdrawal is over.
LEMMA WaitEndGood ==
    ASSUME NEW c, NEW w \in Windows, fullscreen[w] \in BOOLEAN, NEW changing \in BOOLEAN,
           Good(c, w, changing), NEW overdue \in SUBSET Windows,
           client = {"mode"} /\ fullscreen[w] /\ c.requests[w] = NoRequest =>
               mode = NoSize /\ ~changing,
           NEW d, d = [c EXCEPT !.withdrawals[w] = 0, !.overdue = overdue]
    PROVE  Keeps(c, d, w, changing)
<1>1. c \in Controls /\ Sound(c) /\ Only(c, w) /\ Dated(c) /\ Sized(c, w, fullscreen[w])
  BY GoodParts
<1>2. Sound(d)
  BY <1>1, WaitEnded DEF Quietly
<1>3. /\ d.requests = c.requests /\ d.size = c.size /\ d.told = c.told /\ d.timers = c.timers
      /\ d.releases = c.releases /\ d.negotiation = c.negotiation
  BY <1>1 DEF Controls
<1>4. Proper(d, w, fullscreen[w], wanted)
  <2>1. Only(d, w) /\ Dated(d) /\ Sized(d, w, fullscreen[w])
    BY <1>1, <1>3 DEF Only, Dated, Sized
  <2> QED BY <1>2, <1>3, <2>1 DEF Good, Proper, Shaped, Standing
<1>5. ASSUME client = {"mode"}
      PROVE  Fit(d, w, fullscreen[w], mode, changing)
  <2>1. Fit(c, w, fullscreen[w], mode, changing)
    BY <1>5 DEF Good
  <2>2. Answering(c, w, mode, changing) => Answering(d, w, mode, changing)
    BY <1>3 DEF Answering, Over
  <2> QED BY <1>3, <1>5, <2>1, <2>2 DEF Fit
<1> QED BY <1>3, <1>4, <1>5 DEF Good, Keeps, LeftAlone

LEMMA WithdrawalEndSteady ==
    ASSUME FitInv, Prompt, NEW t \in control.timers,
           WithdrawalEnds(t) \/ WithdrawalOverdue(t)
    PROVE  Steady'
<1> DEFINE w == t.window
           ended(o) == [control EXCEPT !.withdrawals[w] = 0, !.overdue = o]
           O == {control.overdue, control.overdue \cup {w}}
<1>1. /\ t.kind \in {"withdrawn", "withdraw"}
      /\ \E c : Comes(t, c) /\ (control.withdrawals[w] = t.token
                                 => \E o \in O : c = Schedule(ended(o), w))
                            /\ (control.withdrawals[w] # t.token => c = control)
  <2>1. CASE WithdrawalEnds(t)
    <3>1. [control EXCEPT !.withdrawals[w] = 0] = ended(control.overdue)
      BY ControlIs DEF FitInv, Controls
    <3>2. Comes(t, IF control.withdrawals[w] = t.token
                   THEN Schedule([control EXCEPT !.withdrawals[w] = 0], w) ELSE control)
      BY <2>1 DEF WithdrawalEnds
    <3> QED BY <2>1, <3>1, <3>2 DEF WithdrawalEnds
  <2>2. CASE WithdrawalOverdue(t)
    <3>1. [control EXCEPT !.withdrawals[w] = 0, !.overdue = @ \cup {w}]
            = ended(control.overdue \cup {w})
      OBVIOUS
    <3>2. Comes(t, IF control.withdrawals[w] = t.token
                   THEN Schedule([control EXCEPT !.withdrawals[w] = 0,
                                                 !.overdue = @ \cup {w}], w) ELSE control)
      BY <2>2 DEF WithdrawalOverdue
    <3> QED BY <2>2, <3>1, <3>2 DEF WithdrawalOverdue
  <2> QED BY <2>1, <2>2
<1>2. w \in Windows /\ life[w] = "mapped"
  BY <1>1, TimerMapped DEF FitInv
<1>3. /\ Good(control, w, Changing(events)) /\ fullscreen[w] \in BOOLEAN
      /\ Changing(events) \in BOOLEAN
  BY <1>2, MappedGood DEF FitInv
<1>4. PICK c : /\ Comes(t, c)
               /\ control.withdrawals[w] = t.token => \E o \in O : c = Schedule(ended(o), w)
               /\ control.withdrawals[w] # t.token => c = control
  BY <1>1
<1>5. ASSUME control.withdrawals[w] = t.token, client = {"mode"}, fullscreen[w],
             control.requests[w] = NoRequest
      PROVE  mode = NoSize /\ ~Changing(events)
  <2>1. CASE t.kind = "withdrawn"
    <3>1. ~Withdrawing(control, w)
      BY <1>5, <2>1 DEF Withdrawing, Noticed
    <3> QED BY <1>3, <1>5, <3>1 DEF Good, Fit
  <2>2. CASE t.kind = "withdraw"
    <3>1. t.due # 0
      BY <1>3, <2>2, GoodParts DEF Dated
    <3>2. Idle
      BY <1>4, <3>1, CallbackOf, DueIsIdle
    <3>3. control.size[w] = Full
      BY <1>3, <1>5 DEF Good, Proper, Shaped, Sized
    <3> QED BY <1>2, <1>5, <3>2, <3>3, IdleHas, EmulatedSizes DEF FitInv
  <2> QED BY <1>1, <2>1, <2>2
<1> HIDE DEF w
<1>6. \A o \in O : o \in SUBSET Windows
  BY <1>2, ControlIs, ControlParts DEF FitInv
<1> HIDE DEF O
<1>7. ASSUME control.withdrawals[w] = t.token, NEW o \in O
      PROVE  Keeps(control, Schedule(ended(o), w), w, Changing(events))
  <2>1. Keeps(control, ended(o), w, Changing(events))
    BY <1>2, <1>3, <1>5, <1>6, <1>7, WaitEndGood
  <2> HIDE DEF ended
  <2>2. Keeps(ended(o), Schedule(ended(o), w), w, Changing(events))
    BY <1>2, <1>3, <2>1, LookGood DEF Keeps
  <2> QED BY <2>1, <2>2, KeepsOn
<1> HIDE DEF ended
<1>8. Keeps(control, c, w, Changing(events))
  <2>1. CASE control.withdrawals[w] = t.token
    BY <1>4, <1>7, <2>1
  <2>2. CASE control.withdrawals[w] # t.token
    BY <1>3, <1>4, <2>2 DEF Keeps, LeftAlone
  <2> QED BY <2>1, <2>2
<1> QED BY <1>1, <1>2, <1>4, <1>8, CameSteady

LEMMA AskAgainSteady ==
    ASSUME FitInv, NEW t \in control.timers, AskAgain(t)
    PROVE  Steady'
<1> DEFINE w == t.window
           c == IF control.generation = t.token THEN Schedule(control, w) ELSE control
<1>1. t.kind = "retry" /\ Comes(t, c)
  BY DEF AskAgain
<1>2. w \in Windows /\ life[w] = "mapped"
  BY <1>1, TimerMapped DEF FitInv
<1>3. /\ Good(control, w, Changing(events)) /\ fullscreen[w] \in BOOLEAN
      /\ Changing(events) \in BOOLEAN
  BY <1>2, MappedGood DEF FitInv
<1> HIDE DEF w
<1>4. Keeps(control, Schedule(control, w), w, Changing(events))
  BY <1>2, <1>3, LookGood
<1>5. Keeps(control, c, w, Changing(events))
  BY <1>3, <1>4 DEF Keeps, LeftAlone
<1> HIDE DEF c
<1> QED BY <1>1, <1>2, <1>5, CameSteady

\* While nothing is mapped nothing is told or asked.
LEMMA NoneMapped ==
    ASSUME FitInv, \A w \in Windows : life[w] # "mapped"
    PROVE  /\ events = <<>> /\ Requested(control) = {} /\ Mapped = {}
           /\ Only(control, NoWindow) /\ Dated(control)
<1>1. events = <<>>
  <2>1. ASSUME events # <<>>
        PROVE  FALSE
    <3>1. Head(events) \in Events /\ life[Head(events).window] = "mapped"
      BY <2>1, FirstEvent DEF FitInv, ControlInv
    <3>2. Head(events).window \in Windows
      BY <3>1 DEF Events
    <3> QED BY <3>1, <3>2
  <2> QED BY <2>1
<1>2. Requested(control) = {}
  BY DEF FitInv, ControlInv, ControlOK, Requested
<1> QED BY <1>1, <1>2 DEF FitInv, Steady, WindowsFit, Mapped

LEMMA NoneMappedSteady ==
    ASSUME FitInv, \A w \in Windows : life[w] # "mapped",
           control'.told = control.told, control'.requests = control.requests,
           control'.timers \subseteq control.timers,
           UNCHANGED <<client, life, fullscreen, events>>
    PROVE  Steady'
<1>1. /\ events = <<>> /\ Only(control, NoWindow) /\ Dated(control)
  BY NoneMapped
<1>2. Only(control', NoWindow) /\ Dated(control')
  BY <1>1 DEF Only, Dated
<1>3. WindowsFit'
  BY <1>2 DEF WindowsFit
<1>4. EventsFit'
  BY <1>1 DEF EventsFit, Changing
<1> QED BY <1>3, <1>4 DEF Steady, Follows, FitInv

LEMMA JudgeSteady ==
    ASSUME FitInv, Prompt, NEW t \in control.timers, Judge(t)
    PROVE  Steady'
<1> DEFINE c == IF control.negotiation.validation = t.token /\ ~control.negotiation.failed
                THEN Validate(control) ELSE control
<1>1. t.kind = "validate" /\ Comes(t, c)
  BY DEF Judge
<1>2. Idle
  <2>1. t.due # 0
    BY <1>1 DEF FitInv, Orderly
  <2> QED BY <1>1, <2>1, CallbackOf, DueIsIdle
<1>3. control' = [c EXCEPT !.timers = @ \ {t}]
      /\ UNCHANGED <<client, life, fullscreen, mode, events, wanted>>
  BY <1>1, CallbackOf
<1>4. CASE \A w \in Windows : life[w] # "mapped"
  <2>1. Requested(control) = {}
    BY <1>4, NoneMapped
  <2>2. Validate(control) = control
    BY <2>1 DEF Validate
  <2>3. c = control
    BY <2>2
  <2> HIDE DEF c
  <2>4. /\ control'.told = control.told /\ control'.requests = control.requests
        /\ control'.timers = control.timers \ {t}
    BY <1>3, <2>3, ControlIs DEF FitInv, Controls
  <2> QED BY <1>3, <1>4, <2>4, NoneMappedSteady
<1>5. ASSUME NEW w \in Windows, life[w] = "mapped"
      PROVE  Steady'
  <2>1. /\ Good(control, w, Changing(events)) /\ fullscreen[w] \in BOOLEAN
        /\ Changing(events) \in BOOLEAN /\ Has(control, w, Changing(events))
    BY <1>2, <1>5, MappedGood, IdleHas DEF FitInv
  <2>2. Keeps(control, Validate(control), w, Changing(events))
        /\ Has(Validate(control), w, Changing(events))
    BY <2>1, ValidateGood
  <2>3. Keeps(control, c, w, Changing(events)) /\ Has(c, w, Changing(events))
    BY <2>1, <2>2 DEF Keeps, LeftAlone
  <2> HIDE DEF c
  <2>4. Keeps(c, control', w, Changing(events))
    BY <1>3, <2>1, <2>3, AnyTaken DEF Keeps
  <2>5. Keeps(control, control', w, Changing(events))
    BY <2>3, <2>4, KeepsOn
  <2> QED BY <1>3, <1>5, <2>5, KeptSteady DEF FitInv
<1> QED BY <1>4, <1>5

LEMMA ExpireSteady ==
    ASSUME FitInv, NEW t \in control.timers, Expire(t)
    PROVE  Steady'
<1> DEFINE fresh == Fresh
           renewed == [control EXCEPT !.negotiation = fresh]
           c == IF wanted # NoSize /\ \E w \in Mapped : fullscreen[w] THEN control ELSE renewed
<1>1. t.kind = "expire" /\ Comes(t, c)
  BY DEF Expire
<1>2. fresh \in Negotiations /\ fresh.validation = 0 /\ fresh.failed = FALSE
  BY DEF Fresh, Negotiations
<1>3. Sound(control) /\ control \in Controls
  BY ControlIs DEF FitInv
<1> HIDE DEF fresh
<1>4. \A w \in Windows : Same(control, renewed, w)
  BY <1>2, <1>3, NegotiationSame
<1>5. /\ renewed.told = control.told /\ renewed.requests = control.requests
      /\ renewed.timers = control.timers /\ renewed.negotiation = fresh
      /\ renewed \in Controls
  BY <1>2, <1>3 DEF Controls
<1> HIDE DEF renewed
<1>6. control' = [c EXCEPT !.timers = @ \ {t}] /\ UNCHANGED <<client, life, fullscreen, events>>
  BY <1>1, CallbackOf
<1>7. CASE \A w \in Windows : life[w] # "mapped"
  <2>1. c \in Controls /\ c.told = control.told /\ c.requests = control.requests
        /\ c.timers = control.timers
    BY <1>3, <1>5
  <2> HIDE DEF c
  <2>2. /\ control'.told = control.told /\ control'.requests = control.requests
        /\ control'.timers = control.timers \ {t}
    BY <1>6, <2>1 DEF Controls
  <2> QED BY <1>6, <1>7, <2>2, NoneMappedSteady
<1>8. ASSUME NEW w \in Windows, life[w] = "mapped"
      PROVE  Steady'
  <2>1. /\ Good(control, w, Changing(events)) /\ fullscreen[w] \in BOOLEAN
        /\ Changing(events) \in BOOLEAN
    BY <1>8, MappedGood DEF FitInv
  <2>2. Keeps(control, renewed, w, Changing(events))
    BY <1>2, <1>4, <1>5, <2>1, SameGood
  <2>3. Keeps(control, c, w, Changing(events))
    BY <2>1, <2>2 DEF Keeps, LeftAlone
  <2> HIDE DEF c
  <2> QED BY <1>1, <1>8, <2>3, CameSteady
<1> QED BY <1>7, <1>8

LEMMA CommitSteady ==
    ASSUME FitInv, NEW w \in Windows, Commits(w)
    PROVE  Steady'
<1> DEFINE s == draws[w]
<1>1. /\ life[w] = "mapped" /\ control' = Damaged(control, w, s)
      /\ UNCHANGED <<client, life, fullscreen, mode, events, wanted>>
  BY DEF Commits, Mapped
<1>2. s \in RealSize /\ Sound(control)
  BY <1>1, ControlIs DEF FitInv, ControlInv, WorldOK, SizesOK, AnySize
<1> HIDE DEF s
<1>3. Same(control, control', w) /\ control'.negotiation = control.negotiation
  BY <1>1, <1>2, DamageSame
<1>4. Keeps(control, control', w, Changing(events))
  BY <1>1, <1>3, MappedGood, SameGood DEF FitInv
<1> QED BY <1>1, <1>4, KeptSteady DEF FitInv

\* What is sent first or last of the events.
LEMMA ChangingMore ==
    ASSUME events = <<>>, NEW e, e.kind # "mode", events' = Append(events, e)
    PROVE  ~Changing(events) /\ ~Changing(events')
<1>1. Len(events') = 1 /\ events'[1] = e
  BY OnlyOne
<1> QED BY <1>1 DEF Changing

LEMMA SentSteady ==
    ASSUME FitInv, NEW w \in Windows, life[w] = "mapped", events = <<>>,
           NEW kind \in {"state", "resize"}, NEW value \in BOOLEAN, Sends(kind, w, value),
           kind = "state" => control.told[w] = <<>>,
           UNCHANGED <<client, life, fullscreen, mode, wanted, control>>
    PROVE  Steady'
<1> DEFINE e == [kind |-> kind, window |-> w, value |-> value]
<1>1. events' = Append(events, e) /\ e.kind = kind /\ e.window = w
  BY DEF Sends
<1> HIDE DEF e
<1>2. Len(events') = 1 /\ events'[1] = e
  BY <1>1, OnlyOne
<1>3. ~Changing(events) /\ ~Changing(events')
  BY <1>1, ChangingMore
<1>4. Good(control, w, Changing(events))
  BY MappedGood DEF FitInv
<1>5. Changing(events') = Changing(events)
  BY <1>3 DEF Changing
<1>6. GoodAs(control', w, fullscreen'[w], wanted', mode', Changing(events'))
  BY <1>4, <1>5 DEF Good, GoodAs
<1>7. WindowsFit'
  BY <1>6, OneFits DEF FitInv, ControlInv
<1>8. EventsFit'
  BY <1>1, <1>2, <1>3 DEF EventsFit, Changing
<1> QED BY <1>7, <1>8 DEF Steady, Follows, FitInv

LEMMA StateAskedSteady ==
    ASSUME FitInv, Strict, NEW w \in Windows, AsksState(w)
    PROVE  Steady'
<1>1. /\ life[w] = "mapped" /\ UNCHANGED <<client, life, fullscreen, mode, wanted, control>>
  BY DEF AsksState, Mapped
<1>2. May("message") /\ Sends("state", w, ~fullscreen[w])
  <2>1. ~May("reassert")
    BY MayWhen DEF Strict
  <2> QED BY <2>1 DEF AsksState
<1>3. events = <<>> /\ control.told[w] = <<>>
  BY <1>1, <1>2 DEF Strict, Calm, May, Idle, Mapped
<1>4. (~fullscreen[w]) \in BOOLEAN
  OBVIOUS
<1> QED BY <1>1, <1>2, <1>3, <1>4, SentSteady

LEMMA SizeAskedSteady ==
    ASSUME FitInv, Strict, NEW w \in Windows, AsksSize(w)
    PROVE  Steady'
<1>1. /\ life[w] = "mapped" /\ UNCHANGED <<client, life, fullscreen, mode, wanted, control>>
      /\ May("resize") /\ Sends("resize", w, FALSE)
  BY DEF AsksSize, Mapped
<1>2. events = <<>>
  BY <1>1, MayWhen DEF Strict
<1> QED BY <1>1, <1>2, SentSteady

\* A window opens once whatever mode another one left is gone.
OpensBare == \A w \in Windows : Map(w) => mode = NoSize

LEMMA NewlyFits ==
    ASSUME NEW w \in Windows, \A v \in Windows : life'[v] = "mapped" => v = w,
           life'[w] = "mapped", UNCHANGED client, FitInv,
           GoodAs(control', w, fullscreen'[w], wanted', mode', FALSE), events' = <<>>
    PROVE  Steady'
<1>1. ~Changing(events') /\ Changing(events') = FALSE /\ Len(events') = 0
  BY DEF Changing
<1>2. WindowsFit'
  BY <1>1 DEF WindowsFit, GoodAs
<1>3. EventsFit'
  BY <1>1 DEF EventsFit, Changing
<1> QED BY <1>2, <1>3 DEF Steady, Follows, FitInv

LEMMA OnlyAny ==
    ASSUME NEW c, Only(c, NoWindow), NEW w \in Windows
    PROVE  Only(c, w) /\ c.told[w] = <<>> /\ c.requests[w] = NoRequest
<1>1. NoWindow \notin Windows
  BY ConstantsAssumption
<1>2. \A v \in Windows : c.told[v] = <<>> /\ c.requests[v] = NoRequest
  BY <1>1 DEF Only
<1>3. \A t \in c.timers : t.window \in {w, NoWindow}
  BY DEF Only
<1> QED BY <1>2, <1>3 DEF Only

LEMMA MapSteady ==
    ASSUME FitInv, NEW w \in Windows, Map(w), mode = NoSize
    PROVE  Steady'
<1> DEFINE sized == [control EXCEPT !.size[w] = Windowed]
<1>1. PICK entered \in BOOLEAN :
        /\ fullscreen' = [fullscreen EXCEPT ![w] = entered]
        /\ control' = Schedule(Configure(sized, w, IF entered THEN Full ELSE Windowed), w)
  BY DEF Map
<1>2. /\ Mapped = {} /\ life' = [life EXCEPT ![w] = "mapped"]
      /\ UNCHANGED <<client, mode, events, wanted>>
  BY DEF Map
<1>3. \A v \in Windows : life[v] # "mapped"
  BY <1>2 DEF Mapped
<1>4. events = <<>> /\ Only(control, w) /\ Dated(control) /\ control.told[w] = <<>>
      /\ control.requests[w] = NoRequest
  BY <1>3, NoneMapped, OnlyAny
<1>5. Windowed \in AnySize /\ Windowed # NoSize
  BY ConstantsAssumption DEF RealSize, AnySize
<1>6. control \in Controls /\ Sound(control)
  BY ControlIs DEF FitInv
<1>7. /\ sized \in Controls /\ sized.requests = control.requests
      /\ sized.withdrawals = control.withdrawals /\ sized.timers = control.timers
      /\ sized.negotiation = control.negotiation /\ sized.stretched = control.stretched
      /\ sized.told = control.told /\ sized.releases = control.releases
  BY <1>5, <1>6 DEF Controls
<1>8. sized.size[w] = Windowed /\ \A v \in Windows \ {w} : sized.size[v] = control.size[v]
  BY <1>6 DEF Controls
<1>9. control' = Toggled(sized, w, entered)
  BY <1>1 DEF Toggled
<1> HIDE DEF sized
<1>10. Sound(sized)
  BY <1>5, <1>6, <1>7, <1>8, NothingTouched DEF Quietly
<1>11. Only(sized, w) /\ Dated(sized) /\ sized.requests[w] = NoRequest
  BY <1>4, <1>7 DEF Only, Dated
<1>12. Bare(sized, w)
  BY <1>4, <1>7, <1>8 DEF Bare
<1>13. fullscreen'[w] = entered
  BY <1>1 DEF FitInv, ControlInv, WorldOK
<1>14. GoodAs(control', w, entered, wanted, mode, FALSE)
  <2>1. CASE entered
    <3>1. GoodAs(Toggled(sized, w, TRUE), w, TRUE, wanted, mode, FALSE)
      BY <1>10, <1>11, <1>12, EnterGood
    <3>2. entered = TRUE
      BY <2>1
    <3> QED BY <1>9, <3>1, <3>2
  <2>2. CASE ~entered
    <3>1. Ends(sized, w)
      BY <1>12, EmulatedSizes DEF Bare, Ends, Leads
    <3>2. FALSE \in BOOLEAN
      OBVIOUS
    <3>3. GoodAs(Toggled(sized, w, FALSE), w, FALSE, wanted, mode, FALSE)
      BY <1>10, <1>11, <3>1, <3>2, LeaveGood
    <3>4. entered = FALSE
      BY <2>2
    <3> QED BY <1>9, <3>3, <3>4
  <2> QED BY <2>1, <2>2
<1>15. GoodAs(control', w, fullscreen'[w], wanted', mode', FALSE)
  BY <1>2, <1>13, <1>14
<1>16. life'[w] = "mapped" /\ \A v \in Windows : life'[v] = "mapped" => v = w
  BY <1>2, <1>3 DEF FitInv, ControlInv, WorldOK
<1>17. events' = <<>> /\ UNCHANGED client
  BY <1>2, <1>4
<1> QED BY <1>15, <1>16, <1>17, NewlyFits

LEMMA CloseSteady ==
    ASSUME FitInv, NEW w \in Windows, Close(w)
    PROVE  Steady'
<1> DEFINE n == Number(control)
           expiry == Timer("expire", NoWindow, 0, n)
           left == {t \in control.timers : t.window # w /\ t.kind # "expire"}
           timers == left \cup {expiry}
           bare == NoRequest
           d == control'
<1>1. /\ life[w] = "mapped" /\ life' = [life EXCEPT ![w] = "gone"]
      /\ events' = <<>> /\ UNCHANGED client
  BY DEF Close
<1>2. d = [control EXCEPT
            !.requests[w] = bare, !.waiting = @ \ {w}, !.withdrawals[w] = 0,
            !.overdue = @ \ {w}, !.releases[w] = 0, !.stretched = @ \ {w},
            !.size[w] = NoSize, !.told[w] = <<>>, !.timers = timers]
  BY DEF Close
<1>3. control \in Controls
  BY ControlIs DEF FitInv
<1>4. /\ expiry.kind = "expire" /\ expiry.window = NoWindow
      /\ \A t \in left : t \in control.timers /\ t.window # w
  BY DEF Timer
<1> HIDE DEF expiry, left, bare, d
<1>5. d.timers = left \cup {expiry} /\ d.requests[w] = bare /\ d.told[w] = <<>>
  BY <1>2, <1>3 DEF Controls
<1>6. \A v \in Windows \ {w} : d.requests[v] = control.requests[v]
  BY <1>2, <1>3 DEF Controls
<1>7. \A v \in Windows \ {w} : d.told[v] = control.told[v]
  BY <1>2, <1>3 DEF Controls
<1>8. Only(control, w) /\ Dated(control)
  BY <1>1, MappedGood, GoodParts DEF FitInv
<1>9. Only(d, NoWindow) /\ Dated(d)
  <2>1. \A t \in d.timers : t.window = NoWindow
    BY <1>4, <1>5, <1>8 DEF Only
  <2>2. \A v \in Windows : d.told[v] = <<>> /\ d.requests[v] = NoRequest
    BY <1>5, <1>6, <1>7, <1>8 DEF Only, bare
  <2>3. Dated(d)
    BY <1>4, <1>5, <1>8 DEF Dated
  <2> QED BY <2>1, <2>2, <2>3 DEF Only
<1>10. \A v \in Windows : life'[v] # "mapped"
  BY <1>1 DEF FitInv, ControlInv, WorldOK, Mapped
<1>11. WindowsFit'
  BY <1>9, <1>10 DEF WindowsFit, d
<1>12. Len(events') = 0
  BY <1>1
<1>13. EventsFit'
  BY <1>12 DEF EventsFit, Changing
<1> QED BY <1>1, <1>11, <1>13 DEF Steady, Follows, FitInv

\* Nothing is left in the queue.
LEMMA StillFits ==
    ASSUME FitInv, NEW w \in Windows, life[w] = "mapped", UNCHANGED <<client, life>>,
           GoodAs(control', w, fullscreen'[w], wanted', mode', FALSE), events' = <<>>
    PROVE  Steady'
<1>1. \A v \in Windows : life'[v] = "mapped" => v = w
  BY DEF FitInv, ControlInv, WorldOK, Mapped
<1>2. life'[w] = "mapped" /\ UNCHANGED client
  OBVIOUS
<1> QED BY <1>1, <1>2, NewlyFits

LEMMA ToggleSteady ==
    ASSUME FitInv, Strict, NEW w \in Windows, KWinToggles(w)
    PROVE  Steady'
<1> DEFINE enter == ~fullscreen[w]
<1>1. /\ May("toggle") /\ life[w] = "mapped"
      /\ fullscreen' = [fullscreen EXCEPT ![w] = enter]
      /\ control' = Toggled(control, w, enter)
      /\ UNCHANGED <<client, life, mode, events, wanted>>
  BY DEF KWinToggles, Mapped
<1>2. Idle /\ Handled
  BY <1>1 DEF Strict, Calm, May
<1>3. /\ events = <<>> /\ control.told[w] = <<>>
      /\ client = {"mode"} => mode = Emulated(control.size[w])
  BY <1>1, <1>2, IdleHas DEF Handled, FitInv
<1>4. Good(control, w, Changing(events)) /\ Sound(control) /\ Only(control, w)
      /\ Dated(control) /\ Sized(control, w, fullscreen[w])
  BY <1>1, MappedGood, GoodParts DEF FitInv
<1>5. fullscreen'[w] = enter
  BY <1>1 DEF FitInv, ControlInv, WorldOK
<1>6. fullscreen[w] \in BOOLEAN
  BY <1>1, MappedGood DEF FitInv
<1>7. CASE fullscreen[w] = TRUE
  <2>1. client = {"mode"} => Ends(control, w)
    BY <1>3 DEF Ends, Leads
  <2>2. FALSE \in BOOLEAN
    OBVIOUS
  <2>3. GoodAs(Toggled(control, w, FALSE), w, FALSE, wanted, mode, FALSE)
    BY <1>4, <2>1, <2>2, LeaveGood
  <2>4. enter = FALSE
    BY <1>7
  <2> HIDE DEF enter
  <2>5. GoodAs(control', w, fullscreen'[w], wanted', mode', FALSE)
    BY <1>1, <1>5, <2>3, <2>4
  <2> QED BY <1>1, <1>3, <2>5, StillFits
<1>8. CASE fullscreen[w] = FALSE
  <2>1. control.requests[w] = NoRequest
    <3>1. Timer("apply", w, 0, 0) \notin control.timers
      BY <1>2 DEF Handled, Timer
    <3> QED BY <1>8, <3>1 DEF FitInv, CalmInv, LookedAt
  <2>2. control.size[w] = Windowed
    BY <1>4, <1>8 DEF Sized
  <2>3. client = {"mode"} => Bare(control, w)
    BY <1>3, <2>2, EmulatedSizes DEF Bare
  <2>4. GoodAs(Toggled(control, w, TRUE), w, TRUE, wanted, mode, FALSE)
    BY <1>4, <2>1, <2>3, EnterGood
  <2>5. enter = TRUE
    BY <1>8
  <2> HIDE DEF enter
  <2>6. GoodAs(control', w, fullscreen'[w], wanted', mode', FALSE)
    BY <1>1, <1>5, <2>4, <2>5
  <2> QED BY <1>1, <1>3, <2>6, StillFits
<1> QED BY <1>6, <1>7, <1>8

LEMMA SaveSteady ==
    ASSUME FitInv, Strict, SaveSettings
    PROVE  Steady'
<1>1. /\ May("save") /\ control' = Reconfigured(control)
      /\ UNCHANGED <<client, life, fullscreen, mode, events>>
  BY DEF SaveSettings
<1>2. events = <<>>
  BY <1>1, MayWhen DEF Strict
<1>3. ASSUME NEW w \in Windows, life[w] = "mapped"
      PROVE  Steady'
  <2>1. Good(control, w, Changing(events)) /\ fullscreen[w] \in BOOLEAN
    BY <1>3, MappedGood DEF FitInv
  <2>2. Changing(events) = FALSE
    BY <1>2 DEF Changing
  <2>3. Mapped \subseteq {w}
    BY <1>3 DEF FitInv, ControlInv, WorldOK, Mapped
  <2>4. /\ Proper(Reconfigured(control), w, fullscreen[w], wanted')
        /\ client = {"mode"} => Fit(Reconfigured(control), w, fullscreen[w], mode, FALSE)
    BY <2>1, <2>2, <2>3, ReconfiguredGood DEF FitInv
  <2>5. GoodAs(control', w, fullscreen'[w], wanted', mode', FALSE)
    BY <1>1, <2>4 DEF GoodAs
  <2> QED BY <1>1, <1>2, <1>3, <2>5, StillFits
<1>4. CASE \A w \in Windows : life[w] # "mapped"
  <2> DEFINE looks == {Timer("apply", v, 0, 0) : v \in Mapped}
             fresh == Fresh
             released == ReleaseEach(control, Requested(control))
  <2>1. Requested(control) = {} /\ Mapped = {}
    BY <1>4, NoneMapped
  <2>2. control' = [released EXCEPT !.generation = @ + 1, !.negotiation = fresh, !.waiting = {},
                                    !.overdue = {}, !.timers = @ \cup looks]
    BY <1>1 DEF Reconfigured, ReleaseEach
  <2>3. released = control
    BY <2>1, ReleaseNone
  <2>4. looks = {}
    BY <2>1
  <2>5. control \in Controls
    BY ControlIs DEF FitInv
  <2> HIDE DEF looks, fresh, released
  <2>6. /\ control'.told = control.told /\ control'.requests = control.requests
        /\ control'.timers = control.timers \cup looks
    BY <2>2, <2>3, <2>5 DEF Controls
  <2>7. control'.timers \subseteq control.timers
    BY <2>4, <2>6
  <2> QED BY <1>1, <1>4, <2>6, <2>7, NoneMappedSteady
<1> QED BY <1>3, <1>4

\* What is left in the queue once KWin handled an event.
LEMMA TailFits ==
    ASSUME FitInv, NEW kind, Arrives(kind), UNCHANGED client
    PROVE  /\ Changing(events') => Changing(events)
           /\ kind # "mode" => Changing(events') = Changing(events)
           /\ kind = "mode" => Changing(events)
           /\ kind = "mode" /\ client = {"mode"} /\ fullscreen[Head(events).window]
                => ~Changing(events')
           /\ (\A v \in Windows : fullscreen'[v] => fullscreen[v]) => EventsFit'
<1>1. /\ Head(events).kind = kind /\ events[1] = Head(events) /\ 1 \in 1..Len(events)
      /\ \A i \in 1..Len(events') :
            i + 1 \in 1..Len(events) /\ events[i + 1] = events'[i] /\ i + 1 # 1
  BY Arrived DEF FitInv
<1>2. \A j \in 1..Len(events) : j # 1 => j - 1 \in 1..Len(events') /\ events'[j - 1] = events[j]
  <2>1. events' = Tail(events) /\ events # <<>> /\ events \in Seq(Events)
    BY DEF Arrives, FitInv, ControlInv, EventsOK
  <2> QED BY <2>1
<1>3. Changing(events') => Changing(events)
  BY <1>1 DEF Changing
<1>4. ASSUME kind # "mode"
      PROVE  Changing(events') = Changing(events)
  <2>1. Changing(events) => Changing(events')
    BY <1>1, <1>2, <1>4 DEF Changing
  <2>2. Changing(events) \in BOOLEAN /\ Changing(events') \in BOOLEAN
    BY DEF Changing
  <2> QED BY <1>3, <2>1, <2>2
<1>5. kind = "mode" => Changing(events)
  BY <1>1 DEF Changing
<1>6. \A i \in 1..Len(events) : events[i] \in Events
  BY DEF FitInv, ControlInv, EventsOK
<1>7. \A i \in 1..Len(events) : events[i].window = Head(events).window
  <2>1. \A i \in 1..Len(events) : events[i].window \in Windows /\ life[events[i].window] = "mapped"
    BY <1>6 DEF FitInv, ControlInv, EventsOK, Events
  <2>2. \A v, w \in Windows : life[v] = "mapped" /\ life[w] = "mapped" => v = w
    BY DEF FitInv, ControlInv, WorldOK, Mapped
  <2> QED BY <1>1, <2>1, <2>2
<1>8. ASSUME kind = "mode", client = {"mode"}, fullscreen[Head(events).window], Changing(events')
      PROVE  FALSE
  <2>1. PICK i \in 1..Len(events') : events'[i].kind = "mode"
    BY <1>8 DEF Changing
  <2>2. i + 1 \in 1..Len(events) /\ events[i + 1].kind = "mode" /\ i + 1 # 1
    BY <1>1, <2>1
  <2>3. events[1].kind = "mode" /\ fullscreen[events[1].window]
    BY <1>1, <1>8
  <2>4. 1 = i + 1
    BY <1>1, <1>8, <2>2, <2>3 DEF FitInv, Steady, EventsFit
  <2> QED BY <2>2, <2>4
<1>9. ASSUME \A v \in Windows : fullscreen'[v] => fullscreen[v]
      PROVE  EventsFit'
  <2>1. ASSUME client = {"mode"}, NEW i \in 1..Len(events'), events'[i].kind = "state",
               events'[i].value
        PROVE  FALSE
    <3>1. i + 1 \in 1..Len(events) /\ events[i + 1] = events'[i] /\ i \in Nat
      BY <1>1
    <3>2. Len(events) = 1
      BY <2>1, <3>1 DEF FitInv, Steady, EventsFit
    <3> QED BY <1>1, <3>1, <3>2
  <2>2. ASSUME client = {"mode"}, NEW i \in 1..Len(events'), NEW j \in 1..Len(events'),
               events'[i].kind = "mode", events'[j].kind = "mode",
               fullscreen'[events'[i].window]
        PROVE  i = j
    <3>1. /\ i + 1 \in 1..Len(events) /\ events[i + 1] = events'[i]
          /\ j + 1 \in 1..Len(events) /\ events[j + 1] = events'[j]
      BY <1>1
    <3>2. events'[i].window \in Windows
      BY <1>6, <3>1 DEF Events
    <3>3. fullscreen[events[i + 1].window]
      BY <1>9, <2>2, <3>1, <3>2
    <3>4. i + 1 = j + 1
      BY <2>2, <3>1, <3>3 DEF FitInv, Steady, EventsFit
    <3> QED BY <3>4
  <2>3. client # {"mode"} => ~Changing(events')
    BY <1>3 DEF FitInv, Steady, EventsFit
  <2> QED BY <2>1, <2>2, <2>3 DEF EventsFit
<1> QED BY <1>3, <1>4, <1>5, <1>8, <1>9

LEMMA EventSteady ==
    ASSUME FitInv, NEW kind, Arrives(kind), NEW w \in Windows, life[w] = "mapped",
           UNCHANGED <<client, life>>, EventsFit',
           GoodAs(control', w, fullscreen'[w], wanted', mode', Changing(events'))
    PROVE  Steady'
<1>1. WorldOK /\ UNCHANGED life /\ UNCHANGED client
  BY DEF FitInv, ControlInv
<1>2. WindowsFit'
  BY <1>1, OneFits
<1> QED BY <1>2 DEF Steady, Follows, FitInv

LEMMA LeaveSteady ==
    ASSUME FitInv, LeaveRequested
    PROVE  Steady'
<1> DEFINE w == Head(events).window
           restored == Restore(control, w)
           changing == Changing(events')
<1>1. /\ Arrives("state") /\ UNCHANGED <<client, life, mode, wanted>>
      /\ control' = IF fullscreen[w] THEN Toggled(restored, w, FALSE) ELSE restored
      /\ fullscreen' = [fullscreen EXCEPT ![w] = FALSE]
  BY DEF LeaveRequested
<1>2. w \in Windows /\ life[w] = "mapped"
  BY <1>1, Arrived DEF FitInv
<1>3. changing \in BOOLEAN
  BY DEF Changing
<1>4. \A v \in Windows : fullscreen'[v] => fullscreen[v]
  BY <1>1 DEF FitInv, ControlInv, WorldOK
<1>5. fullscreen'[w] = FALSE
  BY <1>1, <1>2 DEF FitInv, ControlInv, WorldOK
<1>6. EventsFit'
  BY <1>1, <1>4, TailFits
<1> HIDE DEF w, changing
<1>7. /\ Good(control, w, Changing(events)) /\ fullscreen[w] \in BOOLEAN
      /\ Shaped(control, w, fullscreen[w]) /\ Sound(control) /\ Only(control, w)
      /\ Dated(control)
  BY <1>2, MappedGood, GoodParts DEF FitInv
<1>8. client = {"mode"} => Ends(control, w)
  BY <1>7 DEF Good, Fit, Ends
<1>9. Returned(control, restored, w)
  BY <1>2, <1>7, RestoreParts
<1>10. client = {"mode"} => Ends(restored, w)
  BY <1>2, <1>7, <1>8, RestoreEnds
<1>11. Proper(restored, w, fullscreen[w], wanted)
  BY <1>2, <1>7, RestoreProper
<1> HIDE DEF restored
<1>12. Sound(restored) /\ Only(restored, w) /\ Dated(restored)
  BY <1>7, <1>9, OnlyStays DEF Returned, Beside
<1>13. GoodAs(Toggled(restored, w, FALSE), w, FALSE, wanted, mode, changing)
  BY <1>2, <1>3, <1>10, <1>12, LeaveGood
<1>14. ASSUME ~Covers(w)
       PROVE  GoodAs(restored, w, FALSE, wanted, mode, changing)
  <2>1. fullscreen[w] = FALSE
    BY <1>7, <1>14 DEF Covers
  <2>2. Proper(restored, w, FALSE, wanted)
    BY <1>11, <2>1
  <2>3. client = {"mode"} => Fit(restored, w, FALSE, mode, changing)
    BY <1>10 DEF Ends, Fit
  <2> QED BY <2>2, <2>3 DEF GoodAs
<1>15. control' = IF Covers(w) THEN Toggled(restored, w, FALSE) ELSE restored
  BY <1>1 DEF Covers
<1>16. GoodAs(control', w, FALSE, wanted, mode, changing)
  BY <1>13, <1>14, <1>15
<1>17. GoodAs(control', w, fullscreen'[w], wanted', mode', Changing(events'))
  BY <1>1, <1>5, <1>16 DEF changing
<1> QED BY <1>1, <1>2, <1>6, <1>17, EventSteady

LEMMA EnterSteady ==
    ASSUME FitInv, FullscreenRequested
    PROVE  Steady'
<1> DEFINE w == Head(events).window
<1>1. /\ Arrives("state") /\ Head(events).value /\ UNCHANGED <<client, life, mode, wanted>>
      /\ control' = FullscreenAsked(control, w)
      /\ fullscreen' = [fullscreen EXCEPT ![w] = TRUE]
  BY DEF FullscreenRequested
<1>2. /\ w \in Windows /\ life[w] = "mapped" /\ events' = Tail(events)
      /\ events[1] = Head(events) /\ 1 \in 1..Len(events) /\ Head(events).kind = "state"
  BY <1>1, Arrived DEF FitInv
<1>3. ~fullscreen[w] /\ control.requests[w] = NoRequest
  BY <1>1, <1>2 DEF FitInv, CalmInv, EntersBare
<1>4. client = {"mode"} => Len(events) = 1 /\ control.told[w] = <<>>
  BY <1>1, <1>2 DEF FitInv, Steady, EventsFit
<1>5. fullscreen'[w] = TRUE
  BY <1>1, <1>2 DEF FitInv, ControlInv, WorldOK
<1>6. client = {"mode"} => Len(events') = 0
  <2>1. events \in Seq(Events)
    BY DEF FitInv, ControlInv, EventsOK
  <2> QED BY <1>2, <1>4, <2>1
<1>7. Changing(events') = FALSE /\ EventsFit'
  <2>1. client = {"mode"} => ~Changing(events')
    BY <1>6 DEF Changing
  <2>2. client # {"mode"} => ~Changing(events')
    BY <1>1, TailFits DEF FitInv, Steady, EventsFit
  <2>3. Changing(events') = FALSE
    BY <2>1, <2>2 DEF Changing
  <2> QED BY <1>1, <1>6, <2>3 DEF EventsFit, Changing
<1> HIDE DEF w
<1>8. /\ Good(control, w, Changing(events)) /\ fullscreen[w] \in BOOLEAN
      /\ Shaped(control, w, fullscreen[w]) /\ Sized(control, w, fullscreen[w])
  BY <1>2, MappedGood, GoodParts DEF FitInv
<1>9. control.size[w] = Windowed
  BY <1>3, <1>8 DEF Sized
<1>10. client = {"mode"} => Bare(control, w)
  BY <1>4, <1>8, <1>9, EmulatedSizes DEF Good, Fit, Leads, Bare
<1>11. ~Covers(w) /\ wanted \in Sizes \cup {NoSize} /\ Orderly(control)
  BY <1>3 DEF Covers, FitInv, ControlInv, WorldOK
<1>12. GoodAs(FullscreenAsked(control, w), w, TRUE, wanted, mode, FALSE)
  <2>1. control.requests[w] = NoRequest
    BY <1>3
  <2>2. fullscreen[w] \in BOOLEAN /\ Shaped(control, w, fullscreen[w])
    BY <1>8
  <2> QED BY <1>2, <1>10, <1>11, <2>1, <2>2, EnteredGood
<1>13. GoodAs(control', w, fullscreen'[w], wanted', mode', Changing(events'))
  BY <1>1, <1>5, <1>7, <1>12
<1> QED BY <1>1, <1>2, <1>7, <1>13, EventSteady

\* The window is told again the size it has.
LEMMA ToldAgain ==
    ASSUME NEW c, NEW w \in Windows, fullscreen[w] \in BOOLEAN, NEW changing \in BOOLEAN,
           Good(c, w, changing), c.size[w] \in RealSize
    PROVE  Good(Announce(c, w, c.size[w]), w, changing)
<1> DEFINE s == c.size[w]
           q == c.told[w]
           d == Announce(c, w, s)
<1>1. /\ Shaped(c, w, fullscreen[w]) /\ Sound(c) /\ Only(c, w) /\ Dated(c)
      /\ Sized(c, w, fullscreen[w])
  BY GoodParts
<1>2. q \in Seq(RealSize)
  BY <1>1, ControlParts DEF Sound
<1>3. Resized(c, d, w, s, Append(q, s))
  BY <1>1, AnnounceParts
<1> HIDE DEF d
<1>4. Beside(c, d, w) /\ Sound(d) /\ Only(d, w) /\ Dated(d)
  BY <1>1, <1>3, OnlyStays DEF Resized, Beside
<1>5. Sized(d, w, fullscreen[w])
  BY <1>1, <1>3 DEF Resized, Sized
<1>6. Proper(d, w, fullscreen[w], wanted)
  BY <1>3, <1>4, <1>5 DEF Good, Proper, Shaped, Standing, Resized
<1>7. ASSUME client = {"mode"}
      PROVE  Fit(d, w, fullscreen[w], mode, changing)
  <2> DEFINE goal == Emulated(s)
  <2>1. Fit(c, w, fullscreen[w], mode, changing)
    BY <1>7 DEF Good
  <2>2. Leads(Append(q, s), mode, goal)
    BY <1>2, LeadsThere
  <2>3. Covers(w) => Once(q, mode, goal)
    BY <2>1 DEF Fit, Covers
  <2>4. Covers(w) => Once(Append(q, s), mode, goal)
    BY <1>2, <2>3, OnceMore
  <2>5. d.size[w] = s /\ d.told[w] = Append(q, s) /\ d.requests[w] = c.requests[w]
    BY <1>3 DEF Resized
  <2>6. Withdrawing(c, w) => Withdrawing(d, w)
    BY <1>3 DEF Resized, Withdrawing, Noticed
  <2>7. Answering(c, w, mode, changing) => Answering(d, w, mode, changing)
    BY <1>3 DEF Resized, Answering, Over
  <2>8. fullscreen[w] => Once(d.told[w], mode, Emulated(d.size[w]))
    BY <2>4, <2>5 DEF Covers
  <2>9. Leads(d.told[w], mode, Emulated(d.size[w]))
    BY <2>2, <2>5
  <2> HIDE DEF s, q, goal
  <2>10. Emulated(d.size[w]) = Emulated(c.size[w])
    BY <2>5 DEF s
  <2> QED BY <2>1, <2>5, <2>6, <2>7, <2>8, <2>9, <2>10 DEF Fit
<1> QED BY <1>6, <1>7 DEF Good, d, s

LEMMA ResizeSteady ==
    ASSUME FitInv, ResizeRequested
    PROVE  Steady'
<1> DEFINE w == Head(events).window
           s == IF fullscreen[w] /\ control.requests[w] # NoRequest
                THEN control.requests[w].size
                ELSE IF fullscreen[w] /\ control.withdrawals[w] # 0 THEN NormalSize(w)
                ELSE control.size[w]
<1>1. /\ Arrives("resize") /\ control' = Announce(control, w, s)
      /\ UNCHANGED <<client, life, fullscreen, mode, wanted>>
  BY DEF ResizeRequested
<1>2. w \in Windows /\ life[w] = "mapped"
  BY <1>1, Arrived DEF FitInv
<1>3. /\ Good(control, w, Changing(events)) /\ fullscreen[w] \in BOOLEAN
      /\ Changing(events) \in BOOLEAN /\ Sized(control, w, fullscreen[w])
      /\ control \in Controls
  BY <1>2, MappedGood, GoodParts DEF FitInv
<1>4. s = control.size[w]
  BY <1>3, NormalReal DEF Sized
<1>5. Changing(events') = Changing(events) /\ EventsFit'
  BY <1>1, TailFits
<1>6. control.size[w] \in RealSize
  BY <1>2, <1>3, ControlParts DEF FitInv, ControlInv, SizesOK, AnySize
<1> HIDE DEF w, s
<1>7. Good(control', w, Changing(events))
  BY <1>1, <1>2, <1>3, <1>4, <1>6, ToldAgain
<1>8. GoodAs(control', w, fullscreen'[w], wanted', mode', Changing(events'))
  BY <1>1, <1>5, <1>7 DEF Good, GoodAs
<1> QED BY <1>1, <1>2, <1>5, <1>8, EventSteady

LEMMA ModeSteady ==
    ASSUME FitInv, ModeChanged
    PROVE  Steady'
<1> DEFINE w == Head(events).window
           new == Head(events).value
           d == SizedByMode(ModeNoted(control, w, new), w)
<1>1. /\ Arrives("mode") /\ control' = d
      /\ UNCHANGED <<client, life, fullscreen, mode, wanted>>
  BY DEF ModeChanged
<1>2. w \in Windows /\ life[w] = "mapped" /\ new \in BOOLEAN
  BY <1>1, Arrived DEF FitInv
<1>3. Changing(events) /\ EventsFit'
  BY <1>1, TailFits
<1>4. client = {"mode"}
  BY <1>3 DEF FitInv, Steady, EventsFit
<1>5. fullscreen[w] => ~Changing(events')
  BY <1>1, <1>4, TailFits
<1>6. Good(control, w, TRUE) /\ fullscreen[w] \in BOOLEAN
  <2>1. Changing(events) = TRUE
    BY <1>3 DEF Changing
  <2> QED BY <1>2, <2>1, MappedGood DEF FitInv
<1>7. Changing(events') \in BOOLEAN /\ mode \in Sizes \cup {NoSize}
  BY DEF Changing, FitInv, ControlInv, WorldOK
<1> HIDE DEF w, new
<1>8. Good(d, w, Changing(events'))
  BY <1>2, <1>4, <1>5, <1>6, <1>7, ModeGood
<1> HIDE DEF d
<1>9. GoodAs(control', w, fullscreen'[w], wanted', mode', Changing(events'))
  BY <1>1, <1>8 DEF Good, GoodAs
<1> QED BY <1>1, <1>2, <1>3, <1>9, EventSteady

-----------------------------------------------------------------------------
(* The client reads what it was told.                                      *)

LEMMA OneInSequence ==
    ASSUME NEW e
    PROVE  SetToSeq({e}) = <<e>>
<1>1. Cardinality({e}) = 1 /\ IsFiniteSet({e})
  BY FS_Singleton
<1>2. SetToSeq({e}) = CHOOSE f \in [1..1 -> {e}] : IsInjective(f)
  BY <1>1 DEF SetToSeq
<1>3. \E f \in [1..1 -> {e}] : IsInjective(f)
  <2>1. [i \in 1..1 |-> e] \in [1..1 -> {e}] /\ IsInjective([i \in 1..1 |-> e])
    BY DEF IsInjective
  <2> QED BY <2>1
<1>4. SetToSeq({e}) \in [1..1 -> {e}]
  BY <1>2, <1>3
<1> QED BY <1>4

\* A change of mode is one more event.
LEMMA ModeNotedOnce ==
    ASSUME WorldOK, EventsOK, NEW w \in Windows, life[w] = "mapped", NEW m, SetsMode(m),
           m # mode
    PROVE  /\ Len(events') = Len(events) + 1 /\ Len(events) \in Nat
           /\ events'[Len(events) + 1].kind = "mode" /\ events'[Len(events) + 1].window = w
           /\ \A i \in 1..Len(events) : events'[i] = events[i]
<1> DEFINE set == m # NoSize
           event(v) == [kind |-> "mode", window |-> v, value |-> set]
           e == event(w)
<1>1. events' = events \o SetToSeq({event(v) : v \in Mapped})
  BY DEF SetsMode
<1>2. Mapped = {w}
  BY DEF WorldOK, Mapped
<1>3. e.kind = "mode" /\ e.window = w
  OBVIOUS
<1> HIDE DEF set, event
<1>4. {event(v) : v \in Mapped} = {e}
  BY <1>2
<1> HIDE DEF e
<1>5. events' = events \o <<e>> /\ events \in Seq(Events)
  BY <1>1, <1>4, OneInSequence DEF EventsOK
<1>6. /\ Len(events \o <<e>>) = Len(events) + 1 /\ Len(events) \in Nat
      /\ (events \o <<e>>)[Len(events) + 1] = e
      /\ \A i \in 1..Len(events) : (events \o <<e>>)[i] = events[i]
  BY <1>5
<1> QED BY <1>3, <1>5, <1>6

LEMMA ModeUnset ==
    ASSUME NEW m, SetsMode(m), m = mode
    PROVE  events' = events /\ mode' = mode
BY DEF SetsMode

\* The client takes the first of what it was told for its mode.
LEMMA ReadFit ==
    ASSUME NEW c, NEW d, NEW w \in Windows, fullscreen[w] \in BOOLEAN,
           NEW changing \in BOOLEAN, NEW after \in BOOLEAN,
           Shaped(c, w, fullscreen[w]), Fit(c, w, fullscreen[w], mode, changing),
           c.told[w] # <<>>, d.told[w] = Tail(c.told[w]), d.size = c.size,
           d.requests = c.requests, d.releases = c.releases,
           d.withdrawals = c.withdrawals, d.timers = c.timers,
           NEW k, k = Emulated(Head(c.told[w])), k = mode => after = changing
    PROVE  /\ Fit(d, w, fullscreen[w], k, after)
           /\ fullscreen[w] /\ changing => k = mode
<1> DEFINE q == c.told[w]
           goal == Emulated(c.size[w])
<1>1. q \in Seq(RealSize)
  BY ControlParts DEF Shaped, Sound
<1>2. Leads(Tail(q), k, goal)
  <2>1. Leads(q, mode, goal)
    BY DEF Fit
  <2> QED BY <1>1, <2>1, LeadsOnward
<1>3. Covers(w) => /\ Once(Tail(q), k, goal) /\ k \in {mode, goal} /\ (mode = goal => k = goal)
  <2>1. Covers(w) => Once(q, mode, goal)
    BY DEF Fit, Covers
  <2>2. ASSUME Once(q, mode, goal)
        PROVE  /\ Once(Tail(q), k, goal) /\ k \in {mode, goal} /\ (mode = goal => k = goal)
    BY <1>1, <2>2, OnceOnward
  <2> QED BY <2>1, <2>2
<1>4. Covers(w) => /\ changing => mode = goal
                   /\ c.requests[w] = NoRequest /\ (changing \/ mode # NoSize) => Withdrawing(c, w)
                   /\ c.requests[w] # NoRequest => Answering(c, w, mode, changing)
  BY DEF Fit, Covers
<1>5. /\ Covers(w) /\ c.requests[w] = NoRequest => goal = NoSize
      /\ Covers(w) /\ c.requests[w] # NoRequest => goal = c.requests[w].size
  <2>1. Covers(w) => c.size[w] = IF c.requests[w] = NoRequest THEN Full ELSE c.requests[w].size
    BY DEF Shaped, Sized, Covers
  <2>2. c.requests[w] # NoRequest => c.requests[w].size \in Sizes
    BY ControlParts, RequestParts DEF Shaped, Sound, Asked
  <2> QED BY <2>1, <2>2, EmulatedSizes
<1>6. d.told[w] = Tail(q) /\ Emulated(d.size[w]) = goal /\ d.requests[w] = c.requests[w]
  OBVIOUS
<1>7. Withdrawing(c, w) => Withdrawing(d, w)
  BY DEF Withdrawing, Noticed
<1> HIDE DEF q, goal
<1>8. Covers(w) /\ (after \/ changing) => k = goal
  BY <1>3, <1>4
<1>9. Covers(w) /\ c.requests[w] = NoRequest /\ (after \/ k # NoSize) => Withdrawing(d, w)
  BY <1>3, <1>4, <1>5, <1>7
<1>10. ASSUME Covers(w), c.requests[w] # NoRequest
       PROVE  Answering(d, w, k, after)
  <2>1. Answering(c, w, mode, changing) /\ goal = c.requests[w].size /\ k \in {mode, goal}
        /\ (mode = goal => k = goal)
    BY <1>3, <1>4, <1>5, <1>10
  <2>2. k \in {NoSize, c.requests[w].size}
    BY <2>1 DEF Answering
  <2>3. c.requests[w].answered => k = c.requests[w].size /\ ~after
    BY <2>1 DEF Answering
  <2>4. k # c.requests[w].size => ~Over(d, c.requests[w].verdict)
    BY <2>1 DEF Answering, Over
  <2>5. \A t \in d.timers :
           t.kind = "release" /\ t.window = w /\ t.token = d.releases[w] => t.due # 0
    BY <2>1 DEF Answering
  <2> QED BY <1>6, <2>2, <2>3, <2>4, <2>5 DEF Answering
<1>11. Fit(d, w, fullscreen[w], k, after)
  <2>1. /\ fullscreen[w] => Once(d.told[w], k, Emulated(d.size[w]))
        /\ fullscreen[w] /\ after => k = Emulated(d.size[w])
    BY <1>3, <1>6, <1>8 DEF Covers
  <2>2. fullscreen[w] /\ d.requests[w] = NoRequest /\ (after \/ k # NoSize) => Withdrawing(d, w)
    BY <1>6, <1>9 DEF Covers
  <2>3. fullscreen[w] /\ d.requests[w] # NoRequest => Answering(d, w, k, after)
    BY <1>6, <1>10 DEF Covers
  <2>4. Leads(d.told[w], k, Emulated(d.size[w]))
    BY <1>2, <1>6
  <2> QED BY <2>1, <2>2, <2>3, <2>4 DEF Fit
<1>12. fullscreen[w] /\ changing => k = mode
  BY <1>4, <1>8 DEF Covers
<1> QED BY <1>11, <1>12

LEMMA ReadProper ==
    ASSUME FitInv, NEW w \in Windows, ReadsResize(w)
    PROVE  /\ Proper(control', w, fullscreen[w], wanted)
           /\ control'.told[w] = Tail(control.told[w]) /\ control'.size = control.size
           /\ control'.requests = control.requests /\ control'.releases = control.releases
           /\ control'.withdrawals = control.withdrawals /\ control'.timers = control.timers
<1> DEFINE left == Tail(control.told[w])
<1>1. control' = [control EXCEPT !.told[w] = left] /\ life[w] = "mapped"
  BY DEF ReadsResize, Mapped
<1>2. Good(control, w, Changing(events)) /\ control \in Controls /\ Only(control, w)
      /\ Dated(control) /\ Sized(control, w, fullscreen[w])
  BY <1>1, MappedGood, GoodParts DEF FitInv
<1>3. Sound(control')
  BY ReadKeeps DEF FitInv, ControlInv, ControlOK
<1> HIDE DEF left
<1>4. /\ control'.size = control.size /\ control'.negotiation = control.negotiation
      /\ control'.requests = control.requests /\ control'.releases = control.releases
      /\ control'.withdrawals = control.withdrawals /\ control'.timers = control.timers
  BY <1>1, <1>2 DEF Controls
<1>5. control'.told[w] = left /\ \A v \in Windows \ {w} : control'.told[v] = control.told[v]
  BY <1>1, <1>2 DEF Controls
<1>6. Only(control', w) /\ Dated(control')
  BY <1>2, <1>4, <1>5 DEF Only, Dated
<1>7. Sized(control', w, fullscreen[w])
  BY <1>2, <1>4 DEF Sized
<1>8. Proper(control', w, fullscreen[w], wanted)
  BY <1>2, <1>3, <1>4, <1>6, <1>7 DEF Good, Proper, Shaped, Standing
<1> QED BY <1>4, <1>5, <1>8 DEF left

LEMMA ReadSteady ==
    ASSUME FitInv, NEW w \in Windows, ReadsResize(w)
    PROVE  Steady'
<1> DEFINE k == Emulated(Head(control.told[w]))
           after == Changing(events')
<1>1. /\ life[w] = "mapped" /\ control.told[w] # <<>>
      /\ UNCHANGED <<client, life, fullscreen, wanted>>
  BY DEF ReadsResize, Mapped
<1>2. /\ client = {"mode"} => SetsMode(k)
      /\ client # {"mode"} => UNCHANGED <<mode, events>>
  <2>1. client = {"mode"} => SetsMode(k)
    BY DEF ReadsResize, Emulated
  <2>2. client # {"mode"} => "mode" \notin client
    BY DEF FitInv, Steady, Follows
  <2> QED BY <2>1, <2>2 DEF ReadsResize
<1>3. /\ Good(control, w, Changing(events)) /\ fullscreen[w] \in BOOLEAN
      /\ Changing(events) \in BOOLEAN /\ Shaped(control, w, fullscreen[w])
  BY <1>1, MappedGood, GoodParts DEF FitInv
<1>4. /\ Proper(control', w, fullscreen[w], wanted)
      /\ control'.told[w] = Tail(control.told[w]) /\ control'.size = control.size
      /\ control'.requests = control.requests /\ control'.releases = control.releases
      /\ control'.withdrawals = control.withdrawals /\ control'.timers = control.timers
  BY ReadProper
<1>5. after \in BOOLEAN
  BY DEF Changing
<1>6. WorldOK /\ EventsOK /\ EventsFit
  BY DEF FitInv, ControlInv, Steady
<1>7. \A i \in 1..Len(events) : events[i].window = w
  <2>1. \A i \in 1..Len(events) : events[i] \in Events /\ life[events[i].window] = "mapped"
    BY <1>6 DEF EventsOK
  <2>2. \A v \in Windows : life[v] = "mapped" => v = w
    BY <1>1, <1>6 DEF WorldOK, Mapped
  <2> QED BY <2>1, <2>2 DEF Events
<1>8. client = {"mode"} /\ k = mode => after = Changing(events) /\ events' = events
  BY <1>2, ModeUnset DEF Changing
<1>9. ASSUME client = {"mode"}
      PROVE  /\ Fit(control', w, fullscreen[w], k, after)
             /\ fullscreen[w] /\ Changing(events) => k = mode
  <2>1. Fit(control, w, fullscreen[w], mode, Changing(events))
    BY <1>3, <1>9 DEF Good
  <2>2. k = mode => after = Changing(events)
    BY <1>8, <1>9
  <2>3. k = Emulated(Head(control.told[w]))
    OBVIOUS
  <2> HIDE DEF k, after
  <2> QED BY <1>1, <1>3, <1>4, <1>5, <2>1, <2>2, <2>3, ReadFit
<1>10. client = {"mode"} => mode' = k
  BY <1>2 DEF SetsMode
<1>11. GoodAs(control', w, fullscreen'[w], wanted', mode', Changing(events'))
  <2> HIDE DEF k
  <2>1. client = {"mode"} => Fit(control', w, fullscreen'[w], mode', Changing(events'))
    BY <1>1, <1>9, <1>10
  <2> QED BY <1>1, <1>4, <2>1 DEF GoodAs
<1>12. WindowsFit'
  BY <1>1, <1>6, <1>11, OneFits
<1>13. client = {"mode"} =>
          \A i \in 1..Len(events) : ~(events[i].kind = "state" /\ events[i].value)
  BY <1>1, <1>6, <1>7 DEF EventsFit
<1> HIDE DEF k, after
<1>14. EventsFit'
  <2>1. CASE client # {"mode"}
    BY <1>1, <1>2, <1>6, <2>1 DEF EventsFit, Changing
  <2>2. CASE client = {"mode"} /\ k = mode
    BY <1>1, <1>6, <1>8, <1>13, <2>2 DEF EventsFit
  <2>3. CASE client = {"mode"} /\ k # mode
    <3>1. /\ Len(events') = Len(events) + 1 /\ Len(events) \in Nat
          /\ events'[Len(events) + 1].kind = "mode" /\ events'[Len(events) + 1].window = w
          /\ \A i \in 1..Len(events) : events'[i] = events[i]
      BY <1>1, <1>2, <1>6, <2>3, ModeNotedOnce
    <3>2. \A i \in 1..Len(events') : i \in 1..Len(events) \/ i = Len(events) + 1
      BY <3>1
    <3>3. fullscreen[w] => \A i \in 1..Len(events) : events[i].kind # "mode"
      BY <1>9, <2>3 DEF Changing
    <3>4. ASSUME NEW i \in 1..Len(events'), NEW j \in 1..Len(events'),
                 events'[i].kind = "mode", events'[j].kind = "mode",
                 fullscreen'[events'[i].window]
          PROVE  i = j
      <4>1. events'[i].window = w
        BY <1>7, <3>1, <3>2
      <4>2. fullscreen[w]
        BY <1>1, <3>4, <4>1
      <4>3. i \notin 1..Len(events) /\ j \notin 1..Len(events)
        BY <3>1, <3>3, <3>4, <4>2
      <4> QED BY <3>2, <4>3
    <3>5. ASSUME NEW i \in 1..Len(events'), events'[i].kind = "state", events'[i].value
          PROVE  FALSE
      BY <1>13, <2>3, <3>1, <3>2, <3>5
    <3>6. client' = {"mode"}
      BY <1>1, <2>3
    <3> QED BY <3>4, <3>5, <3>6 DEF EventsFit
  <2> QED BY <2>1, <2>2, <2>3
<1> QED BY <1>1, <1>12, <1>14 DEF Steady, Follows, FitInv

-----------------------------------------------------------------------------
(* The theorems of the sizes.                                              *)

\* A client that selects what it is told as its mode does nothing else.
Selects == \A c \in Clients : "mode" \in c => c = {"mode"}

LEMMA SteadyStarts ==
    ASSUME Init, Selects
    PROVE  Steady
<1> DEFINE bare == NoRequest
<1>1. /\ client \in Clients /\ life = [w \in Windows |-> "none"] /\ events = <<>>
      /\ control.requests = [w \in Windows |-> bare] /\ control.timers = {}
      /\ control.told = [w \in Windows |-> <<>>]
  BY DEF Init
<1>2. Follows
  BY <1>1 DEF Follows, Selects
<1> HIDE DEF bare
<1>3. Only(control, NoWindow) /\ Dated(control)
  BY <1>1 DEF Only, Dated, bare
<1>4. WindowsFit
  BY <1>1, <1>3 DEF WindowsFit
<1>5. Len(events) = 0
  BY <1>1
<1>6. EventsFit
  BY <1>5 DEF EventsFit, Changing
<1> QED BY <1>2, <1>4, <1>6 DEF Steady

LEMMA SteadyStep ==
    ASSUME FitInv, Strict, [Next]_vars, [OpensBare]_vars
    PROVE  Steady'
<1>1. CASE UNCHANGED vars
  <2>1. UNCHANGED client /\ UNCHANGED life /\ UNCHANGED fullscreen /\ UNCHANGED events
        /\ UNCHANGED mode /\ UNCHANGED wanted /\ UNCHANGED control
    BY <1>1 DEF vars
  <2> QED BY <2>1 DEF FitInv, Steady, Follows, EventsFit, WindowsFit, GoodAs, Changing
<1>2. ASSUME NEW w \in Windows, Map(w) \/ Close(w) \/ KWinToggles(w)
      PROVE  Steady'
  <2>1. ASSUME Map(w)
        PROVE  mode = NoSize
    <3>1. life' # life
      <4>1. life[w] = "none" /\ life' = [life EXCEPT ![w] = "mapped"]
        BY <2>1 DEF Map
      <4>2. life'[w] = "mapped"
        BY <4>1 DEF FitInv, ControlInv, WorldOK
      <4> QED BY <4>1, <4>2
    <3>2. OpensBare
      BY <3>1 DEF vars
    <3> QED BY <2>1, <3>2 DEF OpensBare
  <2> QED BY <1>2, <2>1, MapSteady, CloseSteady, ToggleSteady
<1>3. ASSUME NEW w \in Windows, Client(w) \/ AsksState(w) \/ AsksSize(w)
      PROVE  Steady'
  BY <1>3, ReadSteady, CommitSteady, StateAskedSteady, SizeAskedSteady DEF Client
<1>4. CASE SaveSettings \/ ChoosesMode
  <2>1. ~ChoosesMode
    BY DEF ChoosesMode, May, Strict
  <2> QED BY <1>4, <2>1, SaveSteady
<1>5. CASE XEvent
  BY <1>5, ModeSteady, LeaveSteady, EnterSteady, ResizeSteady DEF XEvent
<1>6. ASSUME NEW t \in control.timers, Callback(t)
      PROVE  Steady'
  BY <1>6, LookSteady, ReleaseEndSteady, WithdrawalEndSteady, JudgeSteady, AskAgainSteady,
     ExpireSteady DEF Callback, Strict
<1> QED BY <1>1, <1>2, <1>3, <1>4, <1>5, <1>6 DEF Next

\* What all of them need of a behaviour.
Regular == Strict /\ Selects /\ Spec /\ [][OpensBare]_vars

LEMMA FitStarts ==
    ASSUME Init, Selects
    PROVE  FitInv
<1>1. Orderly(control)
  <2> DEFINE bare == NoRequest
  <2>1. control.timers = {} /\ control.requests = [w \in Windows |-> bare]
    BY DEF Init
  <2> HIDE DEF bare
  <2> QED BY <2>1 DEF Orderly, bare
<1> QED BY <1>1, ControlStarts, SteadyStarts DEF FitInv

LEMMA FitStep ==
    ASSUME FitInv, Strict, [Next]_vars, [OpensBare]_vars
    PROVE  FitInv'
<1>1. ControlInv' /\ CalmInv'
  BY ControlStep DEF FitInv, Strict
<1>2. Orderly(control')
  BY AwaitsStep DEF FitInv
<1> QED BY <1>1, <1>2, SteadyStep DEF FitInv

LEMMA QuietIsAsked ==
    ASSUME FitInv
    PROVE  EndsAsAsked
<1>1. ASSUME Quiet, NEW w \in Mapped
      PROVE  IF control.requests[w] = NoRequest
             THEN control.size[w] = NormalSize(w)
             ELSE control.size[w] = control.requests[w].size
  <2>1. w \in Windows /\ life[w] = "mapped"
    BY DEF Mapped
  <2>2. Sized(control, w, fullscreen[w]) /\ fullscreen[w] \in BOOLEAN
    BY <2>1, MappedGood, GoodParts DEF FitInv
  <2>3. ~fullscreen[w] => control.requests[w] = NoRequest
    <3>1. ASSUME Timer("apply", w, 0, 0) \in control.timers
          PROVE  FALSE
      <4>1. Awaited(Timer("apply", w, 0, 0))
        BY DEF Awaited, Timer
      <4> QED BY <1>1, <3>1, <4>1 DEF Quiet
    <3> QED BY <2>1, <3>1 DEF FitInv, CalmInv, LookedAt
  <2> QED BY <2>2, <2>3 DEF Sized, NormalSize
<1> QED BY <1>1 DEF EndsAsAsked

\* A window that closes has no size.
LEMMA StaysOrCloses ==
    ASSUME ControlInv, [Next]_vars, NEW w \in Windows, life[w] = "mapped"
    PROVE  life'[w] = "mapped" \/ control'.size[w] = NoSize
<1>1. CASE UNCHANGED life
  BY <1>1
<1>2. ASSUME NEW v \in Windows, Map(v)
      PROVE  life'[w] = "mapped"
  BY <1>2 DEF Map, ControlInv, WorldOK
<1>3. ASSUME NEW v \in Windows, Close(v)
      PROVE  life'[w] = "mapped" \/ control'.size[w] = NoSize
  <2>1. v = w
    BY <1>3 DEF Close, ControlInv, WorldOK, Mapped
  <2> DEFINE timers == {t \in control.timers : t.window # w /\ t.kind # "expire"}
                       \cup {Timer("expire", NoWindow, 0, Number(control))}
             bare == NoRequest
  <2>2. control' = [control EXCEPT
            !.requests[w] = bare, !.waiting = @ \ {w}, !.withdrawals[w] = 0,
            !.overdue = @ \ {w}, !.releases[w] = 0, !.stretched = @ \ {w},
            !.size[w] = NoSize, !.told[w] = <<>>, !.timers = timers]
    BY <1>3, <2>1 DEF Close
  <2>3. control \in Controls
    BY ControlIs
  <2> HIDE DEF timers, bare
  <2>4. control'.size[w] = NoSize
    BY <2>2, <2>3 DEF Controls
  <2> QED BY <2>4
<1>4. CASE UNCHANGED vars
  BY <1>1, <1>4 DEF vars
<1>5. ASSUME NEW v \in Windows, KWinToggles(v) \/ Client(v) \/ AsksState(v) \/ AsksSize(v)
      PROVE  life'[w] = "mapped"
  BY <1>1, <1>5 DEF KWinToggles, Client, ReadsResize, Commits, AsksState, AsksSize
<1>6. CASE SaveSettings \/ ChoosesMode \/ XEvent
  BY <1>1, <1>6 DEF SaveSettings, ChoosesMode, XEvent, ModeChanged, LeaveRequested,
                    FullscreenRequested, ResizeRequested
<1>7. ASSUME NEW t \in control.timers, Callback(t)
      PROVE  life'[w] = "mapped"
  BY <1>1, <1>7 DEF Callback, LookAt, ReleaseEnds, WithdrawalEnds, WithdrawalOverdue, Judge,
                    AskAgain, Expire, Comes
<1> QED BY <1>2, <1>3, <1>4, <1>5, <1>6, <1>7 DEF Next

LEMMA SizedAsAsked ==
    ASSUME ControlInv, FitInv', [Next]_vars, NEW w \in Mapped,
           control'.size[w] \in Sizes
    PROVE  control'.requests[w].size = control'.size[w]
<1>1. w \in Windows /\ life[w] = "mapped"
  BY DEF Mapped
<1>2. life'[w] = "mapped"
  BY <1>1, StaysOrCloses, ConstantsAssumption
<1>3. Proper(control', w, fullscreen'[w], wanted')
  BY <1>1, <1>2 DEF FitInv, Steady, WindowsFit, GoodAs
<1>4. Sized(control', w, fullscreen'[w])
  BY <1>3 DEF Proper, Shaped
<1> QED BY <1>4, ConstantsAssumption DEF Sized
\* Once nothing is in flight every window has the size it is asked for, or its own:
\* each answering the others' resizes, KWin, the client and this control never end up
\* holding a window at a size nobody asks for.  A client that selects what it is told
\* comes to have the last size it was told for its mode, turns to it once, and KWin
\* hears of that change before anything else is asked (emulatedModeChanged(),
\* x11resolution_events.cpp:112): so the property sizes the window again to what it
\* already has.  It is so where nobody asks again for the fullscreen it has or acts
\* before KWin handled what came before, the client answers within the validation
\* window, chooses no mode of its own and selects every resize if it does one, and no
\* window opens under a mode another one left.
THEOREM WindowsEndAsAsked == Regular => []EndsAsAsked
<1> SUFFICES ASSUME Strict, Selects
             PROVE  Spec /\ [][OpensBare]_vars => []EndsAsAsked
  BY DEF Regular
<1>1. Init => FitInv
  BY FitStarts
<1>2. FitInv /\ [Next]_vars /\ [OpensBare]_vars => FitInv'
  BY FitStep
<1>3. FitInv => EndsAsAsked
  BY QuietIsAsked
<1> QED BY <1>1, <1>2, <1>3, PTL DEF Spec

\* "Restoring the window before that answer arrives lets the answer overtake the
\* restore" (x11resolution_events.cpp:149): under the same promises a window is only
\* ever made smaller to the size of the request that stands, whichever of KWin, the
\* client's property and this control sizes it.
THEOREM SizedOnlyByRequest == Regular => SizedByRequest
<1> SUFFICES ASSUME Strict, Selects
             PROVE  Spec /\ [][OpensBare]_vars => SizedByRequest
  BY DEF Regular
<1>1. Init => FitInv
  BY FitStarts
<1>2. FitInv /\ [Next]_vars /\ [OpensBare]_vars => FitInv'
  BY FitStep
<1>3. FitInv /\ FitInv' /\ [Next]_vars =>
        [\A w \in Mapped :
          control'.size[w] \in Sizes \ {control.size[w]}
              => control'.requests[w].size = control'.size[w]]_vars
  BY SizedAsAsked DEF FitInv
<1> QED BY <1>1, <1>2, <1>3, PTL DEF Spec, SizedByRequest

====
