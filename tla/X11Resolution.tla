---------------------------- MODULE X11Resolution ----------------------------
(***************************************************************************)
(* The effect's control over the size of an X11 game's window              *)
(* (plugins/upscale/x11resolution*.cpp): it asks the window of one         *)
(* program, on one output, for a smaller size, judges after the validation *)
(* window whether the client took it, tries once more, and gives the       *)
(* window back.                                                            *)
(*                                                                         *)
(* The client answers on its own time: it reads each resize, may select    *)
(* the size as its emulated mode, which Xwayland keeps as a property of    *)
(* its windows, and commits a buffer.  KWin 6.6 sizes a fullscreen window  *)
(* from that property whenever it changes, after this control saw the      *)
(* event.  KWin, Xwayland and the client are external: they do what the    *)
(* control's code says it relies on.                                       *)
(*                                                                         *)
(* What the handlers change together is one record, control; a handler is  *)
(* an operator from its value before to its value after.                   *)
(***************************************************************************)
EXTENDS Integers, FiniteSets, Sequences, FiniteSetsExt, SequencesExt

CONSTANTS
    Windows,     \* window identifiers, each used once
    Sizes,       \* smaller modes the output lists
    Full,        \* the output's size
    Windowed,    \* the size of the window when it is not fullscreen
    NoSize, NoWindow,
    Available,   \* those begin() takes: still listed, and on the primary
                 \* output where the entry asks for it
    NeedsMode,   \* the entry's x11RequiresEmulatedMode, of a program not served
    SizesByMode, \* KWin reads the property, as 6.6 does and 6.3 does not
    MaxAttempts, \* windows tried in a row, 6 in the code
    Clients,     \* kinds of client: what one may do with a resize, of "mode",
                 \* "buffer" and "deaf"
    Prompt,      \* the client answers within the validation window
    Moves,       \* bound: what the user and the client do on their own, of
                 \* "save", "toggle", "message", "reassert", "resize", "mode",
                 \* and whether they are "hasty", see May
    MaxMoves     \* bound: how often

ASSUME ConstantsAssumption ==
    /\ IsFiniteSet(Windows)
    /\ Full \notin Sizes /\ Windowed \notin Sizes /\ NoSize \notin Sizes
    /\ Full # NoSize /\ Windowed # NoSize
    /\ NoWindow \notin Windows
    /\ Available \subseteq Sizes
    /\ NeedsMode \in BOOLEAN /\ SizesByMode \in BOOLEAN /\ Prompt \in BOOLEAN
    /\ MaxAttempts \in Nat \ {0}
    /\ Clients \subseteq SUBSET {"mode", "buffer", "deaf"} /\ {} \notin Clients
    /\ Moves \subseteq {"save", "toggle", "message", "reassert", "resize", "mode", "hasty"}
    /\ MaxMoves \in Nat

VARIABLES
    client,     \* the kind of client the program is
    life,       \* "none", "mapped" or "gone", for each window
    fullscreen, \* KWin's state of each window
    draws,      \* the size the client draws each window at
    buffer,     \* the size of the last buffer it committed
    mode,       \* the client's emulated mode, on all its windows
    events,     \* X events KWin has not handled yet
    wanted,     \* the listed mode the settings come to, or NoSize
    control,    \* what the handlers of this control change, see Init
    moves       \* how often the user and the client moved on their own

vars == <<client, life, fullscreen, draws, buffer, mode, events, wanted, control, moves>>

NoRequest == [size |-> NoSize, answered |-> FALSE, presented |-> FALSE, verdict |-> 0]
Fresh == [failed |-> FALSE, window |-> NoWindow, count |-> 0, retried |-> FALSE,
          validation |-> 0]

\* A callback that will come: its kind, window and token, and the deadline it
\* comes at, 0 for one that is due at once.
Timer(kind, w, token, due) ==
    [kind |-> kind, window |-> w, token |-> token, due |-> due]

\* Validations, waits and deadlines are numbered in the order they are set:
\* they are only compared with those that are pending, see Number, and every
\* deadline is the same time after the moment it is set.

Init ==
    /\ client \in Clients
    /\ life = [w \in Windows |-> "none"]
    /\ fullscreen = [w \in Windows |-> FALSE]
    /\ draws = [w \in Windows |-> NoSize]
    /\ buffer = [w \in Windows |-> NoSize]
    /\ mode = NoSize
    /\ events = <<>>
    /\ wanted \in Sizes
    /\ control = [requests |-> [w \in Windows |-> NoRequest],
                  negotiation |-> Fresh, waiting |-> {},
                  withdrawals |-> [w \in Windows |-> 0], overdue |-> {},
                  releases |-> [w \in Windows |-> 0], timers |-> {},
                  generation |-> 0, stretched |-> {},
                  size |-> [w \in Windows |-> NoSize],
                  told |-> [w \in Windows |-> <<>>]]
    /\ moves = 0

Mapped == {w \in Windows : life[w] = "mapped"}
Requested(c) == {w \in Windows : c.requests[w] # NoRequest}

-----------------------------------------------------------------------------
(* What the handlers are made of.                                          *)

\* ++m_nextWait, ++m_nextValidation: a number nothing pending has, after every
\* deadline.
Number(c) ==
    1 + Max({0, c.negotiation.validation}
            \cup {t.token : t \in c.timers} \cup {t.due : t \in c.timers}
            \cup {c.requests[w].verdict : w \in Windows})

\* A resize reaches the client when it changes something, or is announced.
Configure(c, w, s) ==
    [c EXCEPT !.size[w] = s,
              !.told[w] = IF c.size[w] = s THEN @ ELSE Append(@, s)]
Announce(c, w, s) == [c EXCEPT !.size[w] = s, !.told[w] = Append(@, s)]

NormalSize(w) == IF fullscreen[w] THEN Full ELSE Windowed

\* schedule(): one look at a window waits at a time.
Schedule(c, w) == [c EXCEPT !.timers = @ \cup {Timer("apply", w, 0, 0)}]

AwaitWithdrawal(c, w) ==
    LET n == Number(c)
    IN  [c EXCEPT !.withdrawals[w] = n,
                  !.overdue = @ \ {w},
                  !.timers = @ \cup {Timer("withdraw", w, n, n)}]

\* KWin's own value for a surface this control sized.
UnstretchNothing(c, w) == c   \* seeded fault: stays stretched
Unstretch(c, w) ==
    IF c.requests[w].presented THEN [c EXCEPT !.stretched = @ \ {w}] ELSE c

\* restore(): give the window back at once.
RestoreUnawaited(c, w) ==     \* seeded fault: the withdrawal is not awaited
    LET ended == [c EXCEPT !.waiting = @ \ {w}, !.releases[w] = 0,
                           !.requests[w] = NoRequest]
    IN  IF c.requests[w] = NoRequest THEN ended
        ELSE Configure(ended, w, NormalSize(w))
Restore(c, w) ==
    LET ended == [Unstretch(c, w) EXCEPT !.waiting = @ \ {w}, !.releases[w] = 0,
                                         !.requests[w] = NoRequest]
        handed == Configure(ended, w, NormalSize(w))
    IN  IF c.requests[w] = NoRequest THEN ended
        ELSE IF mode # NoSize THEN AwaitWithdrawal(handed, w)
        ELSE handed
RestoreEach(c, S) == FoldSet(LAMBDA w, d : Restore(d, w), c, S)

\* release(): give the window back once its client answered the request.
ReleaseAtOnce(c, w) == Restore(c, w)   \* seeded fault: no answer is awaited
ReleaseForever(c, w) ==       \* seeded fault: no end without an answer
    IF c.requests[w] = NoRequest \/ c.requests[w].answered THEN Restore(c, w)
    ELSE [c EXCEPT !.releases[w] = Number(c)]
Release(c, w) ==
    LET request == c.requests[w]
        answered == request.answered \/ mode = request.size
        n == Number(c)
        remaining == IF \E t \in c.timers : t.due = request.verdict
                     THEN request.verdict ELSE 0
    IN  IF request = NoRequest \/ answered THEN Restore(c, w)
        ELSE [c EXCEPT !.releases[w] = n,
                       !.timers = @ \cup {Timer("release", w, n, remaining)}]

\* refuse(): nothing more is asked in this negotiation.
Refuse(c) ==
    RestoreEach([c EXCEPT !.negotiation.failed = TRUE], Requested(c))

\* requestFor(): the size to ask of a window that presents.
AskedSize(c) == IF c.negotiation.failed THEN NoSize ELSE wanted

\* begin(): the new request of window w, once the one before it was restored.
Begun(c, w, s) ==
    LET tried == IF c.negotiation.window = w THEN c.negotiation
                 ELSE [c.negotiation EXCEPT !.window = w, !.count = @ + 1]
        n == Number(c)
    IN  IF s \notin Available THEN Refuse(c)
        ELSE IF tried.count > MaxAttempts
        THEN Refuse([c EXCEPT !.negotiation = tried])
        ELSE [c EXCEPT
                !.negotiation = [tried EXCEPT !.validation = n],
                !.requests[w] = [size |-> s, answered |-> mode = s,
                                 presented |-> FALSE, verdict |-> n],
                !.timers = @ \cup {Timer("validate", NoWindow, n, n)}]

Begin(c, w, s) ==
    IF c.requests[w].size = s THEN c ELSE Begun(Restore(c, w), w, s)

\* What a handler sends where begin() returned true.
AskSize(c, w, s) ==
    LET begun == Begin(c, w, s)
    IN  IF begun.requests[w].size = s THEN Configure(begun, w, s) ELSE begun

\* ask(): wait for a mode the client has to withdraw, else ask.
AskAtOnce(c, w, s) == AskSize(c, w, s)   \* seeded fault: no withdrawal is awaited
Ask(c, w, s) ==
    IF c.withdrawals[w] # 0 THEN c
    ELSE IF mode \notin {NoSize, s} /\ w \notin c.overdue THEN AwaitWithdrawal(c, w)
    ELSE AskSize([c EXCEPT !.overdue = @ \ {w}], w, s)

\* apply(): look at a window.  A fullscreen window's frame covers its output.
Apply(c, w) ==
    LET s == AskedSize(c)
        released == Release(c, w)
    IN  IF ~fullscreen[w] THEN Restore(c, w)
        ELSE IF c.releases[w] # 0 THEN c
        ELSE IF s = NoSize THEN released
        ELSE IF buffer[w] = NoSize THEN [c EXCEPT !.waiting = @ \cup {w}]
        ELSE IF c.requests[w].size = s THEN c
        ELSE IF c.requests[w] = NoRequest THEN Ask(c, w, s)
        ELSE IF released.releases[w] # 0 THEN released
        ELSE Ask(released, w, s)

\* present(): size the surface of a window that drew the size without a mode.
Present(c, w, size) ==
    LET request == c.requests[w]
        takes == request.presented \/ (~NeedsMode /\ mode # size)
    IN  IF request.size # size \/ ~takes THEN c
        ELSE [c EXCEPT !.requests[w].presented = TRUE,
                       !.stretched = @ \cup {w}]

\* unmetCondition(): the buffer, the mode where it is needed, the frame and
\* what the buffer is presented at.
Unmet(c, w) ==
    LET s == c.requests[w].size
    IN  \/ buffer[w] # s
        \/ NeedsMode /\ mode # s
        \/ ~fullscreen[w]
        \/ mode # s /\ w \notin c.stretched

\* retry(), or refuse() the second time.
RetryOrRefuse(c) ==
    LET again == RestoreEach([c EXCEPT !.negotiation.retried = TRUE], Requested(c))
    IN  IF c.negotiation.retried THEN Refuse(c)
        ELSE [again EXCEPT !.timers = @ \cup
                {Timer("retry", w, c.generation, 0) : w \in Requested(c)}]

\* validate(): judge every request of the negotiation.
Validate(c) ==
    LET judged == [c EXCEPT !.requests =
            [w \in Windows |-> IF w \in Requested(c)
                               THEN [c.requests[w] EXCEPT !.answered = TRUE]
                               ELSE c.requests[w]]]
    IN  IF \E w \in Requested(c) : Unmet(c, w) THEN RetryOrRefuse(judged)
        ELSE IF Requested(c) = {} THEN c
        ELSE [judged EXCEPT !.negotiation.window = NoWindow,
                            !.negotiation.count = 0]

-----------------------------------------------------------------------------
(* Windows and settings.                                                   *)

\* windowAdded: watch() a window its client mapped, in fullscreen or not.  A
\* window follows the one it replaces.
Map(w) ==
    /\ life[w] = "none"
    /\ Mapped = {}
    /\ life' = [life EXCEPT ![w] = "mapped"]
    /\ draws' = [draws EXCEPT ![w] = Windowed]
    /\ \E entered \in BOOLEAN :
        /\ fullscreen' = [fullscreen EXCEPT ![w] = entered]
        /\ control' = Schedule(Configure([control EXCEPT !.size[w] = Windowed], w,
                                        IF entered THEN Full ELSE Windowed), w)
    /\ UNCHANGED <<client, buffer, mode, events, wanted, moves>>

\* forget(): nothing is kept of a window that closed; the negotiation outlives
\* it for a while, in case another window follows.  All events are of the one
\* window that is mapped.
Close(w) ==
    /\ life[w] = "mapped"
    /\ life' = [life EXCEPT ![w] = "gone"]
    /\ fullscreen' = [fullscreen EXCEPT ![w] = FALSE]
    /\ buffer' = [buffer EXCEPT ![w] = NoSize]
    /\ draws' = [draws EXCEPT ![w] = NoSize]
    /\ events' = <<>>
    /\ control' = [control EXCEPT
            !.requests[w] = NoRequest,
            !.waiting = @ \ {w},
            !.withdrawals[w] = 0,
            !.overdue = @ \ {w},
            !.releases[w] = 0,
            !.stretched = @ \ {w},
            !.size[w] = NoSize,
            !.told[w] = <<>>,
            !.timers = {t \in @ : t.window # w /\ t.kind # "expire"}
                       \cup {Timer("expire", NoWindow, 0, Number(control))}]
    /\ UNCHANGED <<client, mode, wanted, moves>>

\* reconfigure(): give everything back and look at every window again.
Reconfigured(c) ==
    LET released == FoldSet(LAMBDA w, d : Release(d, w), c, Requested(c))
    IN  [released EXCEPT
            !.generation = @ + 1,
            !.negotiation = Fresh,
            !.waiting = {},
            !.overdue = {},
            !.timers = @ \cup {Timer("apply", w, 0, 0) : w \in Mapped}]

\* Nothing the client was sent waits for its answer.
Idle ==
    /\ events = <<>>
    /\ \A w \in Mapped : control.told[w] = <<>> /\ draws[w] = buffer[w]

\* KWin's event loop handled what it had at once.
Handled ==
    /\ events = <<>>
    /\ \A t \in control.timers : t.due # 0 \/ t.kind = "retry"

\* The user and the client do something of their own accord.  Unless they are
\* hasty KWin handled what came before, and a window goes in or out of
\* fullscreen only once the client answered it.
May(kind) ==
    /\ kind \in Moves
    /\ moves < MaxMoves
    /\ \/ "hasty" \in Moves
       \/ Handled /\ (kind \in {"toggle", "message"} => Idle)
    /\ moves' = moves + 1

\* The user saves other settings.
SaveSettings ==
    /\ May("save")
    /\ wanted' \in Sizes \cup {NoSize}
    /\ control' = Reconfigured(control)
    /\ UNCHANGED <<client, life, fullscreen, draws, buffer, mode, events>>

\* KWin puts a window in or out of fullscreen: it sizes the window, and its
\* change of state is a look at it.
Toggled(c, w, enter) ==
    Schedule(Configure(c, w, IF enter THEN Full ELSE Windowed), w)
KWinToggles(w) ==
    /\ May("toggle")
    /\ w \in Mapped
    /\ fullscreen' = [fullscreen EXCEPT ![w] = ~@]
    /\ control' = Toggled(control, w, ~fullscreen[w])
    /\ UNCHANGED <<client, life, draws, buffer, mode, events, wanted>>

-----------------------------------------------------------------------------
(* X events.                                                               *)

Arrives(kind) == events # <<>> /\ Head(events).kind = kind /\ events' = Tail(events)

\* emulatedModeChanged(): note the answer a request waits for, and end the
\* waits once KWin has handled the event too.
ModeNoted(c, w, new) ==
    LET request == c.requests[w]
        answer == request # NoRequest /\ ~request.answered /\ new
                  /\ mode = request.size
    IN  IF Requested(c) = {} /\ \A v \in Windows : c.withdrawals[v] = 0 THEN c
        ELSE [c EXCEPT
            !.requests[w].answered = @ \/ answer,
            !.timers = @
                \cup (IF answer /\ c.releases[w] # 0
                      THEN {Timer("answer", w, c.releases[w], 0)} ELSE {})
                \cup (IF c.withdrawals[w] # 0
                      THEN {Timer("withdrawn", w, c.withdrawals[w], 0)} ELSE {})]

\* KWin 6.6, after this control: the mode the property names, or the full
\* frame once it has gone.
SizedByMode(c, w) ==
    IF SizesByMode /\ fullscreen[w]
    THEN Configure(c, w, IF mode = NoSize THEN Full ELSE mode)
    ELSE c

ModeChanged ==
    /\ Arrives("mode")
    /\ LET e == Head(events)
       IN  control' = SizedByMode(ModeNoted(control, e.window, e.value), e.window)
    /\ UNCHANGED <<client, life, fullscreen, draws, buffer, mode, wanted, moves>>

\* fullscreenRequest() of a window that leaves fullscreen: the request is given
\* back, and KWin handles the message.
LeaveRequested ==
    /\ Arrives("state")
    /\ ~Head(events).value
    /\ LET w == Head(events).window
           restored == Restore(control, w)
       IN  /\ control' = IF fullscreen[w] THEN Toggled(restored, w, FALSE) ELSE restored
           /\ fullscreen' = [fullscreen EXCEPT ![w] = FALSE]
    /\ UNCHANGED <<client, life, draws, buffer, mode, wanted, moves>>

\* fullscreenRequest() of a window that enters it: the size is asked before
\* KWin sizes the window, unless a mode is still being withdrawn, nothing is to
\* be asked or it is refused; KWin then enters by itself.
FullscreenAsked(c, w) ==
    LET s == AskedSize(c)
        begun == Begin(c, w, s)
        entered(d) == IF fullscreen[w] THEN d ELSE Schedule(d, w)
        byKWin(d) == IF fullscreen[w] THEN d ELSE Toggled(d, w, TRUE)
    IN  IF c.withdrawals[w] # 0 \/ s = NoSize THEN byKWin(c)
        ELSE IF begun.requests[w].size # s THEN byKWin(begun)
        ELSE entered(Configure(begun, w, s))

FullscreenRequested ==
    /\ Arrives("state")
    /\ Head(events).value
    /\ LET w == Head(events).window
       IN  /\ control' = FullscreenAsked(control, w)
           /\ fullscreen' = [fullscreen EXCEPT ![w] = TRUE]
    /\ UNCHANGED <<client, life, draws, buffer, mode, wanted, moves>>

\* A ConfigureRequest: a window that stands under a request, or whose mode is
\* being withdrawn, is told the size it has; KWin answers for any other.
ResizeRequested ==
    /\ Arrives("resize")
    /\ LET w == Head(events).window
           request == control.requests[w]
       IN  control' =
            IF fullscreen[w] /\ request # NoRequest
            THEN Announce(control, w, request.size)
            ELSE IF fullscreen[w] /\ control.withdrawals[w] # 0
            THEN Announce(control, w, NormalSize(w))
            ELSE Announce(control, w, control.size[w])
    /\ UNCHANGED <<client, life, fullscreen, draws, buffer, mode, wanted, moves>>

-----------------------------------------------------------------------------
(* Callbacks.                                                              *)

\* Timers come in the order of their deadlines.
Ready(t) ==
    \/ t.due = 0
    \/ /\ \A u \in control.timers : u.due = 0 \/ t.due <= u.due
       /\ Prompt => Idle

\* Callback t comes, and turns control into c.
Comes(t, c) ==
    /\ Ready(t)
    /\ control' = [c EXCEPT !.timers = @ \ {t}]
    /\ UNCHANGED <<client, life, fullscreen, draws, buffer, mode, events, wanted, moves>>

\* schedule()'s callback.  A look that is asked for meanwhile is another.
LookAt(t) ==
    /\ t.kind = "apply"
    /\ Ready(t)
    /\ control' = Apply([control EXCEPT !.timers = @ \ {t}], t.window)
    /\ UNCHANGED <<client, life, fullscreen, draws, buffer, mode, events, wanted, moves>>

\* The release of a request ends with its answer, or at its verdict.
ReleaseEnds(t) ==
    /\ t.kind \in {"answer", "release"}
    /\ Comes(t, IF control.releases[t.window] = t.token
                THEN Schedule(Restore(control, t.window), t.window)
                ELSE control)

\* A wait for a withdrawal ends with a change of mode.
WithdrawalEnds(t) ==
    /\ t.kind = "withdrawn"
    /\ Comes(t, IF control.withdrawals[t.window] = t.token
                THEN Schedule([control EXCEPT !.withdrawals[t.window] = 0], t.window)
                ELSE control)

\* It ends by itself after the validation window.
WithdrawalOverdue(t) ==
    /\ t.kind = "withdraw"
    /\ Comes(t, IF control.withdrawals[t.window] = t.token
                THEN Schedule([control EXCEPT !.withdrawals[t.window] = 0,
                                              !.overdue = @ \cup {t.window}],
                              t.window)
                ELSE control)

\* validate(), unless another request or reconfiguration replaced this one.
Judge(t) ==
    /\ t.kind = "validate"
    /\ Comes(t, IF control.negotiation.validation = t.token
                   /\ ~control.negotiation.failed
                THEN Validate(control) ELSE control)

\* retry()'s quarter of a second.
AskAgain(t) ==
    /\ t.kind = "retry"
    /\ Comes(t, IF control.generation = t.token
                THEN Schedule(control, t.window) ELSE control)

\* expireState(): no window goes on with the negotiation.
Expire(t) ==
    /\ t.kind = "expire"
    /\ Comes(t, IF wanted # NoSize /\ \E w \in Mapped : fullscreen[w]
                THEN control ELSE [control EXCEPT !.negotiation = Fresh])

-----------------------------------------------------------------------------
(* The client.                                                             *)

\* Xwayland notes the mode on every window of the client.
SetsMode(m) ==
    /\ mode' = m
    /\ events' = IF m = mode THEN events
                 ELSE events \o SetToSeq({[kind |-> "mode", window |-> w,
                                           value |-> m # NoSize] : w \in Mapped})

\* The client reads a resize, and selects it as its mode, just draws it, or
\* discards it.
ReadsResize(w) ==
    /\ w \in Mapped
    /\ control.told[w] # <<>>
    /\ LET s == Head(control.told[w])
       IN  \/ /\ "mode" \in client
              /\ SetsMode(IF s \in Sizes THEN s ELSE NoSize)
              /\ draws' = [draws EXCEPT ![w] = s]
           \/ /\ "buffer" \in client
              /\ draws' = [draws EXCEPT ![w] = s]
              /\ UNCHANGED <<mode, events>>
           \/ /\ "deaf" \in client
              /\ UNCHANGED <<draws, mode, events>>
    /\ control' = [control EXCEPT !.told[w] = Tail(@)]
    /\ UNCHANGED <<client, life, fullscreen, buffer, wanted, moves>>

\* windowDamaged: a window that waited for its first buffer is looked at, and
\* a buffer of the size asked for is presented.
Damaged(c, w, s) ==
    LET seen == IF w \in c.waiting
                THEN Schedule([c EXCEPT !.waiting = @ \ {w}], w) ELSE c
    IN  Present([seen EXCEPT !.stretched = @ \ {w}], w, s)

Commits(w) ==
    /\ w \in Mapped
    /\ buffer[w] # draws[w]
    /\ buffer' = [buffer EXCEPT ![w] = draws[w]]
    /\ control' = Damaged(control, w, draws[w])
    /\ UNCHANGED <<client, life, fullscreen, draws, mode, events, wanted, moves>>

\* What it does on its own: ask for fullscreen or to leave it, again where it
\* has it already, ask for a size, or choose a mode.
Sends(kind, w, value) ==
    events' = Append(events, [kind |-> kind, window |-> w, value |-> value])
AsksState(w) ==
    /\ w \in Mapped
    /\ \/ May("message") /\ Sends("state", w, ~fullscreen[w])
       \/ May("reassert") /\ fullscreen[w] /\ Sends("state", w, TRUE)
    /\ UNCHANGED <<client, life, fullscreen, draws, buffer, mode, wanted, control>>
AsksSize(w) ==
    /\ w \in Mapped
    /\ May("resize")
    /\ Sends("resize", w, FALSE)
    /\ UNCHANGED <<client, life, fullscreen, draws, buffer, mode, wanted, control>>
ChoosesMode ==
    /\ May("mode")
    /\ Mapped # {}
    /\ \E m \in Sizes \cup {NoSize} : m # mode /\ SetsMode(m)
    /\ UNCHANGED <<client, life, fullscreen, draws, buffer, wanted, control>>

Client(w) == ReadsResize(w) \/ Commits(w)
Callback(t) ==
    \/ LookAt(t) \/ ReleaseEnds(t) \/ WithdrawalEnds(t) \/ WithdrawalOverdue(t)
    \/ Judge(t) \/ AskAgain(t) \/ Expire(t)
XEvent == ModeChanged \/ LeaveRequested \/ FullscreenRequested \/ ResizeRequested

Next ==
    \/ \E w \in Windows : Map(w) \/ Close(w) \/ KWinToggles(w) \/ Client(w)
                          \/ AsksState(w) \/ AsksSize(w)
    \/ SaveSettings
    \/ ChoosesMode
    \/ XEvent
    \/ \E t \in control.timers : Callback(t)

Spec == Init /\ [][Next]_vars

\* KWin's event loop handles its events and timers, and the client its own.
Fairness ==
    /\ WF_vars(XEvent)
    /\ WF_vars(\E t \in control.timers : Callback(t))
    /\ \A w \in Windows : WF_vars(ReadsResize(w)) /\ WF_vars(Commits(w))

FairSpec == Spec /\ Fairness

-----------------------------------------------------------------------------
(* Properties.                                                             *)

\* A callback that still has something to do.
Awaited(t) ==
    CASE t.kind \in {"answer", "release"} -> control.releases[t.window] = t.token
      [] t.kind \in {"withdrawn", "withdraw"} ->
            control.withdrawals[t.window] = t.token
      [] t.kind = "validate" ->
            control.negotiation.validation = t.token /\ ~control.negotiation.failed
      [] t.kind = "retry" -> control.generation = t.token
      [] t.kind = "expire" -> FALSE
      [] OTHER -> TRUE

\* Nothing is in flight: the client read and drew everything, and no callback
\* has anything left to do.
Quiet == Idle /\ \A t \in control.timers : ~Awaited(t)

\* Once nothing is in flight a window has the size of its request, and one
\* without a request has its own: KWin, the client and this control, each
\* answering the others' resizes, never end up holding a window at a size that
\* nobody asks for, or undoing one that stands.
EndsAsAsked ==
    Quiet => \A w \in Mapped :
        IF control.requests[w] = NoRequest
        THEN control.size[w] = NormalSize(w)
        ELSE control.size[w] = control.requests[w].size

\* Only a surface presented by this control is sized by it: the enlarged
\* picture never outlives the request (restore()).
StretchedByRequest ==
    \A w \in control.stretched : control.requests[w].presented

\* A request is not given back before its answer or its verdict, unless its
\* window leaves fullscreen or closes, or it is refused (release()).
AnswerIsAwaited ==
    [][\A w \in Mapped :
          LET request == control.requests[w]
          IN  /\ request # NoRequest /\ ~request.answered /\ mode # request.size
              /\ control'.requests[w] = NoRequest
              => \/ \A t \in control'.timers :
                        t.kind = "validate" => t.due # request.verdict
                 \/ \E t \in control.timers \ control'.timers :
                        t.due = request.verdict
                 \/ ~fullscreen[w] \/ ~fullscreen'[w]
                 \/ life'[w] = "gone"
                 \/ control'.negotiation.failed]_vars

\* "Restoring the window before that answer arrives lets the answer overtake the
\* restore: KWin then sizes the window to the mode of a request that no longer
\* exists" (x11resolution_events.cpp:149): a window is only ever made smaller
\* to the size of its request.
SizedByRequest ==
    [][\A w \in Mapped :
          control'.size[w] \in Sizes \ {control.size[w]}
              => control'.requests[w].size = control'.size[w]]_vars

\* "Nothing is asked of the client until it has withdrawn the emulated mode of
\* the request before this one" (x11resolution.cpp:453).
NothingAskedMeanwhile ==
    \A w \in Windows :
        control.requests[w] # NoRequest => control.withdrawals[w] = 0

\* Whatever the client does, every wait for it ends, and this control stops
\* asking: "never loop on a client which cannot establish full-output
\* presentation" (x11resolution_validate.cpp:140).
ComesToRest ==
    <>[](/\ \A w \in Windows : control.releases[w] = 0 /\ control.withdrawals[w] = 0
         /\ \A t \in control.timers : ~Awaited(t))
=============================================================================
